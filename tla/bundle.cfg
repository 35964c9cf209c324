\* Two agents, one cell, one lane, three leases, one kill.
SPECIFICATION Spec
CONSTANTS
  Agents = {a1, a2}
  NoAgent = NoAgent
  MaxLeases = 3
  MaxKills = 1
SYMMETRY Symmetry
CONSTRAINT NothingLost
INVARIANTS
  TypeOK
  HoldersHaveTheLane
PROPERTIES
  FailedHalvesAreUndone
