SPECIFICATION Spec
CONSTANTS
  p = p
  q = q
  None = None
  Torn = Torn
  Procs = {p, q}
  Owners <- AllOwners
  OwnerOf <- OwnOwner
  Lanes = {"ci"}
  CycleCap = 0
  MaxCrashes = 1
INVARIANTS TypeOK TurnsHoldTheLease LanesAreOnFile
PROPERTIES TurnsEndReleased GuardedArtifacts KeepsPromise
VIEW WhatIsRead
