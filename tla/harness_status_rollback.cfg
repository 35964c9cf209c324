SPECIFICATION Spec
CONSTANTS
  p = p
  q = q
  None = None
  Torn = Torn
  Procs = {p, q}
  Owners <- AllOwners
  OwnerOf <- OwnOwner
  Lanes = {"ci"}
  CycleCap = 3
  MaxCrashes = 0
INVARIANT TurnsAreCounted
