SPECIFICATION FairLoopSpec
CONSTANTS
  p = p
  q = q
  None = None
  Torn = Torn
  Procs = {p, q}
  Owners <- AllOwners
  OwnerOf <- OwnOwner
  Lanes = {"ci"}
  CycleCap = 0
  MaxCrashes = 1
  Observers = {p}
  ExecuteTurn = TRUE
  MaxCycles = 2
INVARIANTS LoopTypeOK StopDrains LeavesNoLease
PROPERTIES StopsOnRequest BoundedRunsEnd
VIEW WhatIsRead
