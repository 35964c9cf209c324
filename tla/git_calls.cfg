\* Two callers, two lock files, a git that no call guards, two attempts, one death.
SPECIFICATION FairSpec
CONSTANTS
  Callers = {c1, c2}
  Others = {o1}
  Locks = {l1, l2}
  NoCaller = NoCaller
  MaxAttempts = 2
  AllowKill = TRUE
  MaxDeaths = 1
INVARIANTS
  TypeOK
  WorkersHaveTheirLock
  AppliedOnce
  OrphansBlockNobody
PROPERTIES
  CallsReturn
VIEW WhatIsRead
CHECK_DEADLOCK FALSE
