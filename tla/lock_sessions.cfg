SPECIFICATION FairSpec
CONSTANTS
  a = a
  b = b
  c = c
  NoFile = NoFile
  Empty = Empty
  NoRecord = NoRecord
  Sessions = {a, b, c}
  Forcers = {a}
  AlwaysRelease = {a}
  Anonymous = {c}
  StaleSeconds = 0
  QueueMaxAttempts = 1
  MaxTime = 1
  MaxLocks = 3
  MaxCrashes = 1
INVARIANTS TypeOK OneSessionUntilTrespass GuardedUntilTrespass
PROPERTIES OnlyOwnersTouch ScriptsEnd
CHECK_DEADLOCK FALSE
