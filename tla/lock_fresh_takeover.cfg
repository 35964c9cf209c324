SPECIFICATION Spec
CONSTANTS
  a = a
  b = b
  c = c
  NoFile = NoFile
  Empty = Empty
  NoRecord = NoRecord
  Sessions = {a, b}
  Forcers = {a}
  AlwaysRelease = {}
  Anonymous = {}
  StaleSeconds = 1
  QueueMaxAttempts = 1
  MaxTime = 0
  MaxLocks = 4
  MaxCrashes = 0
INVARIANT OneSession
CHECK_DEADLOCK FALSE
