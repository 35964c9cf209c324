SPECIFICATION RecoverySpec
CONSTANTS
  a = a
  b = b
  c = c
  NoFile = NoFile
  NoLease = NoLease
  Clients = {a, b}
  Owners <- AllOwners
  OwnerOf <- OwnOwner
  Forcers = {a, b}
  StaleAfter = 1
  MaxAttempts = 1
  RenameRetries = 1
  Restarts = FALSE
  Punctual = FALSE
  CallsFail = FALSE
  MaxTime = 3
  MaxLeases = 3
  MaxFaults = 0
  MaxCrashes = 1
PROPERTY OrphansRecovered
