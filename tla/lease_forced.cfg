SPECIFICATION FairSpec
CONSTANTS
  a = a
  b = b
  c = c
  NoFile = NoFile
  NoLease = NoLease
  Clients = {a, b}
  Owners <- AllOwners
  OwnerOf <- OwnOwner
  Forcers = {a}
  StaleAfter = 1
  MaxAttempts = 1
  RenameRetries = 1
  Restarts = FALSE
  Punctual = TRUE
  CallsFail = TRUE
  MaxTime = 4
  MaxLeases = 3
  MaxFaults = 2
  MaxCrashes = 1
INVARIANTS SafeUntilRenameFails WatchedUntilRenameFails
PROPERTIES NeverBackwardsUntilRenameFails CommandsReturn
