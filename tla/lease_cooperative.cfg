SPECIFICATION Spec
CONSTANTS
  a = a
  b = b
  c = c
  NoFile = NoFile
  NoLease = NoLease
  Clients = {a, b, c}
  Owners <- AllOwners
  OwnerOf <- OwnOwner
  Forcers = {}
  StaleAfter = 1
  MaxAttempts = 1
  RenameRetries = 1
  Restarts = TRUE
  Punctual = FALSE
  CallsFail = TRUE
  MaxTime = 2
  MaxLeases = 3
  MaxFaults = 0
  MaxCrashes = 1
INVARIANTS TypeOK OneWriter HoldersHaveTheLease Undisturbed
PROPERTIES KeepsPromise OnlyOwnersRemove NeverBackwards
