CONSTANTS
  f1 = f1
  f2 = f2
  Configs <- AllKinds
  Endpoints <- Servers
  Prod = "prod"
  Firmwares = {f1, f2}
  None = None
  Cleared = Cleared
  Malformed = Malformed
  WhoamiSupport = FALSE
  RETRY_COUNT = 3
  MaxEvents = 1
  MaxWriteErrors = 0
SYMMETRY Symmetry
SPECIFICATION Spec
INVARIANTS TypeOK HashMatchesParams AccountRestored SameHashNoReboot
