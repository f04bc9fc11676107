CONSTANTS
  f1 = f1
  f2 = f2
  Configs <- LiveKinds
  Endpoints = {"prod"}
  Prod = "prod"
  Firmwares = {f1, f2}
  None = None
  Cleared = Cleared
  Malformed = Malformed
  WhoamiSupport = FALSE
  RETRY_COUNT = 3
  MaxEvents = 2
  MaxWriteErrors = 0
SPECIFICATION FairSpec
INVARIANT HashOfVersion
PROPERTY RunEnds
