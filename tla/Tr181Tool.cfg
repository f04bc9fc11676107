SPECIFICATION FairSpec
CONSTANTS
  Texts <- MCTexts
  CommandLines <- MCCommandLines
  Params = {"k"}
  OwnType <- MCOwnType
  None = None
  MaxEvents = 1
INVARIANTS
  TypeOK
  DoesAsTold
PROPERTIES
  InvocationEnds
CHECK_DEADLOCK FALSE
