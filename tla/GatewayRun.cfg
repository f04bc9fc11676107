SPECIFICATION FairSpec
CONSTANTS
  Keys <- MCKeys
  RfcKeys <- MCRfcKeys
  Kind <- MCKind
  Rank <- MCRank
  UpnpKey = "upnp"
  WfoKey = "wfo"
  ModeKey = "mode"
  UnifyKey = "unify"
  PartnerKey = "partner"
  SupportKeys = {"container"}
  Texts <- MCTexts
  Numeral <- MCNumeral
  Default <- MCDefault
  Configs = {"switches", "gap", "text", "twice", "bad", "none"}
  Content <- MCContent
  Bad = "bad"
  NoFeatures = "none"
  None = None
  NoData = NoData
  NoHash = "no hash"
  Cleared = "CLEARED"
  Foreign = {"true"}
  MaxEvents = 2
INVARIANTS
  TypeOK
  
  RebootExactly
  WanFollowsMode
PROPERTIES
  RunEnds
  Converges
