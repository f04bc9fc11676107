SPECIFICATION Spec
CONSTANTS
  Keys <- MCKeys
  RfcKeys <- MCRfcKeys
  Kind <- MCKind
  Rank <- MCRank
  UpnpKey = "upnp"
  WfoKey = "wfo"
  ModeKey = "mode"
  UnifyKey = "unify"
  PartnerKey = "partner"
  SupportKeys = {"container"}
  Texts <- MCTexts
  Numeral <- MCNumeral
  Default <- MCDefault
  Configs = {"spelled", "bad", "none"}
  Content <- MCSpelled
  Bad = "bad"
  NoFeatures = "none"
  None = None
  NoData = NoData
  NoHash = "no hash"
  Cleared = "CLEARED"
  Foreign = {}
  MaxEvents = 1
INVARIANT
  RebootOnlyForChanges
