SPECIFICATION Spec
CONSTANTS
  rfc = rfc
  outside = outside
  account = account
  url = url
  v1 = v1
  v2 = v2
  Keys = {rfc, outside, account, url}
  RfcKeys = {rfc, account, url}
  BootKeys = {url}
  AccountKey = account
  UrlKey = url
  Defaults = {outside, rfc}
  Empty = Empty
  Unknown = Unknown
  Values = {v1, v2, Empty, Unknown}
  DefaultValue = v1
  Responses <- MCResponses
  None = None
  NoData = NoData
  Foreign = {v2, Empty, Unknown}
  Maintenance = TRUE
  MaxEvents = 0
INVARIANT OtherFeaturesApplied
