SPECIFICATION FairSpec
CONSTANTS
  shop = shop
  www = www
  other = other
  com = com
  org = org
  route53 = route53
  clouddns = clouddns
  default = default
  blog = blog
  cart = cart
  certA = certA
  certB = certB
  Host = {shop, www, other}
  Domain = {com, org}
  Provider = {route53, clouddns}
  NoProvider = noProvider
  DomainToDNSProvider <- MCDomainToDNSProvider
  Suffixes <- MCSuffixes
  Absent = absent
  Garbled = garbled
  Key <- OneKey
  TargetTLS <- OneTLS
  UpdateControlIngress = FALSE
  Workers <- OneWorker
  UserOps = {"create", "delete"}
  MaxUserOps = 3
  MaxFaults = 0
  MaxRestarts = 0
  MaxRelists = 1
PROPERTIES
  OrphansAreRemoved
CHECK_DEADLOCK FALSE
