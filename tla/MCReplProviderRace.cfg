SPECIFICATION Spec
CONSTANTS
  shop = shop
  www = www
  other = other
  com = com
  org = org
  route53 = route53
  clouddns = clouddns
  default = default
  blog = blog
  cart = cart
  certA = certA
  certB = certB
  Host = {shop, www, other}
  Domain = {com, org}
  Provider = {route53, clouddns}
  NoProvider = noProvider
  DomainToDNSProvider <- MCDomainToDNSProvider
  Suffixes <- MCSuffixes
  Absent = absent
  Garbled = garbled
  Key <- TwoKeys
  TargetTLS <- TwoProviders
  UpdateControlIngress = FALSE
  Workers <- TwoWorkers
  UserOps = {"create"}
  MaxUserOps = 2
  MaxFaults = 0
  MaxRestarts = 0
  MaxRelists = 0
INVARIANTS
  ProviderMatches
CHECK_DEADLOCK FALSE
