SPECIFICATION Spec
CONSTANTS
  shop = shop
  www = www
  eu = eu
  other = other
  com = com
  org = org
  dev = dev
  route53 = route53
  clouddns = clouddns
  Host = {shop, www, eu, other}
  Domain = {com, org, dev}
  Provider = {route53, clouddns}
  NoProvider = noProvider
  DomainToDNSProvider <- MCDomainToDNSProvider
  Suffixes <- MCSuffixes
  Secret = {cert}
  default = default
  Label = {empty, managed, a}
  Empty = empty
  ManagedCert = managed
  MaxLabels = 3
  MaxEntries = 2
  MaxHosts = 3
INVARIANTS
  NamesAreReversible
  NamesDoNotClash
  FilterKeepsManaged
  CopyIsWhatTheLoopsDo
  OneProviderManagesAll
  WrittenIsUpToDate
