CONSTANTS
  k1 = k1
  k2 = k2
  k3 = k3
  t1 = t1
  t2 = t2
  Keys = {k1, k2, k3}
  Tenants = {t1, t2}
  TenantOf <- MCTenantOf
  Ttls = {0, 2}
  MaxTime = 3
  MaxChecks = 3
  Parts = {"dedup", "lock", "rate", "mark", "bus", "intel", "enrichment", "modules", "links", "headers"}
  Procs = {p1, p2}
  Server = Server
  LeaseTtl = 1
  BucketLimit = 1
  BucketLength = 2
  MarkTtl = 1
  MaxRequests = 4
  MaxAcquires = 2
  MaxRedisTime = 3
  Types = {"base", "risk"}
  Ancestors <- MCAncestors
  Handlers = {h1, h2}
  MaxPublished = 2
  MaxChanges = 3
  q1 = q1
  q2 = q2
  q3 = q3
  Indicators = {q1, q2, q3}
  Providers <- OneProvider
  Threshold = 2
  Recovery = 2
  Minute = 2
  MaxQueries = 2
  Ttl = 1
  MaxSize = 2
  MaxIntelTime = 4
  Iocs <- MCIocs
  IocMails <- MCIocMails
  Replies <- MCReplies
  Outages <- MCOutages
  MaxEnriched = 2
  MaxEnrichTime = 2
  Deployed = {"iam", "database", "event_bus", "analytics", "realtime", "ingestion_gateway"}
  MaxRegistered = 3
  MaxOps = 4
  Links = {1, 2, 3, 4, 5}
  Host <- LinkHost
  Target <- LinkTarget
  Canonical <- LinkSpelling
  Wordy = {4}
  MailLinks = {{}, {1, 3}, {3, 4}, {4}, {5}}
  Zones <- LinkZones
  MaxHops = 3
  PositiveTtl = 1
  NegativeTtl = 0
  CacheSize = 1
  MaxMails = 2
  MaxLinkTime = 3
  MaxRezones = 1
  MailDomains = {"shop.com", "mail.shop.com", "other.com"}
  OrgOf <- MCOrgOf
  MarkSets <- MCMarkSets
  SpfHeaders = {{"fail", "softfail"}}
  HopTimes = {100, 161}
  MaxHeaders = 3
SYMMETRY IndicatorSymmetry
SPECIFICATION StoresSpec
INVARIANTS
  BusSafe  
PROPERTIES
  AdmitsOncePerWindow RedisSafe LifeSafe HeadersSound
CHECK_DEADLOCK FALSE
