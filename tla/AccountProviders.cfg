CONSTANTS
  a1 = a1
  a2 = a2
  i1 = i1
  i2 = i2
  Accounts = {a1}
  ConfigsOf <- OneAccount
  Providers = {"MS_GRAPH", "IMAP", "GMAIL"}
  Instances = {i1, i2}
  BackoffBase = 1
  BackoffCap = 2
  MaxCounted = 2
  MaxSweep = 1
SPECIFICATION FairSpec
PROPERTY ReconcilesProviders
