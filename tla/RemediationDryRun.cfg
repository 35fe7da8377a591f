CONSTANTS
  w1 = w1
  w2 = w2
  t1 = t1
  t2 = t2
  quarantine = quarantine
  block = block
  Workers = {w1}
  Keys = {quarantine}
  Tokens = {t1, t2}
  ActionOf <- Actions
  Requests <- Quarantines
  RetryGap = 1
  ReadsMayFail = FALSE
  MaxTime = 3
  MaxExec = 2
  Parts = {"remediation"}
  Orders <- MCOrders
  Adapters = {"graph", "panos"}
  Addresses = {"ann@corp"}
  NetTargets = {"a.b.com", "a-b.com", "203.0.113.7"}
  MailboxOf <- MCMailboxOf
  ObjectName <- MCObjectName
  TokenLife = 4
  TokenMargin = 3
  Threshold = 2
  Recovery = 2
  MaxOrders = 3
  MaxAdapterTime = 4
  Analysts <- MCAnalysts
  Incidents <- MCIncidents
  Corrections = {"FALSE_POSITIVE", "FALSE_NEGATIVE"}
  IdempotencyWindow = 1
  AnalyticsWindow = 1
  MinSamples = 1
  MaxRecords = 3
  MaxRecommendations = 2
  MaxRedeliveries = 1
  MaxFeedbackTime = 2
  Users <- MCUsers
  Resources = {"t1", "t2"}
  AccessTtl = 1
  RefreshTtl = 2
  MaxTokens = 4
  MaxChangesOfUsers = 1
  MaxRestarts = 1
  MaxSessionTime = 2
  Http = {h1, h2}
  Names = {"ana"}
  KeyIds = {"k1"}
  MaxFails = 2
  LockTime = 1
  MaxInvestigations = 1
  MaxLogins = 3
  MaxDeletions = 1
  MaxApiTime = 2
  MaxCalls = 3
  Threads = {g1, g2}
  Cases <- MCCases
  Opinions = {"false_positive"}
  MaxVisits = 3
  MaxTogether = 2
  MaxCrashes = 1
  RagTenants = {"t1", "t2"}
  Texts = {"x", "y"}
  TopK = 1
  MaxRagIds = 3
  MaxRagOps = 4
  MaxBatch = 3
SPECIFICATION ConsoleSpec
INVARIANT VerifiedAnswerWasExecuted
CHECK_DEADLOCK FALSE
