CONSTANTS
  c1 = c1
  c2 = c2
  ta = ta
  tb = tb
  Tenants = {ta, tb}
  Clients = {c1, c2}
  TenantOf <- OneTenant
  QueueSize = 2
  MaxClients = 1
  IdleLimit = 1
  MaxEvents = 2
  Parts = {"broadcaster", "notifications"}
  Alerts <- MCAlerts
  Scenarios <- MCScenarios
  NoTarget = NoTarget
  ChannelsOf <- MCChannelsOf
  Route <- MCRoute
  RateWindow = 2
  RateLimit = 2
  DedupWindow = 2
  MaxSends = 2
  MaxLost = 1
  MaxTime = 2
SPECIFICATION DeliverySpec
INVARIANTS
  ClientsServed NotifySafe
PROPERTIES
  StalledClientsLeave AlertsSettle
CHECK_DEADLOCK FALSE
