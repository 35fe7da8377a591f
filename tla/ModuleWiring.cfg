CONSTANTS
  Deployed = {"event_bus", "notifications"}
  MaxRegistered = 2
  MaxOps = 2
SPECIFICATION LifeSpec
PROPERTY NotificationsAreWired
CHECK_DEADLOCK FALSE
