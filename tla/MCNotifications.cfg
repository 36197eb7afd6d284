SPECIFICATION MCSpec
CONSTANTS
  Events = {"OrderDelivered", "LowStockDetected"}
  Channels = {"Email"}
  MaxRetries = 2
  MaxCrashes = 1
  MaxUnread = 1
INVARIANTS SendsAccounted NotificationViewsFollow
PROPERTIES Dispatched AlertsReachOperators
