SPECIFICATION Spec
CONSTANTS
  r1 = r1
  r2 = r2
  ReservationIds = {r1, r2}
  Units = 2
  MaxRetries = 1
  MaxCrashes = 1
  MaxPayments = 0
  Callers = "any"
PROPERTIES CancellationFreesStock
CHECK_DEADLOCK FALSE
