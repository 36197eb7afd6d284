SPECIFICATION Spec
CONSTANTS
  r1 = r1
  r2 = r2
  ReservationIds = {r1}
  Units = 1
  MaxRetries = 1
  MaxCrashes = 0
  MaxPayments = 1
  Callers = "ordered"
PROPERTIES CaptureSettlesOrder
CHECK_DEADLOCK FALSE
