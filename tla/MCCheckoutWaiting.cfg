SPECIFICATION Spec
CONSTANTS
  r1 = r1
  r2 = r2
  ReservationIds = {r1}
  Units = 1
  MaxRetries = 1
  MaxCrashes = 1
  MaxPayments = 1
  Callers = "waiting"
PROPERTIES CaptureSettlesOrder ExhaustionCancels StreamsDrain
CHECK_DEADLOCK FALSE
