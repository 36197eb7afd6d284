SPECIFICATION Spec
CONSTANTS
  r1 = r1
  r2 = r2
  ReservationIds = {r1}
  Units = 1
  MaxRetries = 1
  MaxCrashes = 1
  MaxPayments = 1
  Callers = "any"
INVARIANTS VerdictsGrounded PaidIsCaptured ViewCatchesUp
PROPERTIES PaidNotCancelledBySaga
CHECK_DEADLOCK FALSE
