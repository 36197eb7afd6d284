SPECIFICATION ReturnsSpec
CONSTANTS
  Amount = 3
  RefundIds = {f1, f2}
  RefundAmounts = {}
  MaxCallerRefunds = 1
  MaxUnread = 2
INVARIANT RefundsWithinAmount
CHECK_DEADLOCK FALSE
