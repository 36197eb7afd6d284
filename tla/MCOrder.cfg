SPECIFICATION ViewedOrder
CONSTANTS
  i1 = i1  i2 = i2  p1 = p1  p2 = p2  s1 = s1  s2 = s2
  ItemIds = {i1, i2}
  Quantities = {1, 2}
  UnitPrices = {3}
  Discounts = {0, 1}
  Amounts = {5}
  Charges = {1}
  PaymentIds = {p1, p2}
  ShipmentIds = {s1, s2}
  MaxUnread = 1
INVARIANTS ItemsFollowOrder WarehousePaid OrderViewsFollow
PROPERTIES CapturedOnce TermsFixedOnceConfirmed KeepsPromise
CHECK_DEADLOCK FALSE
