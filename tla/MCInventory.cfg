SPECIFICATION MCSpec
CONSTANTS
  r1 = r1  r2 = r2  r3 = r3  o1 = o1
  ReservationIds = {r1, r2, r3}
  OrderIds = {o1}
  Quantities <- SmallQuantities
  InitialQuantity = 3
  ReorderPoint = 1
  MaxUnits = 4
  MaxUnread = 1
SYMMETRY Symmetry
INVARIANTS LedgerBalanced StockViewsFollow
PROPERTIES OnlyAdjustmentsOverdraw LowStockAnnounced ImplementsPools
