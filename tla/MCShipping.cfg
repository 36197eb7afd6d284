SPECIFICATION Spec
CONSTANTS
  i1 = i1  r1 = r1  r2 = r2
  ItemIds = {i1}
  ReservationIds = {r1, r2}
  MaxRetries = 0
  MaxCrashes = 1
  MaxFailedLookups = 1
INVARIANTS BooksFollowParcel
PROPERTIES CancellationStopsWarehouse ParcelReachesOrder ShipmentCommitsStock
CHECK_DEADLOCK FALSE
