SPECIFICATION PlatformSpec
CONSTANTS
  MaxUnread = 1
  Amount = 3
  RefundIds = {f1, f2, f3}
  RefundAmounts = {1, 2, 3}
  MaxCallerRefunds = 2
  Variants = {v1, v2}
  MaxQuantity = 2
  Calls = {call1, call2}
  MaxStops = 1
  MaxMerges = 1
  ReviewIds = {rv1, rv2}
  Voters = {voter}
  Ratings = {4, 5}
  Submissions = {sub1, sub2}
  MaxReactions = 2
  VariantIds = {w1, w2}
  ImageIds = {img1, img2, img3}
  Prices = {1, 2}
  MaxImages = 2
  CategoryIds = {c1, c2, c3}
  MaxLevel = 1
  AddressIds = {a1, a2, a3, a4}
  MaxAddresses = 3
  Phones = {ph1, ph2}
  ParcelItems = {1, 2}
  ParcelDays = {1, 2}
  ParcelExceptions = 2
  Scans = {"in_transit", "Delivered"}
  MaxTracked = 4
INVARIANTS
  AttemptsExplainStatus RefundsAddUp PaymentViewsFollow
  CheckoutAnswersOnce CartViewFollows
  OneReviewStands ReviewViewsFollow
  CatalogueViewsFollow AccountFollows ParcelViewsFollow ParcelComplete
PROPERTIES CapturedForGood ReturnIsRefunded
CHECK_DEADLOCK FALSE
