SPECIFICATION FairSpec
CONSTANTS
  p1 = p1
  p2 = p2
  ad1 = ad1
  ad2 = ad2
  ad3 = ad3
  NONE = NONE
  Callers = {user, others}
  Watched = {user}
  Shopper = user
  Listing <- TwoListed
  Files <- OneGone
  PRODUCTS = {p1}
  AdsMap <- OneAdvertised
  Categories <- TwoCategories
  LateWith = {"file"}
INVARIANTS TypeOK OrdersHoldWhatWasPut CartIsWhatWasAsked
PROPERTIES PagesHaveFittingAds UndisturbedIsRight OnlyDisturbedCrash TasksEnd
CHECK_DEADLOCK FALSE
