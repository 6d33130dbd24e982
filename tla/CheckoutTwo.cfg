SPECIFICATION FairSpec
CONSTANTS
  Users = {u1}
  Units = {a, b}
  Orders = {o1, o2}
INVARIANTS ShippedIsCharged ReplyTells OnlyLateUnitsGetLost ChargedTwiceOnlyUnemptied
PROPERTIES CancelledEnds
CHECK_DEADLOCK FALSE
