SPECIFICATION Spec
CONSTANTS
  Users = {u1}
  Products = {p, q}
  Calls = {c1, c2, c3, c4}
  Overlapping = {}
SYMMETRY Symmetry
INVARIANT AddItemUpdates
CHECK_DEADLOCK FALSE
