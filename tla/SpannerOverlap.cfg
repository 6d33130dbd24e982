SPECIFICATION Spec
CONSTANTS
  Users = {u1}
  Products = {p, q}
  Calls = {c1, c2, c3, c4}
  Overlapping = {u1}
SYMMETRY Symmetry
PROPERTIES RefinesCarts
CHECK_DEADLOCK FALSE
