SPECIFICATION Spec
CONSTANTS
  Users = {u1, u2}
  Products = {p, q}
  Calls = {c1, c2, c3, c4}
  Overlapping = {u1}
SYMMETRY Symmetry
INVARIANTS CountedOnce OnlyRacesLose
PROPERTIES RefinesCarts
CHECK_DEADLOCK FALSE
