SPECIFICATION Spec
CONSTANTS
  c1 = c1
  c2 = c2
  c3 = c3
  c4 = c4
  NoOne = NoOne
  Calls = {c1, c2}
  LastYear = 1
SYMMETRY CallSymmetry
INVARIANTS
  NobodyRefused
CHECK_DEADLOCK FALSE
