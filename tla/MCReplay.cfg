SPECIFICATION Spec
CONSTANTS
  c1 = c1
  c2 = c2
  c3 = c3
  c4 = c4
  c5 = c5
  c6 = c6
  i1 = i1
  i2 = i2
  Calls = {c1, c2, c3, c4, c5, c6}
  Paired = {}
  Inputs = {i1, i2}
  InputOf <- MCInputOf
  Limit = 2
  TTL = 1
  MaxTime = 0
  None = None
SYMMETRY Symmetry
INVARIANT ReplayCreatesRequest
