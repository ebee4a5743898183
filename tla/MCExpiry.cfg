SPECIFICATION Spec
CONSTANTS
  c1 = c1
  c2 = c2
  c3 = c3
  c4 = c4
  c5 = c5
  c6 = c6
  i1 = i1
  i2 = i2
  Calls = {c1, c3}
  Paired = {c1}
  Inputs = {i1}
  InputOf <- MCInputOf
  Limit = 3
  TTL = 1
  MaxTime = 1
  None = None
SYMMETRY Symmetry
PROPERTY ExpiryBlocks
