SPECIFICATION Spec
CONSTANTS
  g = g
  q = q
  m = m
  s = s
  Gates = {g}
  Questions = {}
  Messages = {}
  SideEffects = {s}
  CreatedAt <- MCCreatedAt
  Limit = 5
  Answers = {yes}
  Hooks = {h1}
  None = None
  MaxFaults = 0
INVARIANT NoSilentResolving
