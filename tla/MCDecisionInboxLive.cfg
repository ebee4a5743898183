SPECIFICATION LiveSpec
CONSTANTS
  g = g
  q = q
  m = m
  s = s
  Gates = {g}
  Questions = {}
  Messages = {}
  SideEffects = {s}
  CreatedAt <- MCCreatedAt
  Limit = 5
  Answers = {yes, no}
  Hooks = {h1, h2}
  None = None
  MaxFaults = 1
PROPERTY GateAnswerIsNoticed
