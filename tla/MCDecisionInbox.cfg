SPECIFICATION Spec
CONSTANTS
  g = g
  q = q
  m = m
  s = s
  Gates = {g}
  Questions = {q}
  Messages = {}
  SideEffects = {s}
  CreatedAt <- MCCreatedAt
  Limit = 2
  Answers = {yes, no}
  Hooks = {h1, h2}
  None = None
  MaxFaults = 1
SYMMETRY Symmetry
INVARIANT DecisionInboxTypeOK
INVARIANT OneAnswer
INVARIANT ResolvedWasAnswered
PROPERTY DecisionsMoveForward
