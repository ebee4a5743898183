SPECIFICATION RuntimeSpec
CONSTANTS
  draft = draft
  build = build
  ship = ship
  w1 = w1
  w2 = w2
  c1 = c1
  c2 = c2
  c3 = c3
  None = None
  Tasks <- MCTasks
  Workers <- MCWorkers
  Contexts <- MCContexts
  Deps <- MCDeps
  BreakerLimit = 2
SYMMETRY MCSymmetry
CHECK_DEADLOCK FALSE
PROPERTY ExitedTaskIsPending
