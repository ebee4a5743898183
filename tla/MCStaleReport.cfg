SPECIFICATION Spec
CONSTANTS
  draft = draft
  build = build
  w1 = w1
  w2 = w2
  s1 = s1
  s2 = s2
  None = None
  Tasks <- MCTasks
  Workers <- MCWorkers
  Deps <- MCIndependent
  Capable <- MCCapable
  PolicyGated = {}
  RiskGated = {}
  AutoReviewable = {}
  MaxAssignments = 2
  MaxAttempts = 2
  MaxActive = 1
  MaxConcurrent = 2
  MaxDispatches = 6
  Sessions <- MCSession
  Crashable <- MCNoSession
  BreakerLimit = 3
SYMMETRY MCWorkerSymmetry
CHECK_DEADLOCK FALSE
INVARIANTS
  ReportOfItsAttempt
