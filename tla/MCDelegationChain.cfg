SPECIFICATION Spec
CONSTANTS
  draft = draft
  build = build
  w1 = w1
  w2 = w2
  s1 = s1
  s2 = s2
  None = None
  Tasks <- MCTasks
  Workers <- MCWorkers
  Deps <- MCChain
  Capable <- MCCapable
  PolicyGated = {build}
  RiskGated = {}
  AutoReviewable = {draft}
  MaxAssignments = 2
  MaxAttempts = 1
  MaxActive = 1
  MaxConcurrent = 2
  MaxDispatches = 6
  Sessions <- MCSessions
  Crashable <- MCSessions
  BreakerLimit = 2
SYMMETRY MCSymmetry
CHECK_DEADLOCK FALSE
PROPERTIES
  ImplementsLedger
