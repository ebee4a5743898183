SPECIFICATION Spec
CONSTANTS
  draft = draft
  build = build
  ship = ship
  w1 = w1
  w2 = w2
  None = None
  Tasks <- MCTasks
  Workers <- MCWorkers
  Deps <- MCDeps
  Capable <- MCCapable
  PolicyGated <- MCPolicyGated
  RiskGated <- MCRiskGated
  AutoReviewable <- MCAutoReviewable
  MaxAssignments = 4
  MaxAttempts = 2
  MaxActive = 1
  MaxConcurrent = 2
  MaxDispatches = 4
SYMMETRY MCWorkerSymmetry
CHECK_DEADLOCK FALSE
PROPERTIES
  OnlyReviewAccepts
