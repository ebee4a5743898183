SPECIFICATION Spec
CONSTANTS
  draft = draft
  build = build
  w1 = w1
  w2 = w2
  s1 = s1
  s2 = s2
  None = None
  Tasks <- MCTask
  Workers <- MCWorkers
  Deps <- MCIndependent
  Capable <- MCCapable
  PolicyGated = {}
  RiskGated = {}
  AutoReviewable = {}
  MaxAssignments = 2
  MaxAttempts = 2
  MaxActive = 1
  MaxConcurrent = 2
  MaxDispatches = 3
  Sessions <- MCSessions
  Crashable <- MCSessions
  BreakerLimit = 2
SYMMETRY MCSymmetry
CHECK_DEADLOCK FALSE
INVARIANT DelegationTypeOK
INVARIANT RecordsMatchEffects
INVARIANT StopWasProven
PROPERTY ImplementsLedger
