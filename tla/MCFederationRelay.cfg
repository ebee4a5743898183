SPECIFICATION Spec
CONSTANTS
  Protocols = {2, 3}
  Settling = 3
  Quota = 2
  Page = 2
  MaxPages = 2
  Reports <- AllReports
  MaxSends = 3
  MaxMail = 1
  Faults <- AllFaults
  MaxFaults = 1
  MayStop = TRUE
CHECK_DEADLOCK FALSE
INVARIANT NothingIsForgotten
INVARIANT VerdictsAgree
PROPERTY DecisionIsFinal
