SPECIFICATION LiveSpec
CONSTANTS
  Protocols = {3}
  Settling = 3
  Quota = 4
  Page = 2
  MaxPages = 2
  Reports <- AllReports
  MaxSends = 2
  MaxMail = 0
  Faults <- LossAndReset
  MaxFaults = 2
  MayStop = FALSE
CHECK_DEADLOCK FALSE
PROPERTY RelaySurvivesReset
