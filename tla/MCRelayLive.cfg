SPECIFICATION LiveSpec
CONSTANTS
  Protocols = {3}
  Settling = 3
  Quota = 4
  Page = 2
  MaxPages = 2
  Reports <- AllReports
  MaxSends = 3
  MaxMail = 0
  Faults <- Recoverable
  MaxFaults = 1
  MayStop = TRUE
CHECK_DEADLOCK FALSE
INVARIANT ArrivesInOrder
PROPERTY ReportIsDecided
PROPERTY VerdictReachesWorker
PROPERTY ImplementsChannel
