SPECIFICATION Spec
CONSTANTS
  Protocols = {2}
  Settling = 3
  Quota = 2
  Page = 2
  MaxPages = 2
  Reports <- GenuineReports
  MaxSends = 3
  MaxMail = 0
  Faults = {}
  MaxFaults = 1
  MayStop = TRUE
CHECK_DEADLOCK FALSE
INVARIANT RemoteReportPending
