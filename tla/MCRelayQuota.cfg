SPECIFICATION Spec
CONSTANTS
  Protocols = {3}
  Settling = 3
  Quota = 2
  Page = 2
  MaxPages = 2
  Reports <- AllReports
  MaxSends = 3
  MaxMail = 0
  Faults = {}
  MaxFaults = 1
  MayStop = FALSE
CHECK_DEADLOCK FALSE
INVARIANT AcceptedReportIsDeliverable
