SPECIFICATION LiveSpec
CONSTANTS
  Protocols = {3}
  Settling = 3
  Quota = 4
  Page = 2
  MaxPages = 2
  Reports <- AllReports
  MaxSends = 1
  MaxMail = 0
  Faults <- AnswerLost
  MaxFaults = 1
  MayStop = FALSE
CHECK_DEADLOCK FALSE
PROPERTY LostAckIsRetried
