SPECIFICATION Spec
CONSTANTS
  work1 = work1
  a0 = a0
  a1 = a1
  a2 = a2
  r1 = r1
  r2 = r2
  t0 = t0
  t1 = t1
  t2 = t2
  c0 = c0
  c1 = c1
  c2 = c2
  Accounts = {a0, a1, a2}
  First = a0
  Default = a0
  Recoveries = {r1, r2}
  Task = work1
  Terminals <- MCTerminals
  Contexts <- MCContexts
  Term0 = t0
  Ctx0 = c0
  Ceiling = 2
  BreakerLimit = 2
  MaxFaults = 2
  None = None
SYMMETRY Symmetry
CHECK_DEADLOCK FALSE
INVARIANT FailoverTypeOK
INVARIANT OneWriter
INVARIANT SuccessIsBound
INVARIANT StoppedIsDead
PROPERTY AuditMovesForward
