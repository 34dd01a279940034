CONSTANTS
  chk = chk
  idle = idle
  a = a
  b = b
  Event <- MCEvent
  mEfiCheckTimerEvent = chk
  gIdleLoopEvent = idle
  NoEvent = NoEvent
  NotifyTpls <- MCNotifyTpls
  Requests <- EventRequests
  UserEvents <- PolledEvent
  AppCalls = {"create","wait","timer","close","signal","group","raise"}
  NotifyCalls = {"check","close","timer"}
  Delays = {1}
  TickPeriod = 2
  MaxTime = 2
  TimeModulus = 100
  RaiseTpls = {16,31}
  SingleLoad = FALSE
  RespectClose = TRUE
SPECIFICATION Spec
INVARIANTS TypeOK CallerTplRestored NoReentrancy TimerLockExclusive TimerListSorted NoEarlyExpiry QueuesWellFormed SignalledIsQueued ClosedUnlinked
PROPERTY WaitConsumes
