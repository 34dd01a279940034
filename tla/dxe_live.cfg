CONSTANTS
  chk = chk
  idle = idle
  a = a
  b = b
  Event <- MCEvent
  mEfiCheckTimerEvent = chk
  gIdleLoopEvent = idle
  NoEvent = NoEvent
  NotifyTpls <- MCNotifyTpls
  Requests <- LiveRequests
  UserEvents <- WaitEvents
  AppCalls = {"create","wait","timer","signal"}
  NotifyCalls = {}
  Delays = {0,1}
  TickPeriod = 1
  MaxTime = 1
  TimeModulus = 100
  RaiseTpls = {16}
  SingleLoad = TRUE
  RespectClose = TRUE
SPECIFICATION FairSpec
PROPERTIES NotifyEventually TimerEventually WaitReturns
