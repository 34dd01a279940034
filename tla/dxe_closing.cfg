CONSTANTS
  chk = chk
  idle = idle
  a = a
  b = b
  Event <- MCEvent
  mEfiCheckTimerEvent = chk
  gIdleLoopEvent = idle
  NoEvent = NoEvent
  NotifyTpls <- MCNotifyTpls
  Requests <- EventRequests
  UserEvents <- PolledEvent
  AppCalls = {"create","timer","signal"}
  NotifyCalls = {"close"}
  Delays = {0,1}
  TickPeriod = 2
  MaxTime = 2
  TimeModulus = 100
  RaiseTpls = {16}
  SingleLoad = TRUE
  RespectClose = TRUE
SPECIFICATION Spec
INVARIANT NotifyAtOwnTpl
