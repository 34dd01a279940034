CONSTANTS
  N = 3
  CoreOf <- MCCoreOf
  Configs <- SyncPlatforms
  CounterMod = 8
  NoBsp = NoBsp
  MaxSmi = 2
  MaxCalls = 1
SPECIFICATION Spec
INVARIANTS TypeOK OneBsp RunIsClosed RunDrained NoNormalModeCode MtrrsSavedAndRestored HandlersUseSmmMtrrs
