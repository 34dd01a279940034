CONSTANTS
  N = 2
  CoreOf <- MCCoreOf
  Configs <- RelaxedPlatforms
  CounterMod = 8
  NoBsp = NoBsp
  MaxSmi = 2
  MaxCalls = 0
SPECIFICATION Spec
INVARIANTS HeldInSmm
