CONSTANTS
  N = 2
  CoreOf <- MCCoreOf
  Configs <- PairPlatforms
  CounterMod = 8
  NoBsp = NoBsp
  MaxSmi = 2
  MaxCalls = 2
SPECIFICATION FairSpec
INVARIANTS ProceduresComplete
PROPERTIES EveryCpuLeavesUnlessDeserted SmiServed
