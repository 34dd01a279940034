CONSTANTS
  N = 2
  CoreOf <- MCCoreOf
  Configs <- LateBspPlatforms
  CounterMod = 8
  NoBsp = NoBsp
  MaxSmi = 1
  MaxCalls = 0
SPECIFICATION FairSpec
PROPERTIES EveryCpuLeaves
