CONSTANTS
  b1 = b1
  wb = wb
  Block <- MCBlock
  WorkBlk = wb
  Version = {0,1}
  Blank = Blank
  Mixed = Mixed
  Lost = Lost
  Configs <- SafePlatforms
SPECIFICATION FairSpec
INVARIANTS TypeOK ReclaimKeepsPending InitRestartSucceeds WriteNeverRefused
PROPERTIES WritesAreAtomic RecoveryEnds
