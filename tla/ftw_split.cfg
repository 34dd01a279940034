CONSTANTS
  b1 = b1
  wb = wb
  Block <- MCBlock
  WorkBlk = wb
  Version = {0,1}
  Blank = Blank
  Mixed = Mixed
  Lost = Lost
  Configs <- SplitPlatforms
SPECIFICATION Spec
INVARIANTS ContentsAvailable
