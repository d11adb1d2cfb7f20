SPECIFICATION Spec
CONSTANTS
  MaxLength = 2
  LongLength = 1
  BlockSizes = {1}
  CutOff = 1
  CacheSize = 2
  Jobs <- MCJobs
INVARIANTS
  AlwaysBigEndian
