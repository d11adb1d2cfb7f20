SPECIFICATION Spec
CONSTANTS
  MaxLength = 4
  LongLength = 6
  BlockSizes <- MCBlockSizes
  CutOff = 2
  CacheSize = 2
  Jobs <- MCJobs
INVARIANTS
  MultikeyInOrder
  HeapWellFormed
  MergeInOrder
  SortedAtEnd
  SortedUpToNul
PROPERTIES
  SortReturns
