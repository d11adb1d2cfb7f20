SPECIFICATION Spec
CONSTANTS
  TextBytes = {10, 97, 98}
  TextLengths = {1, 2, 3, 4}
  SessionLengths = {2}
  Disks <- MCDisks
  Arguments <- MCArguments
INVARIANTS
  EveryMatchPrinted
  RegionsHoldTheirLines
  RegionsRunFromTagToTag
  EmphasisShowsTheRegion
  OnlyCountedListsLeft
CHECK_DEADLOCK FALSE
