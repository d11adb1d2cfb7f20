SPECIFICATION SystemSpec
CONSTANTS
  TextSize = 3
  MaxTags = 3
  EndTagLength = 1
  Taggings <- MCTaggings
  Garbage <- MCGarbage
  DidFiles <- MCDidFiles
  Targets <- MCTargets
  CurGarbage <- MCCurGarbage
INVARIANTS
  WindowKeepsDocument
  AnswerCorrect
  FailNumberIsNext
  FileInOrder
  FileHoldsDocuments
  FoundInText
PROPERTIES
  FailLeavesFile
  CallsReturn
