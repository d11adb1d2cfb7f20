SPECIFICATION Spec
CONSTANTS
  TextBytes = {0, 1}
  TextLengths = {1, 2, 3}
  LongTextLengths = {4}
  Indexes <- MCIndexes
  Keys <- MCKeys
  Skips = {0, 1}
  KeywordMaxLength = 4
  SaIndexMax = 5
INVARIANTS
  IInv
  WindowKeepsAnswers
  SkippedBytesAgree
  ReadsStopAtEndOfText
  ResultCorrect
PROPERTIES
  EntryAssertions
  FindReturns
  ImplementsFindSpec
