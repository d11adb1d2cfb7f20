SPECIFICATION Spec
CONSTANTS
  Keys = {"a", "b", ""}
  EmptyKey = ""
  Documents = 2
  CharBit = 8
  MaxHits = 2
  MaxTerms = 3
  LongLines = {8, 9, 10}
  Occurrences <- MCOccurrences
  Lines <- MCLines
INVARIANTS
  AnswerIsQuery
  FoundOnce
  NotKeysRefuse
PROPERTIES
  QueryAnswered
