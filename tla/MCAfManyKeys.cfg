SPECIFICATION Spec
CONSTANTS
  Keys = {"a", "b", ""}
  EmptyKey = ""
  Documents = 2
  CharBit = 8
  MaxHits = 1
  MaxTerms = 1
  LongLines = {8, 9}
  Occurrences <- MCOccurrences
  Lines <- MCLines
INVARIANTS
  AndOfAllKeys
