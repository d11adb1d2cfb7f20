SPECIFICATION Spec
CONSTANTS
  TextLengths = {1, 2}
  LongTextLengths = {3}
  ItemCounts = {1, 2}
  Indexes <- MCIndexes
  Requests <- MCRequests
INVARIANTS
  PendingCallsAreSound
  ResultsAreMatches
  IgnoreCaseExact
PROPERTIES
  CallsShortenTheKey
CHECK_DEADLOCK FALSE
