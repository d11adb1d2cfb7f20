SPECIFICATION Spec
CONSTANTS
  Classes = {"nl", "sp", "#", "<", "k", "nul"}
  MaxLength = 4
  Texts <- MCTexts
  Options <- MCOptions
INVARIANTS
  PointsInOrder
  PointsAreThoseAskedFor
PROPERTIES
  WriteIndexReturns
