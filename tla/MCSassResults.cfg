SPECIFICATION Spec
CONSTANTS
  TextBytes = {97, 98}
  TextLengths = {2}
  SessionLengths = {1, 2}
  Disks <- MCDisks
  Arguments <- MCArguments
INVARIANTS
  OwnResultsSorted
CHECK_DEADLOCK FALSE
