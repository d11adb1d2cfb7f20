SPECIFICATION Spec
CONSTANTS
  Addresses = {a1, a2, a3, a4, a5, a6}
  Objects = {o1, o2, o3}
  NULL = NULL
SYMMETRY Symmetry
INVARIANTS
  BlocksHaveOneOwner
  DebugModeIsSafe
CHECK_DEADLOCK FALSE
