SPECIFICATION Spec
CONSTANTS
  Requests <- MCThin
INVARIANT
  GridAsDocumented
\* Programs end: after its last call a rank has nothing to do.
CHECK_DEADLOCK FALSE
