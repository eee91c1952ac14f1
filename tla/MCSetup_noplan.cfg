SPECIFICATION Spec
CONSTANTS
  Requests <- MCNoPlan
PROPERTY
  EveryCallReturns
\* Programs end: after its last call a rank has nothing to do.
CHECK_DEADLOCK FALSE
