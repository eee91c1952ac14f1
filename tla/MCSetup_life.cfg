SPECIFICATION Spec
CONSTANTS
  Requests <- MCRequests
INVARIANTS
  TypeOK
  OnLiveCommunicator
  CollectivesMatch
  PointersAreWhole
  NothingElseLeaks
  GridAligned
PROPERTY
  EveryCallReturns
\* Programs end: after its last call a rank has nothing to do.
CHECK_DEADLOCK FALSE
