SPECIFICATION Spec
CONSTANTS
  Problems <- MCProblems
  Buffers = {x, y}
  Null = null
  Junk = junk
  MaxCalls = 4
  MaxRefused = 0
INVARIANTS
  TypeOK
  MemoryHoldsPencils
  RoundTrip
  NothingLost
  LongWhenOrderKept
  OneMessageAhead
  FieldIsShared
  AddressesTellElements
  QueriesAddUp
\* Programs end: after MaxCalls calls no rank has anything to do.
CHECK_DEADLOCK FALSE
