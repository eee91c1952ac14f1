SPECIFICATION Spec
CONSTANTS
  Cases <- MCCases
  Buffers = {x, y}
  Null = null
  Nowhere = nowhere
  Junk = junk
  MaxPlans = 2
  MaxExecuted = 2
INVARIANTS
  TypeOK
  DataWhereSound
  PlansStayInMemory
  BenchChecksData
PROPERTY
  ProperCreationReturns
\* The program may crash or abort, and does nothing after that.
CHECK_DEADLOCK FALSE
