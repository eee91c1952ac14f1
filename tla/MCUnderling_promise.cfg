SPECIFICATION Spec
CONSTANTS
  Problems <- MCMixed
  Buffers = {x, y}
  Null = null
  Junk = junk
  MaxCalls = 3
  MaxRefused = 1
PROPERTIES
  KeepsPromise
  EveryCallReturns
\* Programs end: after MaxCalls calls no rank has anything to do.
CHECK_DEADLOCK FALSE
