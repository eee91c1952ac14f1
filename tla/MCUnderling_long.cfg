SPECIFICATION Spec
CONSTANTS
  Problems <- MCLong
  Buffers = {x, y}
  Null = null
  Junk = junk
  MaxCalls = 2
  MaxRefused = 0
INVARIANT DataIsLong
\* Programs end: after MaxCalls calls no rank has anything to do.
CHECK_DEADLOCK FALSE
