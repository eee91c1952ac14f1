SPECIFICATION Spec
CONSTANTS
  Cases <- MCInverse
  Buffers = {x, y}
  Null = null
  Nowhere = nowhere
  Junk = junk
  MaxPlans = 2
  MaxExecuted = 0
INVARIANT InverseReturns
\* The program may crash or abort, and does nothing after that.
CHECK_DEADLOCK FALSE
