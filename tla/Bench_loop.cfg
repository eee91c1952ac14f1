SPECIFICATION Spec
CONSTANTS
  NFields = {1, 2, 3}
  MaxRepeat = 2
  Junk = junk
INVARIANTS
  TypeOK
  StaysInBuffers
  OneFieldFollowed
  BackWhereFilled
\* The benchmark ends after its iterations.
CHECK_DEADLOCK FALSE
