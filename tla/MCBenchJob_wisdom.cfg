SPECIFICATION Spec
CONSTANTS
  Jobs = {1, 2}
  Scenes <- MCOverlap
  Hole = hole
INVARIANT
  WisdomAccumulates
\* The jobs end.
CHECK_DEADLOCK FALSE
