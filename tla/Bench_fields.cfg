SPECIFICATION Spec
CONSTANTS
  NFields = {2}
  MaxRepeat = 2
  Junk = junk
INVARIANTS
  FieldsFollowed
\* The benchmark ends after its iterations.
CHECK_DEADLOCK FALSE
