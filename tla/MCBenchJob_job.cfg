SPECIFICATION Spec
CONSTANTS
  Jobs = {1, 2}
  Scenes <- MCScenes
  Hole = hole
INVARIANTS
  TypeOK
  DumpsInTurn
  OneComplaint
  SameWisdomEverywhere
  KeptWhenAlone
  UniformVerdict
PROPERTY
  EveryRankExits
\* The jobs end.
CHECK_DEADLOCK FALSE
