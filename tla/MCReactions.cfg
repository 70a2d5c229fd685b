SPECIFICATION Spec
CONSTANTS
  oxy_num = 5
  nit_num = 4
INVARIANTS
  TypeOK
  AtomsAccountedFor
  OneFalseReaction
PROPERTIES
  PairsCombine
CHECK_DEADLOCK FALSE
