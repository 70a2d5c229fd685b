SPECIFICATION Spec
CONSTANTS
  oxy_num = 4
  nit_num = 2
INVARIANTS
  O2AccountedFor
CHECK_DEADLOCK FALSE
