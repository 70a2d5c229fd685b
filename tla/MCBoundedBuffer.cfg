SPECIFICATION Spec
CONSTANTS
  p1 = p1
  p2 = p2
  c1 = c1
  c2 = c2
  NONE = NONE
  Producers = {p1, p2}
  Consumers = {c1, c2}
  BUF_SIZE = 2
  prod_str <- Hello
INVARIANTS
  TypeOK
  SlotsAccountedFor
PROPERTIES
  ImplementsQueue
  AllExit
