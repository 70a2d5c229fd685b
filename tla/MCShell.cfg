SPECIFICATION Spec
CONSTANTS
  NONE = NONE
  Lines <- TypedLines
  Unopenable = {"missing"}
  MaxLines = 2
  MaxInterrupts = 1
  MaxProcesses = 7
INVARIANTS
  TypeOK
  LineExecuted
  DefaultsRestored
  PipelineJoined
  WriteEndsClosed
PROPERTIES
  TableKept
  ZombiesReaped
  PromptReturns
