SPECIFICATION ShellSpec
CONSTANTS
  NONE = NONE
  Lines <- TypedLines
  Unopenable = {"missing"}
  MaxLines = 2
  MaxInterrupts = 0
  MaxProcesses = 7
PROPERTIES
  PromptDespiteBackground
