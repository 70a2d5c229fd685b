\* The line editor with a buffer of five characters: full lines, stale contents.
CONSTANTS
    a = a
    b = b
    Chars = {a, b}
    NEWLINE = NEWLINE
    NUL = NUL
    MaxBufferLine = 5
    History <- MCHistory
    Prompt <- MCPrompt
    MaxBelow = 2
SPECIFICATION Spec
INVARIANTS TypeOK LineOnScreen
