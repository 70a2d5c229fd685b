\* Two commands with any three words, over three small directories.
CONSTANTS
    Dirs <- MCDirs
    Hidden = {1}
    Stale <- MCStale
    Environment <- MCEnvironment
    Words <- MCWords
    Lines <- MCLines
    InitialEntries = 1
    InitialArguments = 2
SPECIFICATION Spec
CHECK_DEADLOCK FALSE
INVARIANTS TypeOK WordsExpanded ArraysFit
