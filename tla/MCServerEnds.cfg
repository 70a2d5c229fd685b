\* Connections the forking server answered and does not end.
CONSTANTS
    c1 = c1
    Clients = {c1}
    NoClient = NoClient
    NoPath = NoPath
    Scripts <- MCScripts
    Files <- MCFiles
    Large <- MCLarge
    Modes = {"forking"}
    Limits = {20}
    MaxFaults = 0
SPECIFICATION Spec
CHECK_DEADLOCK FALSE
PROPERTY ConnectionsEnd
