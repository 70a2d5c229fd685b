\* The web server with two clients, one of them sending any of eight requests.
CONSTANTS
    c1 = c1
    Clients = {c1, c2}
    NoClient = NoClient
    NoPath = NoPath
    Scripts <- MCScripts
    Files <- MCFiles
    Large <- MCLarge
    Modes = {"linear", "forking", "threads"}
    Limits = {1, 20}
    MaxFaults = 1
SPECIFICATION Spec
CHECK_DEADLOCK FALSE
INVARIANTS TypeOK RightAnswers NothingLeaks StaysUp
PROPERTY ClientsServed
