\* A host, an SSH check of the relay, and a relay that is restarted once.
SPECIFICATION OutSpec
CONSTANTS
    h1 = h1
    h2 = h2
    p1 = p1
    p2 = p2
    r1 = r1
    r2 = r2
    Nil = Nil
    In = In
    Hosts = {h1}
    Ports = {p1}
    Restarts = {}
    MaxMoves = 2
    MaxJobs = 1
    MaxPresses = 1
    Reloadable = {h1}
    MaxOutages = 1
INVARIANTS OutTypeOK GoneAfterOutage TrueAfterOutage
PROPERTIES StaysRegistered CheckRemoves
CHECK_DEADLOCK FALSE
