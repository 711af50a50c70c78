\* A board that is plugged in and pulled out, and a restart of its container.
SPECIFICATION Spec
CONSTANTS
    h1 = h1
    h2 = h2
    p1 = p1
    p2 = p2
    r1 = r1
    r2 = r2
    Nil = Nil
    In = In
    Hosts = {h1}
    Ports = {p1, p2}
    Restarts = {r1}
    MaxMoves = 3
    MaxJobs = 1
    MaxPresses = 0
    Reloadable = {}
INVARIANTS TypeOK GoneWhenQuiet TrueWhenQuiet
PROPERTIES ContainerKept StaysRegistered
CHECK_DEADLOCK FALSE
