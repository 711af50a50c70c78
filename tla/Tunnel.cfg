\* Three clients, two of them on one machine, and three ports.
SPECIFICATION Spec
CONSTANTS
    c1 = c1
    c2 = c2
    c3 = c3
    Nil = Nil
    Clients = {c1, c2, c3}
    Local <- OneShared
    First = 3
    Last = 5
    Unprivileged = 2
    MaxAsks = 9
INVARIANTS TypeOK OwnBoard
PROPERTIES PortInRange
CHECK_DEADLOCK FALSE
