\* One user, one board that comes or goes, runs of checkboards.py.
SPECIFICATION HotSpec
CONSTANTS
    s1 = s1
    s2 = s2
    k1 = k1
    k2 = k2
    u1 = u1
    u2 = u2
    Nil = Nil
    In = In
    Fail = Fail
    Shells = {s1}
    Checkers = {k1}
    Procs = {s1, k1}
    Users = {u1}
    UserOf <- OneUser
    Overlords = {}
    Droppable = {}
    Boards = {b1}
    MaxLockTime = 0
    PingTimeout = 0
    MaxTime = 0
    Horizon = 0
    Testers = {}
    Mortal = {}
    TestTTL = 1
    RunTTL = 9
    LastRun = 0
    MaxPlugs = 1
INVARIANTS HotTypeOK
PROPERTIES LoserDisconnects PluggedReclaimed DetachedLeft
CHECK_DEADLOCK FALSE
