\* One user whose connection drops anywhere, one board, periodic runs of checkboards.py.
SPECIFICATION RecFairSpec
CONSTANTS
    s1 = s1
    k1 = k1
    u1 = u1
    Nil = Nil
    In = In
    Fail = Fail
    Shells = {s1}
    Checkers = {k1}
    Procs = {s1, k1}
    Users = {u1}
    UserOf <- OneUser
    Overlords = {}
    Droppable = {s1}
    Boards = {b1}
    MaxLockTime = 1
    PingTimeout = 0
    MaxTime = 3
    Horizon = 1
    Testers = {}
    Mortal = {}
    TestTTL = 1
    RunTTL = 9
    LastRun = 0
INVARIANTS CalmInv BoardSettled
PROPERTIES LoserDisconnects BoardReclaimed
CHECK_DEADLOCK FALSE
