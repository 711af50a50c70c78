\* Two users, one of them an overlord, one board, locks that expire.
SPECIFICATION FairSpec
CONSTANTS
    s1 = s1
    s2 = s2
    k1 = k1
    k2 = k2
    t1 = t1
    t2 = t2
    u1 = u1
    u2 = u2
    Nil = Nil
    In = In
    Fail = Fail
    Shells = {s1, s2}
    Checkers = {}
    Procs = {s1, s2}
    Users = {u1, u2}
    UserOf <- TwoUsers
    Overlords = {u1}
    Droppable = {}
    Boards = {b1}
    MaxLockTime = 0
    PingTimeout = 0
    MaxTime = 1
    Horizon = 1
    Testers = {}
    Mortal = {}
    TestTTL = 1
    RunTTL = 9
    LastRun = 0
PROPERTIES LoserDisconnects
CHECK_DEADLOCK FALSE
