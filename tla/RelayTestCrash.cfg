\* Hardware tests that are killed anywhere, one board, periodic runs of checkboards.py.
SPECIFICATION FairSpec
CONSTANTS
    s1 = s1
    s2 = s2
    k1 = k1
    k2 = k2
    t1 = t1
    t2 = t2
    u1 = u1
    u2 = u2
    Nil = Nil
    In = In
    Fail = Fail
    Shells = {}
    Checkers = {k1}
    Procs = {k1, t1, t2}
    Users = {u1}
    UserOf <- OneUser
    Overlords = {}
    Droppable = {}
    Boards = {b1}
    MaxLockTime = 1
    PingTimeout = 0
    MaxTime = 2
    Horizon = 0
    Testers = {t1, t2}
    Mortal = {t1}
    TestTTL = 1
    RunTTL = 1
    LastRun = 1
INVARIANTS TestKept
PROPERTIES BoardReclaimed
