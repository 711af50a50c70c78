\* One user, two boards: the cards of the dashboard and its table.
SPECIFICATION DashSpec
CONSTANTS
    s1 = s1
    s2 = s2
    k1 = k1
    k2 = k2
    t1 = t1
    t2 = t2
    u1 = u1
    u2 = u2
    Nil = Nil
    In = In
    Fail = Fail
    UserOf <- OneUser
    Shells = {s1}
    Checkers = {}
    Procs = {s1}
    Users = {u1}
    Overlords = {}
    Droppable = {}
    Boards = {b1, b2}
    MaxLockTime = 0
    PingTimeout = 0
    MaxTime = 0
    Horizon = 0
    Testers = {}
    Mortal = {}
    TestTTL = 1
    RunTTL = 9
    LastRun = 0
    MaxLog = 1
INVARIANTS LockedCounted
CHECK_DEADLOCK FALSE
