\* One overlord killed anywhere, one board, the usage log and the dashboard.
SPECIFICATION DashSpec
CONSTANTS
    s1 = s1
    s2 = s2
    k1 = k1
    k2 = k2
    t1 = t1
    t2 = t2
    u1 = u1
    u2 = u2
    Nil = Nil
    In = In
    Fail = Fail
    UserOf <- OneUser
    Shells = {s1}
    Checkers = {}
    Procs = {s1}
    Users = {u1}
    Overlords = {u1}
    Droppable = {s1}
    Boards = {b1}
    MaxLockTime = 0
    PingTimeout = 0
    MaxTime = 2
    Horizon = 1
    Testers = {}
    Mortal = {}
    TestTTL = 1
    RunTTL = 9
    LastRun = 0
    MaxLog = 3
INVARIANTS DashTypeOK UsersShown BoardsShown StatsCurrent SessionsReported
CHECK_DEADLOCK FALSE
