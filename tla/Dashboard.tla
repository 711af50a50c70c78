---- MODULE Dashboard ----
(***************************************************************************)
(* The web dashboard (web/app.py, redis_queries.py, logparser.py), which   *)
(* reads the relay's keys and the usage log while the relay's programs     *)
(* write them.                                                             *)
(*                                                                         *)
(* gunicorn runs one synchronous worker, so requests are answered one      *)
(* after another.  One step is one Redis command or one look at the file.  *)
(***************************************************************************)
EXTENDS UsageLog, FiniteSets

VARIABLES page,    \* the requests made: the two kinds share nothing, so that a behaviour
                   \* has those of one kind only (bound)
          wpc,     \* what the worker reads next, or does
          wboard,  \* the board it is at
          wtodo,   \* the boards it has still to go to
          seen,    \* what it has read of the board
          report,  \* the status it answers for each board, or Nil
          counts,  \* the boards behind the counts it answers
          cache,   \* _cache of logparser.py: the size of the log, how much was parsed
          stat,    \* the size of the log when it was looked at
          parsed,  \* how much of the log the answer tells of
          since,   \* history: how long the log was when the request came
          steady,  \* history: the boards nothing has happened to since then
          kept     \* history: the shells that have kept their session since then

boardsVars == <<wboard, wtodo, seen, report, counts, steady, kept>>
statsVars  == <<cache, stat, parsed, since>>
webVars    == <<page, wpc, boardsVars, statsVars>>
dashVars   == <<usageVars, webVars>>

\* The keys get_board_status reads of a board.
StatusKeys == {"hwStatus", "available", "sessUser", "sessStart",
               "lockUser", "lockTime", "unlocked"}
Unread == [k \in StatusKeys |-> Nil]
Statuses == {"available", "in_use_locked", "in_use_unlocked", "hwtest_failed"}
Status(st, u, t) == [status |-> st, user |-> u, start |-> t]
NoCounts == [available |-> {}, unlocked |-> {}, failed |-> {}]

WebTypeOK ==
    /\ page \in {"boards", "stats"}
    /\ wpc \in {"idle", "sumAvailable", "sumUnlocked", "failStatus", "failPool",
                "respond", "stat", "parse", "answer"} \cup StatusKeys
    /\ wboard \in Boards \cup {Nil}
    /\ wtodo \in SUBSET Boards
    /\ wpc \in StatusKeys \cup {"failStatus", "failPool"} => wboard # Nil
    /\ seen \in [StatusKeys -> Values]
    /\ \A k \in StatusKeys : seen[k] \in KeyType(k)
    /\ report \in [Boards -> {Nil} \cup
                             [status : Statuses, user : Users \cup {Nil}, start : Nat \cup {Nil}]]
    /\ counts \in [{"available", "unlocked", "failed"} -> SUBSET Boards]
    /\ cache \in [size : Nat, parsed : Nat \cup {Nil}]
    /\ stat \in Nat
    /\ parsed \in Nat \cup {Nil}
    /\ since \in Nat
    /\ steady \in SUBSET Boards
    /\ kept \in SUBSET Shells

DashTypeOK == UsageTypeOK /\ WebTypeOK

WebInit == /\ page \in {"boards", "stats"}
           /\ wpc = "idle"
           /\ wboard = Nil /\ wtodo = {}
           /\ seen = Unread
           /\ report = [b \in Boards |-> Nil]
           /\ counts = NoCounts
           /\ cache = [size |-> 0, parsed |-> Nil]
           /\ stat = 0 /\ parsed = Nil /\ since = 0
           /\ steady = {} /\ kept = {}

-----------------------------------------------------------------------------
WAt(l) == wpc = l /\ UNCHANGED <<page, usageVars, statsVars>>

\* The worker goes on to the next board at l, or at m when there is none.
NextOne(rest, l, m) ==
    /\ \/ rest = {} /\ wpc' = m /\ wboard' = Nil /\ wtodo' = {}
       \/ \E b \in rest : wpc' = l /\ wboard' = b /\ wtodo' = rest \ {b}
    /\ seen' = Unread

\* GET /api/boards: get_board_status goes through the boards of the class.
BoardsRequest == /\ WAt("idle")
                 /\ page = "boards"
                 /\ NextOne(Boards, "hwStatus", "respond")
                 /\ steady' = Boards
                 /\ kept' = {s \in calm : ~Starting(s)}
                 /\ UNCHANGED <<report, counts>>

\* GET or ZSCORE; what is read is kept.
Read(k, next) == /\ WAt(k)
                 /\ seen' = [seen EXCEPT ![k] = db[k][wboard]]
                 /\ wpc' = next
                 /\ UNCHANGED <<wboard, wtodo, report, counts, steady, kept>>

\* The board's status is known.
Report(st, u, t) == /\ report' = [report EXCEPT ![wboard] = Status(st, u, t)]
                    /\ NextOne(wtodo, "hwStatus", "sumAvailable")
                    /\ UNCHANGED <<counts, steady, kept>>

ReadAvailable ==
    \/ /\ Read("available", "sessUser")
       /\ db["available"][wboard] = Nil
    \/ /\ WAt("available")
       /\ db["available"][wboard] = In
       /\ Report("available", Nil, Nil)

\* A session needs a user and a start; a board without one is told to be
\* available unless it failed its hardware test.
Session == seen["sessUser"] # Nil /\ db["sessStart"][wboard] # Nil

\* A slip: what became of the hardware test is not looked at.
ReadSessStartOnly ==
    \/ Read("sessStart", "lockUser") /\ Session
    \/ WAt("sessStart") /\ ~Session /\ Report("available", Nil, Nil)

ReadSessStart ==
    \/ Read("sessStart", "lockUser") /\ Session
    \/ /\ WAt("sessStart")
       /\ ~Session
       /\ Report(IF seen["hwStatus"] = Fail THEN "hwtest_failed" ELSE "available",
                 Nil, Nil)

\* A board in session is unlocked if it has no lock and is in the unlocked pool.
Unlocked == /\ seen["lockUser"] = Nil \/ seen["lockTime"] = Nil
            /\ db["unlocked"][wboard] = In

ReadUnlocked == /\ WAt("unlocked")
                /\ Report(IF Unlocked THEN "in_use_unlocked" ELSE "in_use_locked",
                          seen["sessUser"], seen["sessStart"])

ReadStatus == \/ Read("hwStatus", "available")
              \/ ReadAvailable
              \/ Read("sessUser", "sessStart")
              \/ ReadSessStart
              \/ Read("lockUser", "lockTime")
              \/ Read("lockTime", "unlocked")
              \/ ReadUnlocked

Pool(k) == {b \in Boards : db[k][b] = In}

\* get_summary: two ZCARDs, then the boards that failed and are in no pool.
SumAvailable == /\ WAt("sumAvailable")
                /\ counts' = [counts EXCEPT !.available = Pool("available")]
                /\ wpc' = "sumUnlocked"
                /\ UNCHANGED <<wboard, wtodo, seen, report, steady, kept>>

SumUnlocked == /\ WAt("sumUnlocked")
               /\ counts' = [counts EXCEPT !.unlocked = Pool("unlocked")]
               /\ NextOne(Boards, "failStatus", "respond")
               /\ UNCHANGED <<report, steady, kept>>

SumFailed == /\ WAt("failStatus")
             /\ \/ /\ db["hwStatus"][wboard] = Fail
                   /\ wpc' = "failPool"
                   /\ UNCHANGED <<wboard, wtodo, seen>>
                \/ /\ db["hwStatus"][wboard] # Fail
                   /\ NextOne(wtodo, "failStatus", "respond")
             /\ UNCHANGED <<report, counts, steady, kept>>

SumWithdrawn ==
    /\ WAt("failPool")
    /\ counts' = [counts EXCEPT !.failed =
                      IF db["available"][wboard] = Nil THEN @ \cup {wboard} ELSE @]
    /\ NextOne(wtodo, "failStatus", "respond")
    /\ UNCHANGED <<report, steady, kept>>

\* The answer is sent.
BoardsRespond == /\ WAt("respond")
                 /\ wpc' = "idle"
                 /\ report' = [b \in Boards |-> Nil]
                 /\ counts' = NoCounts
                 /\ steady' = {} /\ kept' = {}
                 /\ UNCHANGED <<wboard, wtodo, seen>>

\* What get_summary makes of the counts.
InUse         == Cardinality(Boards) - Cardinality(counts.available)
InUseUnlocked == IF Cardinality(counts.unlocked) < InUse THEN Cardinality(counts.unlocked)
                 ELSE InUse
InUseLocked   == InUse - InUseUnlocked

-----------------------------------------------------------------------------
\* GET /api/stats/...: parse_log.
SAt(l) == wpc = l /\ UNCHANGED <<page, usageVars, boardsVars>>

StatsRequest == /\ SAt("idle")
                /\ page = "stats"
                /\ since' = Len(log)
                /\ wpc' = "stat"
                /\ UNCHANGED <<cache, stat, parsed>>

\* A slip: what was parsed once is always answered.
FreshAlways(n) == cache.parsed # Nil

\* The cached statistics are of a log of size n.
Fresh(n) == cache.parsed # Nil /\ cache.size = n

\* The log is looked at, and parsed again when it has grown.
Stat == /\ SAt("stat")
        /\ IF Fresh(Len(log))
           THEN parsed' = cache.parsed /\ wpc' = "answer" /\ UNCHANGED stat
           ELSE stat' = Len(log) /\ wpc' = "parse" /\ UNCHANGED parsed
        /\ UNCHANGED <<cache, since>>

\* _do_parse reads to the end of the file, which may have grown meanwhile.
ParseLog == /\ SAt("parse")
            /\ cache' = [size |-> stat, parsed |-> Len(log)]
            /\ parsed' = Len(log)
            /\ wpc' = "answer"
            /\ UNCHANGED <<stat, since>>

StatsAnswer == /\ SAt("answer")
               /\ wpc' = "idle"
               /\ stat' = 0 /\ parsed' = Nil /\ since' = 0
               /\ UNCHANGED cache

WebStep == \/ BoardsRequest \/ ReadStatus
           \/ SumAvailable \/ SumUnlocked \/ SumFailed \/ SumWithdrawn
           \/ BoardsRespond
           \/ StatsRequest \/ Stat \/ ParseLog \/ StatsAnswer

\* What the dashboard is told of a board is the same as before.
Same(b) == \A k \in StatusKeys : db'[k][b] = db[k][b]

\* A step of the relay, and what it spoils.  Where nobody asks for statistics the
\* log is left out.
RelayStep == /\ \/ page = "boards" /\ Next /\ UNCHANGED logVars
                \/ page = "stats" /\ UsageNext
             /\ steady' = {b \in steady : Same(b)}
             /\ kept' = kept \cap calm'
             /\ UNCHANGED <<page, wpc, wboard, wtodo, seen, report, counts, statsVars>>

DashInit == UsageInit /\ WebInit
DashNext == RelayStep \/ WebStep
DashSpec == DashInit /\ [][DashNext]_dashVars

-----------------------------------------------------------------------------
\* A user who has an undisturbed session while the dashboard asks is shown with
\* it, whatever the relay's programs do (redis_queries.py:67-92).
UsersShown ==
    wpc = "respond" =>
        \A s \in kept :
            report[board[s]] = Status("in_use_locked", UserOf[s], start[s])

\* A board nothing has happened to while the dashboard asks is shown as what it
\* is: free, or out of use because it failed its hardware test; and the card for
\* the latter counts those (redis_queries.py:59-65, 94-98, 124-129).
BoardsShown ==
    wpc = "respond" =>
        /\ \A b \in steady :
              /\ Pooled(b) => report[b].status = "available"
              /\ db["hwStatus"][b] = Fail /\ Vacant(b) => report[b].status = "hwtest_failed"
        /\ steady = Boards =>
              counts.failed = {b \in Boards : db["hwStatus"][b] = Fail
                                              /\ db["available"][b] = Nil}

\* The statistics are of the log as it was when they were asked for, or later:
\* the cache never hides a line (logparser.py:51-52).
StatsCurrent == wpc = "answer" => parsed >= since

\* The card "In Use (Locked)" counts at least the boards that the table of the same
\* answer shows as "in_use_locked" and whose users were undisturbed meanwhile, when
\* nothing happened to any board (redis_queries.py:85-92, 111-121; dashboard.js:40, 129).
LockedCounted ==
    wpc = "respond" /\ steady = Boards =>
        Cardinality({b \in Boards : /\ report[b].status = "in_use_locked"
                                    /\ \E s \in kept : board[s] = b})
            =< InUseLocked
====
