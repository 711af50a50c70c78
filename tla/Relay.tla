---- MODULE Relay ----
(***************************************************************************)
(* The relay: users' shells, runs of checkboards.py and of testboards.py   *)
(* on the shared Redis keys, with the clock.                               *)
(***************************************************************************)
EXTENDS Shell, CheckBoards, TestBoards

CONSTANT MaxTime   \* bound on the clock

ASSUME RelayAssumption == /\ Procs = Shells \cup Checkers \cup Testers
                          /\ Shells \cap Checkers = {}
                          /\ Shells \cap Testers = {}
                          /\ Checkers \cap Testers = {}
                          /\ Nil \notin Boards
                          /\ MaxTime \in Nat

VARIABLES calm,   \* history: the shells whose allocation nothing has disturbed
          sound   \* history: the test runs whose test nothing has disturbed

vars == <<storeVars, shellVars, checkVars, testVars, calm, sound>>

-----------------------------------------------------------------------------
\* When may a user rely on the board?  What the code cannot promise is
\* protection against a process that already decides about the board when the
\* shell takes it.  The history variable calm holds the shells that were not
\* caught in such a race, for as long as their claim to the board lasts.

\* p still has to write keys of board b.
WritesTo(p, b) == \E i \in DOMAIN script[p] : script[p][i].board = b

\* Checker k has found a key of board b missing and may be about to free it.
Condemns(k, b) == cboard[k] = b /\ cmissing[k]

\* Test run t has found board b idle and is about to withdraw it, or has.
Tests(t, b) == tboard[t] = b /\ tpc[t] \in Testing

\* Some process other than s is about to change the keys of board b.
Disturbed(s, b) == \/ \E p \in Procs \ {s} : WritesTo(p, b)
                   \/ \E k \in Checkers : Condemns(k, b)
                   \/ \E t \in Testers : Tests(t, b)

\* s is in the middle of start_session.
Starting(s) == pc[s] = "restart" /\ ~Ready(s)

\* Another shell of the same user is at the board of s: it has reused the
\* session, or has not finished with an earlier one.
Shared(s) == \E t \in Shells \ {s} : board[t] = board[s] /\ UserOf[t] = UserOf[s]

\* The claim of s lasts: it is within its lock time and has been pinging.
Current(s) ==
    /\ pc[s] \in Serving
    /\ now - start[s] =< MaxLockTime
    /\ Starting(s) \/ ~TooOld("sessPing", board[s], PingTimeout)
    /\ ~Shared(s)
    /\ Starting(s) => ~Disturbed(s, board[s])

Took(s) == board[s] = Nil /\ board'[s] # Nil

\* In the same way sound holds the runs that test a board which nobody else was
\* at when hwtest:testing was set, for as long as the flag lasts and no other
\* run comes to the board.

\* Nothing is left of a session or a lock, and no pool has the board.
Vacant(b) == \A k \in PoolKeys \cup UserKeys : db[k][b] = Nil

\* Nobody but t is about to change the keys of board b.
Alone(t, b) == /\ \A p \in Procs \ {t} : ~WritesTo(p, b)
               /\ \A k \in Checkers : cboard[k] = b => cpc[k] = "testing"

\* t is testing a board whose flag is up and no other run is at it.
Flying(t) == /\ tpc[t] = "program"
             /\ UnderTest(tboard[t])
             /\ \A u \in Testers \ {t} : tboard[u] # tboard[t]

Flags(t) == tpc[t] = "flag" /\ Vacant(tboard[t])' /\ Alone(t, tboard[t])'

Observe == /\ calm' = {s \in Shells : (s \in calm \/ Took(s)) /\ Current(s)'}
           /\ sound' = {t \in Testers : Flying(t)' /\ (t \in sound \/ Flags(t))}

-----------------------------------------------------------------------------
Init == /\ StoreInit
        /\ ShellInit
        /\ CheckInit
        /\ TestInit
        /\ calm = {}
        /\ sound = {}

\* Time passes.  (A bound: every connection has its board, or has given up,
\* by Horizon.)
Tick == /\ now < MaxTime
        /\ now < Horizon \/ \A s \in Shells : pc[s] \notin Acquiring
        /\ now' = now + 1
        /\ UNCHANGED <<db, locking, script, shellVars, checkVars, testVars>>

Expiry == LockingExpires /\ UNCHANGED <<shellVars, checkVars, testVars>>

ShellRuns(s) == ShellStep(s) /\ UNCHANGED <<checkVars, testVars>>
UserActs(s)  == /\ Connect(s) \/ Disconnect(s) \/ Kill(s)
                /\ UNCHANGED <<checkVars, testVars>>

CheckRuns(k) == /\ \/ CheckStep(k) /\ UNCHANGED shellVars
                   \/ /\ Recover(k)
                      /\ RestartContainer(cboard[k])
                      /\ UNCHANGED localVars
                /\ UNCHANGED testVars
CronActs(k)  == CronStart(k) /\ UNCHANGED <<shellVars, testVars>>

TestRuns(t)  == TestStep(t) /\ UNCHANGED <<shellVars, checkVars>>
AdminActs(t) == /\ StartRun(t) \/ KillRun(t)
                /\ UNCHANGED <<shellVars, checkVars>>

Next == /\ \/ Tick
           \/ Expiry
           \/ \E s \in Shells : ShellRuns(s) \/ UserActs(s)
           \/ \E k \in Checkers : CheckRuns(k) \/ CronActs(k)
           \/ \E t \in Testers : TestRuns(t) \/ AdminActs(t)
        /\ Observe

\* The clock advances, keys with a time to live expire, a process that can take
\* a step is scheduled, and cron starts checkboards.py again and again.  Users
\* need not do anything, and no hardware test need ever start.
Fairness == /\ WF_vars(Tick /\ Observe)
            /\ WF_vars(Expiry /\ Observe)
            /\ \A s \in Shells : WF_vars(ShellRuns(s) /\ Observe)
            /\ \A k \in Checkers : WF_vars(CheckRuns(k) /\ Observe)
            /\ \A k \in Checkers : WF_vars(CronActs(k) /\ Observe)
            /\ \A t \in Testers : WF_vars(TestRuns(t) /\ Observe)

Spec == Init /\ [][Next]_vars

FairSpec == Spec /\ Fairness

TypeOK == /\ StoreTypeOK /\ ShellTypeOK /\ CheckTypeOK /\ TestTypeOK
          /\ calm \in SUBSET Shells
          /\ sound \in SUBSET Testers

-----------------------------------------------------------------------------
\* All that start_session wrote is in place: the board is locked by and in
\* session with the user of s, since s took it, and no pool holds it.
Recorded(s) == LET b == board[s] IN
    /\ db["available"][b] = Nil
    /\ db["unlocked"][b] = Nil
    /\ db["lockUser"][b] = UserOf[s]
    /\ db["lockTime"][b] = start[s]
    /\ db["sessUser"][b] = UserOf[s]
    /\ db["sessStart"][b] = start[s]
    /\ db["sessPing"][b] # Nil

\* A user whose allocation was not disturbed keeps the board: until the lock
\* time is over, the pings stop or the user goes, no other shell and no run of
\* checkboards.py or testboards.py removes or replaces the lock or the session,
\* or puts the board back in a pool (the exclusive lock announced at shell.py:148-151).
LeaseKept == \A s \in calm : ~Starting(s) => Recorded(s)

\* Two users never both have such a claim to the same board.
LeaseExclusive == \A s, t \in calm : board[s] = board[t] => s = t

\* Nothing can start to threaten it either: once the session is started, no
\* other process ever has a write to a key of the board ahead of it.
LeaseUndisturbed == \A s \in calm : ~Disturbed(s, board[s])

\* The writes of start_session, as a set.
StartWrites(b, u, t) ==
    {Del("unlocked", b), Del("available", b),
     Put("lockUser", b, u), Put("lockTime", b, t),
     Put("sessUser", b, u), Put("sessStart", b, t), Put("sessPing", b, t)}

\* Each of them is ahead of s or has had its effect, and s has no others.
HalfWritten(s) == LET W == StartWrites(board[s], UserOf[s], start[s]) IN
    /\ \A i \in DOMAIN script[s] : script[s][i] \in W
    /\ \A w \in W : \/ db[w.key][w.board] = w.val
                    \/ \E i \in DOMAIN script[s] : script[s][i] = w

\* Once the session is started, s writes nothing but pings.
OnlyPings(s) == \A i \in DOMAIN script[s] :
                   /\ script[s][i].key = "sessPing"
                   /\ script[s][i].board = board[s]
                   /\ script[s][i].val # Nil

\* The inductive strengthening of the three properties above.
Undisturbed(s) ==
    /\ Current(s)
    /\ pc[s] \notin {"expTime", "expUser"}
    /\ ~Disturbed(s, board[s])
    /\ Starting(s) => HalfWritten(s)
    /\ ~Starting(s) => Recorded(s) /\ OnlyPings(s)

CalmInv == \A s \in calm : Undisturbed(s)

\* A board under test is nobody's: as long as the flag hwtest:testing lasts, no
\* pool gets it back, no user gets it, and no run of checkboards.py frees it
\* (testboards.py:140), provided that nobody else was at it when it was flagged.
TestKept == \A t \in sound : Vacant(tboard[t]) /\ Alone(t, tboard[t])

-----------------------------------------------------------------------------
\* Undisturbed allocations, from the end of start_session on, as leases.
LeaseHolders(b) == {<<UserOf[s], start[s]>> :
                       s \in {t \in calm : board[t] = b /\ ~Starting(t)}}

\* What the keys say of board b.
EntryOf(b) == [lock    |-> <<db["lockUser"][b], db["lockTime"][b]>>,
               session |-> <<db["sessUser"][b], db["sessStart"][b]>>,
               pools   |-> {k \in PoolKeys : db[k][b] = In}]

Leases == INSTANCE Allocator WITH
             holder <- [b \in Boards |-> LeaseHolders(b)],
             entry  <- [b \in Boards |-> EntryOf(b)],
             clock  <- now,
             Limit  <- MaxLockTime

\* The relay implements the lease service of Allocator.tla: a board goes to a user
\* whom nobody disturbs when the last key of lock and session is written, the keys
\* then stay as they are up to and including the step that ends the lease, within
\* the lock time, and the next such user gets it in a later step.
LeaseService == Leases!LeaseSpec

-----------------------------------------------------------------------------
\* The session of s was ended or replaced while s goes on serving its user.
LostSession(s) == /\ pc[s] \in Serving \ {"restart"}
                  /\ \/ db["sessUser"][board[s]] # UserOf[s]
                     \/ db["sessStart"][board[s]] # start[s]

\* A user whose board was given to somebody else is disconnected (the banner at
\* shell.py:150): the shell does not serve a session that is not its own for ever.
LoserDisconnects == \A s \in Shells : LostSession(s) ~> ~LostSession(s)

Pooled(b) == db["available"][b] = In /\ db["unlocked"][b] = In
Held(b)   == \E s \in Shells : board[s] = b

\* No board is lost: whatever shells and test runs are killed wherever they are,
\* a board that has not failed its hardware test is in both pools again some day,
\* unless it fails a test or a shell has it (checkboards.py:14-15), provided that
\* the mark "locking", for which checkboards.py waits, does not stay for ever.
BoardReclaimed ==
    <>[](locking # "forever") =>
        \A b \in Boards : db["hwStatus"][b] # Fail
                           ~> Pooled(b) \/ Held(b) \/ db["hwStatus"][b] = Fail

-----------------------------------------------------------------------------
(* What the documents of the repository say, and the code does not keep.      *)

\* "Your exclusive board lock expires on ..." (shell.py:149), "mutual exclusion"
\* (README.md:5): two users who were both told so are never at one board within
\* the time they were told.
Told(s) == pc[s] \in Serving \ {"restart"} /\ now - start[s] =< MaxLockTime

ExclusiveLock == \A s, t \in Shells :
    Told(s) /\ Told(t) /\ UserOf[s] # UserOf[t] => board[s] # board[t]
====
