---- MODULE TestBoards ----
(***************************************************************************)
(* relay/testboards.py: a run of the hardware test.  It goes through the   *)
(* boards of the class, withdraws every idle one from the pools, tests it, *)
(* and puts it back if it passed.  cron starts a run every four hours, and *)
(* checkboards.py when the dashboard asks for one.                         *)
(***************************************************************************)
EXTENDS VlabStore

CONSTANTS Testers,  \* runs of testboards.py that can overlap
          Mortal,   \* bound: the runs that may be killed
          RunTTL,   \* RUN_TTL, the time to live of vlab:hwtest:running
          LastRun   \* bound: no run starts or is killed after this time

ASSUME TestAssumption == /\ Testers \subseteq Procs
                         /\ Mortal \subseteq Testers
                         /\ RunTTL \in Nat
                         /\ LastRun \in Nat

VARIABLES tpc,      \* the command each run issues next
          tboard,   \* the board it is at
          ttodo,    \* the boards it has still to go to
          taken,    \* the board was in one of the pools
          running   \* the time vlab:hwtest:running was set at, or Nil

testVars == <<tpc, tboard, ttodo, taken, running>>

\* The points before the board is known to be idle, and those after.
Asking  == {"sessUser", "lockUser"}
Testing == {"available", "unlocked", "status", "flag", "program"}

TestTypeOK ==
    /\ tpc \in [Testers -> {"idle", "mark", "finish"} \cup Asking \cup Testing]
    /\ tboard \in [Testers -> Boards \cup {Nil}]
    /\ ttodo \in [Testers -> SUBSET Boards]
    /\ taken \in [Testers -> BOOLEAN]
    /\ running \in {Nil} \cup Nat
    /\ \A t \in Testers : tpc[t] \in Asking \cup Testing => tboard[t] # Nil

TestInit == /\ tpc = [t \in Testers |-> "idle"]
            /\ tboard = [t \in Testers |-> Nil]
            /\ ttodo = [t \in Testers |-> {}]
            /\ taken = [t \in Testers |-> FALSE]
            /\ running = Nil

-----------------------------------------------------------------------------
TAt(t, l) == tpc[t] = l /\ Ready(t)

TGoto(t, l) == /\ tpc' = [tpc EXCEPT ![t] = l]
               /\ UNCHANGED <<tboard, ttodo>>

\* t goes on to the next board, or comes to the end when there is none.
NextTest(t, rest) ==
    /\ \/ /\ rest = {}
          /\ tpc' = [tpc EXCEPT ![t] = "finish"]
          /\ tboard' = [tboard EXCEPT ![t] = Nil]
          /\ ttodo' = [ttodo EXCEPT ![t] = {}]
       \/ \E b \in rest :
             /\ tpc' = [tpc EXCEPT ![t] = "sessUser"]
             /\ tboard' = [tboard EXCEPT ![t] = b]
             /\ ttodo' = [ttodo EXCEPT ![t] = rest \ {b}]
    /\ taken' = [taken EXCEPT ![t] = FALSE]

\* The key vlab:hwtest:running is there.
Running == running # Nil /\ now - running < RunTTL

\* What is written at the end of a test: when the bitstream could not be
\* programmed (the flag is left to expire), when the board did not answer as it
\* should, when it did.  (Between the result and the rest the board is reset.)
Unprogrammed(b) == <<Put("hwStatus", b, Fail)>>
Failed(b)       == <<Put("hwStatus", b, Fail), Del("testing", b)>>
Passed(b)       == <<Put("hwStatus", b, Nil), Put("available", b, In),
                     Put("unlocked", b, In), Del("testing", b)>>

-----------------------------------------------------------------------------
\* A run starts unless the key says that there is one.
StartRun(t) == /\ TAt(t, "idle")
               /\ now =< LastRun
               /\ ~Running
               /\ TGoto(t, "mark")
               /\ UNCHANGED <<storeVars, taken, running>>

\* It sets the key and goes through the class.
MarkRun(t) == /\ TAt(t, "mark")
              /\ running' = now
              /\ NextTest(t, Boards)
              /\ UNCHANGED storeVars

\* board_is_idle: a board with a session or a lock is skipped.  (After a session
\* was found the lock is read too, but no longer matters.)
AskSession(t) ==
    /\ TAt(t, "sessUser")
    /\ IF db["sessUser"][tboard[t]] = Nil
       THEN TGoto(t, "lockUser") /\ UNCHANGED taken
       ELSE NextTest(t, ttodo[t])
    /\ UNCHANGED <<storeVars, running>>

\* A slip: the lock is not looked at.
AskNoLock(t) == /\ TAt(t, "lockUser")
                /\ TGoto(t, "available")
                /\ UNCHANGED <<storeVars, taken, running>>

AskLock(t) ==
    /\ TAt(t, "lockUser")
    /\ IF db["lockUser"][tboard[t]] = Nil
       THEN TGoto(t, "available") /\ UNCHANGED taken
       ELSE NextTest(t, ttodo[t])
    /\ UNCHANGED <<storeVars, running>>

\* withdraw_board: a ZREM from each pool, and whether one of them was of use.
Withdraw(t, k, next) ==
    /\ TAt(t, k)
    /\ db' = [db EXCEPT ![k][tboard[t]] = Nil]
    /\ taken' = [taken EXCEPT ![t] = @ \/ db[k][tboard[t]] = In]
    /\ TGoto(t, next)
    /\ UNCHANGED <<locking, script, now, running>>

WithdrawAvailable(t) == Withdraw(t, "available", "unlocked")
WithdrawUnlocked(t)  == Withdraw(t, "unlocked", "status")

\* A board that was in no pool is tested only if it failed before.
PrevStatus(t) ==
    /\ TAt(t, "status")
    /\ IF taken[t] \/ db["hwStatus"][tboard[t]] = Fail
       THEN TGoto(t, "flag") /\ UNCHANGED taken
       ELSE NextTest(t, ttodo[t])
    /\ UNCHANGED <<storeVars, running>>

\* The flag that keeps checkboards.py away.
SetFlag(t) == /\ TAt(t, "flag")
              /\ db' = [db EXCEPT !["testing"][tboard[t]] = now]
              /\ TGoto(t, "program")
              /\ UNCHANGED <<locking, script, now, taken, running>>

\* The test is over, after any time, and its result is written.
Conclude(t) ==
    /\ TAt(t, "program")
    /\ \E seq \in {Unprogrammed(tboard[t]), Failed(tboard[t]),
                   Passed(tboard[t])} : Run(t, seq)
    /\ NextTest(t, ttodo[t])
    /\ UNCHANGED <<db, locking, now, running>>

\* The key is deleted when the run ends.
FinishRun(t) == /\ TAt(t, "finish")
                /\ running' = Nil
                /\ TGoto(t, "idle")
                /\ UNCHANGED <<storeVars, taken>>

\* The run is killed wherever it is.
KillRun(t) == /\ t \in Mortal
              /\ tpc[t] # "idle"
              /\ now =< LastRun
              /\ tpc' = [tpc EXCEPT ![t] = "idle"]
              /\ tboard' = [tboard EXCEPT ![t] = Nil]
              /\ ttodo' = [ttodo EXCEPT ![t] = {}]
              /\ taken' = [taken EXCEPT ![t] = FALSE]
              /\ Run(t, <<>>)
              /\ UNCHANGED <<db, locking, now, running>>

\* The steps a run takes by itself.
TestStep(t) ==
    \/ MarkRun(t) \/ AskSession(t) \/ AskLock(t)
    \/ WithdrawAvailable(t) \/ WithdrawUnlocked(t)
    \/ PrevStatus(t) \/ SetFlag(t) \/ Conclude(t) \/ FinishRun(t)
    \/ Exec(t) /\ UNCHANGED testVars
====
