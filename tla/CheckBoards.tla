---- MODULE CheckBoards ----
(***************************************************************************)
(* check_sessions of relay/checkboards.py, which cron runs every minute:   *)
(* it goes through the boards of the class and gives back every board      *)
(* whose session or lock is incomplete or has lasted too long.             *)
(***************************************************************************)
EXTENDS VlabStore

CONSTANTS Checkers,     \* runs of checkboards.py that can overlap
          PingTimeout   \* PING_TIMEOUT of checkboards.py

ASSUME CheckAssumption == /\ Checkers \subseteq Procs
                          /\ PingTimeout \in Nat

VARIABLES cpc,      \* the command each checker issues next
          cboard,   \* the board it is looking at
          ctodo,    \* the boards it has still to look at
          cmissing  \* a session or lock key of cboard was found missing

checkVars == <<cpc, cboard, ctodo, cmissing>>

Looking == {"testing", "available", "sessUser", "sessStart", "sessPing", "sessFail",
            "restart", "unlocked", "lockUser", "lockTime", "lockFail"}

CheckTypeOK ==
    /\ cpc \in [Checkers -> {"idle"} \cup Looking]
    /\ cboard \in [Checkers -> Boards \cup {Nil}]
    /\ ctodo \in [Checkers -> SUBSET Boards]
    /\ cmissing \in [Checkers -> BOOLEAN]
    /\ \A k \in Checkers :
          /\ cpc[k] \in Looking => cboard[k] # Nil
          /\ cpc[k] \in {"sessFail", "restart", "lockFail"} => cmissing[k]

CheckInit == /\ cpc = [k \in Checkers |-> "idle"]
             /\ cboard = [k \in Checkers |-> Nil]
             /\ ctodo = [k \in Checkers |-> {}]
             /\ cmissing = [k \in Checkers |-> FALSE]

-----------------------------------------------------------------------------
CAt(k, l) == cpc[k] = l /\ Ready(k)

CGoto(k, l) == /\ cpc' = [cpc EXCEPT ![k] = l]
               /\ UNCHANGED <<cboard, ctodo>>

\* k goes on to the next board of the loop, or ends when there is none.
NextBoard(k, rest) ==
    /\ \/ /\ rest = {}
          /\ cpc' = [cpc EXCEPT ![k] = "idle"]
          /\ cboard' = [cboard EXCEPT ![k] = Nil]
          /\ ctodo' = [ctodo EXCEPT ![k] = {}]
       \/ \E b \in rest :
             /\ cpc' = [cpc EXCEPT ![k] = "testing"]
             /\ cboard' = [cboard EXCEPT ![k] = b]
             /\ ctodo' = [ctodo EXCEPT ![k] = rest \ {b}]
    /\ cmissing' = [cmissing EXCEPT ![k] = FALSE]

\* A slip: only the last reply counts.
NeedLast(k, l, key, next) ==
    /\ CAt(k, l)
    /\ cmissing' = [cmissing EXCEPT ![k] = db[key][cboard[k]] = Nil]
    /\ CGoto(k, next)
    /\ UNCHANGED storeVars

\* k reads a key that must be there, and remembers when it is not.
Need(k, l, key, next) ==
    /\ CAt(k, l)
    /\ cmissing' = [cmissing EXCEPT ![k] = @ \/ db[key][cboard[k]] = Nil]
    /\ CGoto(k, next)
    /\ UNCHANGED storeVars

\* The time in that key is longer ago than it may be.
TooOld(key, b, limit) == db[key][b] # Nil /\ now - db[key][b] > limit

\* A slip: the session is not ended.
FreeHalf(b) == unlock_board(b)

\* unlock_board followed by end_session.
FreeBoard(b) == unlock_board(b) \o end_session(b)

Forget(k) == cmissing' = [cmissing EXCEPT ![k] = FALSE]

-----------------------------------------------------------------------------
\* cron starts a run, which waits while a user is locking a board of the
\* class and then goes through the class.  (A run that waits is not told from
\* one that has not started.)
CronStart(k) == /\ CAt(k, "idle")
                /\ locking = "absent"
                /\ NextBoard(k, Boards)
                /\ UNCHANGED storeVars

\* A slip: boards under test are not skipped.
CheckAnyway(k) == /\ CAt(k, "testing")
                  /\ CGoto(k, "available")
                  /\ UNCHANGED <<storeVars, cmissing>>

\* A board under hardware test is skipped.
CheckTesting(k) ==
    /\ CAt(k, "testing")
    /\ IF UnderTest(cboard[k])
       THEN NextBoard(k, ctodo[k])
       ELSE CGoto(k, "available") /\ UNCHANGED cmissing
    /\ UNCHANGED storeVars

\* Is the board in the available pool?
CheckAvailable(k) ==
    /\ CAt(k, "available")
    /\ IF db["available"][cboard[k]] = Nil
       THEN CGoto(k, "sessUser") ELSE CGoto(k, "unlocked")
    /\ UNCHANGED <<storeVars, cmissing>>

CheckSessUser(k)  == Need(k, "sessUser", "sessUser", "sessStart")
CheckSessStart(k) == Need(k, "sessStart", "sessStart", "sessPing")

\* With the third reply: is a session recorded, and has it been pinged lately?
CheckSessPing(k) ==
    /\ CAt(k, "sessPing")
    /\ LET b == cboard[k]
           missing == cmissing[k] \/ db["sessPing"][b] = Nil
       IN  \/ /\ missing
              /\ CGoto(k, "sessFail")
              /\ UNCHANGED script
           \/ /\ ~missing /\ TooOld("sessPing", b, PingTimeout)
              /\ Run(k, FreeBoard(b))
              /\ CGoto(k, "unlocked")
           \/ /\ ~missing /\ ~TooOld("sessPing", b, PingTimeout)
              /\ CGoto(k, "unlocked")
              /\ UNCHANGED script
    /\ cmissing' = [cmissing EXCEPT ![k] = @ \/ db["sessPing"][cboard[k]] = Nil]
    /\ UNCHANGED <<db, locking, now>>

\* A board that failed its hardware test stays out of the pool.
CheckSessFail(k) ==
    /\ CAt(k, "sessFail")
    /\ IF db["hwStatus"][cboard[k]] = Fail
       THEN CGoto(k, "unlocked") /\ Forget(k)
       ELSE CGoto(k, "restart") /\ UNCHANGED cmissing
    /\ UNCHANGED storeVars

\* Any other board without a session is freed once its container is restarted.
\* (What the restart does to open connections is added in Relay.tla.)
Recover(k) == /\ CAt(k, "restart")
              /\ Run(k, FreeBoard(cboard[k]))
              /\ CGoto(k, "unlocked")
              /\ Forget(k)
              /\ UNCHANGED <<db, locking, now>>

\* Is the board in the unlocked pool?
CheckUnlocked(k) ==
    /\ CAt(k, "unlocked")
    /\ IF db["unlocked"][cboard[k]] = Nil
       THEN CGoto(k, "lockUser") /\ UNCHANGED cmissing
       ELSE NextBoard(k, ctodo[k])
    /\ UNCHANGED storeVars

\* A slip: a board that is not in the unlocked pool is freed whatever its lock.
CheckNoLock(k) == /\ CAt(k, "lockUser")
                  /\ CGoto(k, "lockFail")
                  /\ UNCHANGED <<storeVars, cmissing>>

CheckLockUser(k) == Need(k, "lockUser", "lockUser", "lockTime")

\* With the second reply: is a lock recorded, and is it still good?
CheckLockTime(k) ==
    /\ CAt(k, "lockTime")
    /\ LET b == cboard[k]
           missing == cmissing[k] \/ db["lockTime"][b] = Nil
       IN  \/ /\ missing
              /\ CGoto(k, "lockFail")
              /\ cmissing' = [cmissing EXCEPT ![k] = TRUE]
              /\ UNCHANGED script
           \/ /\ ~missing /\ TooOld("lockTime", b, MaxLockTime)
              /\ Run(k, unlock_board(b))
              /\ NextBoard(k, ctodo[k])
           \/ /\ ~missing /\ ~TooOld("lockTime", b, MaxLockTime)
              /\ NextBoard(k, ctodo[k])
              /\ UNCHANGED script
    /\ UNCHANGED <<db, locking, now>>

CheckLockFail(k) ==
    /\ CAt(k, "lockFail")
    /\ \/ db["hwStatus"][cboard[k]] = Fail /\ UNCHANGED script
       \/ db["hwStatus"][cboard[k]] # Fail /\ Run(k, unlock_board(cboard[k]))
    /\ NextBoard(k, ctodo[k])
    /\ UNCHANGED <<db, locking, now>>

CheckStep(k) ==
    \/ CheckTesting(k) \/ CheckAvailable(k)
    \/ CheckSessUser(k) \/ CheckSessStart(k) \/ CheckSessPing(k)
    \/ CheckSessFail(k)
    \/ CheckUnlocked(k) \/ CheckLockUser(k) \/ CheckLockTime(k) \/ CheckLockFail(k)
    \/ Exec(k) /\ UNCHANGED checkVars
====
