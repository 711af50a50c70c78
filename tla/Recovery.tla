---- MODULE Recovery ----
(***************************************************************************)
(* What a run of checkboards.py leaves behind.  That boards come back in   *)
(* the end is a liveness property of Relay.tla; this is the step it rests  *)
(* on: a run that nobody interferes with at a board has settled it,        *)
(* whatever had become of its keys.                                        *)
(***************************************************************************)
EXTENDS Relay

VARIABLE tended   \* history: the run that has looked at a board last, and since
                  \* when, as long as nobody else has changed a key of the board

recVars == <<vars, tended>>

Tended(b)  == tended[b] # Nil
Tender(b)  == tended[b].by
\* When its tender came to the board.
Since(b)   == tended[b].since

\* Run k finds that b is not under test, and goes on to look at its keys.
Attends(k, b) == cboard[k] = b /\ cpc[k] = "testing" /\ cpc'[k] = "available"

\* Somebody else than k changes a key of b.  (A write takes the first element
\* off the script of the process that makes it.)
Meddles(k, b) == /\ \E key \in Keys : db'[key][b] # db[key][b]
                 /\ script'[k] = script[k]

Watch == tended' = [b \in Boards |->
            IF \E k \in Checkers : Attends(k, b)
            THEN [by |-> CHOOSE k \in Checkers : Attends(k, b), since |-> now]
            ELSE IF Tended(b) /\ ~Meddles(Tender(b), b) THEN tended[b] ELSE Nil]

RecInit == Init /\ tended = [b \in Boards |-> Nil]

RecNext == Next /\ Watch

RecSpec == RecInit /\ [][RecNext]_recVars

RecFairSpec == RecSpec /\ Fairness

-----------------------------------------------------------------------------
\* Those who have the board, or have locked it, had a full record of it that was
\* good at time t; or else the board is where the next user can get it.
InSession(b, t) == /\ \A k \in {"sessUser", "sessStart", "sessPing"} : db[k][b] # Nil
                   /\ t - db["sessPing"][b] =< PingTimeout
Locked(b, t)    == /\ \A k \in {"lockUser", "lockTime"} : db[k][b] # Nil
                   /\ t - db["lockTime"][b] =< MaxLockTime

Settled(b, t) == \/ db["hwStatus"][b] = Fail
                 \/ /\ db["available"][b] = In \/ InSession(b, t)
                    /\ db["unlocked"][b] = In \/ Locked(b, t)

\* A run of checkboards.py has done with board b.
Done(k, b) == cboard[k] # b /\ ~WritesTo(k, b)

\* A board that a run of checkboards.py has gone over, and that nobody else has
\* written to since the run came to it, is settled: whatever keys killed shells and
\* tests had left there (checkboards.py:14-15, 95-121, 130-144).
BoardSettled == \A b \in Boards :
                   Tended(b) /\ Done(Tender(b), b) => Settled(b, Since(b))
====
