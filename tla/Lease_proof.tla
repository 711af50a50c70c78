---- MODULE Lease_proof ----
(***************************************************************************)
(* The exclusive lock: an undisturbed allocation lasts as long as the lock *)
(* time, the pings and the user do.  CalmInv is the inductive invariant.   *)
(* And the hardware test, which has its board to itself (SoundInv).        *)
(***************************************************************************)
EXTENDS Relay_proof, SequenceTheorems

-----------------------------------------------------------------------------
(* Scripts. *)

\* Every write in seq is to board b.
Only(seq, b) == \A i \in DOMAIN seq : seq[i].board = b

LEMMA OnlyBoard ==
    ASSUME NEW b, NEW u, NEW t
    PROVE  /\ Only(unlock_board(b), b)
           /\ Only(end_session(b), b)
           /\ Only(ping_session(b, t), b)
           /\ Only(FreeBoard(b), b)
           /\ Only(start_session(b, u, t), b)
BY DEF Only, unlock_board, end_session, ping_session, FreeBoard, start_session,
       lock_board, Put, Del

LEMMA Concat34 ==
    ASSUME NEW a1, NEW a2, NEW a3, NEW b1, NEW b2, NEW b3, NEW b4
    PROVE  <<a1, a2, a3>> \o <<b1, b2, b3, b4>> = <<a1, a2, a3, b1, b2, b3, b4>>
<1> DEFINE A == {a1, a2, a3, b1, b2, b3, b4}
           a == <<a1, a2, a3>>
           b == <<b1, b2, b3, b4>>
           c == <<a1, a2, a3, b1, b2, b3, b4>>
<1>1. a \in Seq(A) /\ b \in Seq(A) /\ c \in Seq(A) /\ Len(a) = 3 /\ Len(b) = 4 /\ Len(c) = 7
  OBVIOUS
<1>2. /\ a[1] = c[1] /\ a[2] = c[2] /\ a[3] = c[3]
      /\ b[1] = c[4] /\ b[2] = c[5] /\ b[3] = c[6] /\ b[4] = c[7]
  OBVIOUS
<1> HIDE DEF A, a, b, c
<1> DEFINE d == a \o b
<1>3. d \in Seq(A) /\ Len(d) = 3 + 4 /\ \A i \in 1..(3 + 4) :
          d[i] = IF i <= 3 THEN a[i] ELSE b[i - 3]
  <2>1. /\ d \in Seq(A)
        /\ Len(d) = Len(a) + Len(b)
        /\ \A i \in 1..Len(a) + Len(b) : d[i] = IF i <= Len(a) THEN a[i] ELSE b[i - Len(a)]
    BY <1>1, ConcatProperties, Zenon
  <2> HIDE DEF d
  <2> QED
    BY <1>1, <2>1
<1> HIDE DEF d
<1>4. /\ d[1] = c[1] /\ d[2] = c[2] /\ d[3] = c[3]
      /\ d[4] = c[4] /\ d[5] = c[5] /\ d[6] = c[6] /\ d[7] = c[7]
  BY <1>2, <1>3
<1>5. \A i \in 1..7 : d[i] = c[i]
  <2>1. \A i \in 1..7 : i \in {1, 2, 3, 4, 5, 6, 7}
    OBVIOUS
  <2> QED
    BY <1>4, <2>1
<1>6. d = c
  <2>1. c \in Seq(A) /\ d \in Seq(A) /\ Len(d) = Len(c) /\ \A i \in 1..Len(d) : d[i] = c[i]
    BY <1>1, <1>3, <1>5
  <2> QED
    BY <2>1, SeqEqual, Zenon
<1> QED
  BY <1>6 DEF a, b, c, d

\* start_session makes exactly the writes of StartWrites.
LEMMA StartSession ==
    ASSUME NEW b, NEW u, NEW t
    PROVE  LET seq == start_session(b, u, t)
           IN  /\ seq # <<>>
               /\ \A i \in DOMAIN seq : seq[i] \in StartWrites(b, u, t)
               /\ \A w \in StartWrites(b, u, t) : \E i \in DOMAIN seq : seq[i] = w
               /\ \E i \in DOMAIN seq : seq[i].board = b
<1> DEFINE seq == start_session(b, u, t)
<1>1. seq = <<Del("unlocked", b), Put("lockUser", b, u), Put("lockTime", b, t),
              Del("available", b), Put("sessUser", b, u), Put("sessStart", b, t),
              Put("sessPing", b, t)>>
  BY Concat34 DEF start_session, lock_board
<1>2. DOMAIN seq = 1..7 /\ seq # <<>>
  BY <1>1
<1>3. \A i \in 1..7 : seq[i] \in StartWrites(b, u, t)
  BY <1>1 DEF StartWrites
<1>4. \A w \in StartWrites(b, u, t) : \E i \in 1..7 : seq[i] = w
  BY <1>1 DEF StartWrites
<1>5. seq[1].board = b
  BY <1>1 DEF Put, Del
<1> QED
  BY <1>2, <1>3, <1>4, <1>5

\* No two of them are to the same key.
LEMMA StartKeys ==
    ASSUME NEW b, NEW u, NEW t, NEW v \in StartWrites(b, u, t),
           NEW w \in StartWrites(b, u, t), v.key = w.key
    PROVE  v = w
BY DEF StartWrites, Put, Del

\* A write of p changes only the key it names, and only if it has it to make.
LEMMA ExecEffect ==
    ASSUME StoreTypeOK, NEW p \in Procs, Exec(p)
    PROVE  /\ DOMAIN script[p] = 1..Len(script[p]) /\ 1 \in DOMAIN script[p]
           /\ script[p][1] \in Writes
           /\ db' = [db EXCEPT ![script[p][1].key][script[p][1].board] = script[p][1].val]
           /\ \A q \in Procs \ {p} : script'[q] = script[q]
           /\ script'[p] = Tail(script[p])
           /\ DOMAIN script'[p] = 1..(Len(script[p]) - 1)
           /\ \A i \in DOMAIN script'[p] : i + 1 \in DOMAIN script[p]
                                           /\ script'[p][i] = script[p][i + 1]
           /\ now' = now
<1>1. ~Ready(p) /\ script \in [Procs -> Seq(Writes)]
  BY DEF Exec, StoreTypeOK
<1>2. script' = [script EXCEPT ![p] = Tail(script[p])]
  BY DEF Exec, Run
<1>3. DOMAIN script[p] = 1..Len(script[p]) /\ 1 \in 1..Len(script[p])
  BY <1>1, HeadTail
<1>4. db' = [db EXCEPT ![script[p][1].key][script[p][1].board] = script[p][1].val]
  BY <1>1, HeadTail DEF Exec
<1>5. script'[p] = Tail(script[p]) /\ \A q \in Procs \ {p} : script'[q] = script[q]
  BY <1>1, <1>2
<1>6. DOMAIN Tail(script[p]) = 1..(Len(script[p]) - 1)
  BY <1>1, HeadTail
<1>7. \A i \in 1..(Len(script[p]) - 1) :
          i + 1 \in 1..Len(script[p]) /\ Tail(script[p])[i] = script[p][i + 1]
  BY <1>1, HeadTail
<1> QED
  BY <1>1, <1>3, <1>4, <1>5, <1>6, <1>7, HeadTail DEF Exec

\* Seen from a board the write is not to, nothing happens.
LEMMA ExecElsewhere ==
    ASSUME TypeOK, NEW p \in Procs, Exec(p), NEW b \in Boards, ~WritesTo(p, b)
    PROVE  /\ \A k \in Keys : db'[k][b] = db[k][b]
           /\ ~WritesTo(p, b)'
           /\ \A q \in Procs \ {p} : WritesTo(q, b)' <=> WritesTo(q, b)
<1> DEFINE w == script[p][1]
<1>1. StoreTypeOK
  BY DEF TypeOK
<1>2. /\ w.board # b /\ w.key \in Keys /\ w.board \in Boards
      /\ db' = [db EXCEPT ![w.key][w.board] = w.val]
  BY <1>1, ExecEffect DEF WritesTo, Writes
<1>3. \A k \in Keys : db'[k][b] = db[k][b]
  <2> HIDE DEF w
  <2> QED
    BY <1>1, <1>2 DEF StoreTypeOK
<1>4. \A i \in DOMAIN script'[p] : i + 1 \in DOMAIN script[p]
                                  /\ script'[p][i] = script[p][i + 1]
  BY <1>1, ExecEffect
<1>5. ~WritesTo(p, b)'
  BY <1>4 DEF WritesTo
<1>6. \A q \in Procs \ {p} : script'[q] = script[q]
  BY <1>1, ExecEffect
<1> QED
  BY <1>3, <1>5, <1>6 DEF WritesTo

-----------------------------------------------------------------------------
(* What one step of a shell can do to everybody else. *)

\* Board b is locked by, or in session with, the user of t.
Holds(t, b) == Mine(t, "sessUser", b) \/ Mine(t, "lockUser", b)

\* t takes a board that its user has already, or that was in a pool.
Takes(t, b) == /\ Take(t, b)
               /\ \/ Holds(t, b) /\ UNCHANGED db
                  \/ \E k \in PoolKeys : Removes(k, b)

\* t moves on, and calls a writing function for its own board at most.
Calls(t) == \/ UNCHANGED script
            \/ \E seq : Run(t, seq) /\ Only(seq, board[t]) /\ Holds(t, board[t])

Goes(t) == /\ Ready(t)
           /\ \E l : Goto(t, l)
           /\ UNCHANGED <<db, board, start>>
           /\ Calls(t)

\* t ends, after a last call for its own board at most.
Ends(t) == /\ UNCHANGED db
           /\ \/ End(t, <<>>)
              \/ \E seq : End(t, seq) /\ Only(seq, board[t]) /\ Holds(t, board[t])

LEMMA ShellForms ==
    ASSUME TypeOK, NEW t \in Shells, ShellActs(t)
    PROVE  /\ now' = now
           /\ \/ Exec(t) /\ UNCHANGED shellVars
              \/ \E b \in Boards : Takes(t, b)
              \/ Goes(t)
              \/ Ends(t)
<1>1. CASE Exec(t) /\ UNCHANGED shellVars
  BY <1>1 DEF Exec
<1>2. CASE Connect(t)
  BY <1>2 DEF Connect, At, Goes, Calls
<1>3. CASE LimitLocking(t)
  BY <1>3 DEF LimitLocking, At, Look, Goes, Calls
<1>4. CASE LookSession(t)
  <2>1. look[t] \in Boards
    BY <1>4 DEF LookSession, At, TypeOK, ShellTypeOK
  <2> QED
    BY <1>4, <2>1 DEF LookSession, At, Move, Takes, Holds, Goes, Calls
<1>5. CASE LookLock(t)
  <2>1. look[t] \in Boards
    BY <1>5 DEF LookLock, At, TypeOK, ShellTypeOK
  <2> QED
    BY <1>5, <2>1 DEF LookLock, At, Look, Move, Takes, Holds, Goes, Calls
<1>6. CASE Claim(t)
  <2>1. requested[t] \in Boards
    BY <1>6 DEF Claim, At, TypeOK, ShellTypeOK
  <2> QED
    BY <1>6, <2>1 DEF Claim, At, Move, Takes, PoolKeys, Goes, Calls
<1>7. CASE PopAvailable(t)
  BY <1>7 DEF PopAvailable, Pop, At, Move, Takes, PoolKeys, Goes, Calls, Ends
<1>8. CASE PopUnlocked(t)
  BY <1>8 DEF PopUnlocked, Pop, At, Move, Takes, PoolKeys, Goes, Calls, Ends
<1>9. CASE GiveUp(t)
  BY <1>9 DEF GiveUp, Ends
<1>10. CASE Restart(t)
  BY <1>10 DEF Restart, At, Goes, Calls, storeVars
<1>11. CASE Open(t)
  BY <1>11 DEF Open, At, Goes, Calls, storeVars
<1>12. CASE ExpireTime(t) \/ ReleaseTime(t)
  BY <1>12 DEF ExpireTime, ReleaseTime, CheckTime, At, Move, Goes, Calls, storeVars
<1>13. CASE ExpireUser(t) \/ ReleaseUser(t)
  BY <1>13, OnlyBoard DEF ExpireUser, ReleaseUser, CheckUser, At, Goes, Calls, Holds
<1>14. CASE PingTime(t)
  BY <1>14 DEF PingTime, At, Move, Leave, Goes, Calls, storeVars
<1>15. CASE PingUser(t)
  BY <1>15, OnlyBoard DEF PingUser, At, Move, Leave, Goes, Calls, Holds
<1>16. CASE Wait(t) \/ Disconnect(t)
  BY <1>16 DEF Wait, Disconnect, At, Move, Leave, Goes, Calls, storeVars
<1>17. CASE EndTime(t)
  <2>1. CASE Move(t, "endUser") /\ UNCHANGED script
    BY <1>17, <2>1 DEF EndTime, At, Move, Goes, Calls
  <2> QED
    BY <1>17, <2>1 DEF EndTime, Ends
<1>18. CASE EndUser(t)
  BY <1>18, OnlyBoard DEF EndUser, Holds, Ends
<1>19. CASE Kill(t)
  BY <1>19 DEF Kill, Ends
<1> QED
  BY <1>1, <1>2, <1>3, <1>4, <1>5, <1>6, <1>7, <1>8, <1>9, <1>10, <1>11, <1>12,
     <1>13, <1>14, <1>15, <1>16, <1>17, <1>18, <1>19 DEF ShellActs, ShellStep

\* The other shells do not notice.
SameShell(s) == /\ pc'[s] = pc[s]
                /\ board'[s] = board[s]
                /\ start'[s] = start[s]
                /\ script'[s] = script[s]

LEMMA OtherShell ==
    ASSUME TypeOK, NEW t \in Shells, ShellActs(t)
    PROVE  /\ \A s \in Shells \ {t} : SameShell(s)
           /\ \A p \in Procs \ {t} : script'[p] = script[p]
<1>1. \A p \in Procs \ {t} : script'[p] = script[p]
  <2>1. t \in Procs /\ StoreTypeOK
    BY ShellAssumption DEF TypeOK
  <2>2. CASE Exec(t)
    BY <2>1, <2>2, ExecEffect
  <2>3. ASSUME NEW seq, Run(t, seq) PROVE \A p \in Procs \ {t} : script'[p] = script[p]
    BY <2>1, <2>3 DEF Run, StoreTypeOK
  <2> QED
    BY <2>2, <2>3, ShellForms DEF Takes, Take, Goes, Calls, Ends, End
<1>2. \A s \in Shells \ {t} : pc'[s] = pc[s] /\ board'[s] = board[s] /\ start'[s] = start[s]
  BY ShellForms DEF TypeOK, ShellTypeOK, Takes, Take, Goes, Goto, Ends, End,
                    shellVars, localVars
<1> QED
  BY <1>1, <1>2, ShellAssumption DEF SameShell

-----------------------------------------------------------------------------
(* What one step of a run of checkboards.py can do to everybody else. *)

\* The keys of a lock and of a session.
LeaseKeys == {"lockUser", "lockTime", "sessUser", "sessStart", "sessPing"}

\* What k has seen of board b entitles it to free the board.
Stale(k, b) == \/ cmissing[k]
               \/ TooOld("sessPing", b, PingTimeout)
               \/ TooOld("lockTime", b, MaxLockTime)

\* k decides about its board, and calls writing functions for it at most.
Decides(k) ==
    /\ UNCHANGED db
    /\ \/ UNCHANGED script
       \/ \E seq : Run(k, seq) /\ Only(seq, cboard[k]) /\ Stale(k, cboard[k])
    /\ \A j \in Checkers \ {k} : cmissing'[j] = cmissing[j] /\ cboard'[j] = cboard[j]
    /\ cmissing'[k] => /\ cboard'[k] = cboard[k]
                       /\ \/ cmissing[k]
                          \/ \E key \in LeaseKeys : db[key][cboard[k]] = Nil

LEMMA CheckForms ==
    ASSUME TypeOK, NEW k \in Checkers,
           CheckStep(k) \/ Recover(k) \/ CronStart(k)
    PROVE  /\ now' = now
           /\ \/ Exec(k) /\ UNCHANGED checkVars
              \/ Decides(k)
<1> USE DEF TypeOK, CheckTypeOK
<1>1. CASE Exec(k) /\ UNCHANGED checkVars
  BY <1>1 DEF Exec
<1>2. ASSUME NextBoard(k, ctodo[k]) \/ NextBoard(k, Boards)
      PROVE  /\ \A j \in Checkers \ {k} : cmissing'[j] = cmissing[j]
                                          /\ cboard'[j] = cboard[j]
             /\ ~cmissing'[k]
  BY <1>2 DEF NextBoard
<1>3. CASE CronStart(k)
  BY <1>2, <1>3 DEF CronStart, storeVars, Decides
<1>0. CASE CheckTesting(k)
  BY <1>0, <1>2 DEF CheckTesting, CGoto, storeVars, Decides
<1>4. CASE CheckAvailable(k)
  BY <1>4 DEF CheckAvailable, CGoto, storeVars, Decides
<1>5. CASE CheckSessUser(k) \/ CheckSessStart(k) \/ CheckLockUser(k)
  BY <1>5 DEF CheckSessUser, CheckSessStart, CheckLockUser, Need, CGoto, storeVars,
              Decides, LeaseKeys
<1>6. CASE CheckSessPing(k)
  BY <1>6, OnlyBoard DEF CheckSessPing, CGoto, Decides, LeaseKeys, Stale
<1>7. CASE CheckSessFail(k)
  BY <1>7 DEF CheckSessFail, Forget, CGoto, storeVars, Decides
<1>8. CASE Recover(k)
  <2>1. cmissing[k]
    BY <1>8 DEF Recover, CAt
  <2> QED
    BY <1>8, <2>1, OnlyBoard DEF Recover, Forget, CGoto, Decides, Stale
<1>9. CASE CheckUnlocked(k)
  BY <1>2, <1>9 DEF CheckUnlocked, CGoto, storeVars, Decides
<1>10. CASE CheckLockTime(k)
  BY <1>2, <1>10, OnlyBoard DEF CheckLockTime, CGoto, Decides, LeaseKeys, Stale
<1>11. CASE CheckLockFail(k)
  <2>1. cmissing[k]
    BY <1>11 DEF CheckLockFail, CAt
  <2> QED
    BY <1>2, <1>11, <2>1, OnlyBoard DEF CheckLockFail, Decides, Stale
<1> QED
  BY <1>0, <1>1, <1>3, <1>4, <1>5, <1>6, <1>7, <1>8, <1>9, <1>10, <1>11 DEF CheckStep

-----------------------------------------------------------------------------
(* What one step of a test run can do to everybody else. *)

\* t changes the keys of the board it tests at most, comes to have its writes to
\* make, and begins to test a board only if it has no lock.
Tries(t) ==
    /\ \A b \in Boards : ~Tests(t, b) => \A k \in Keys : db'[k][b] = db[k][b]
    /\ \/ UNCHANGED script
       \/ Run(t, <<>>)
       \/ \E seq : Run(t, seq) /\ Only(seq, tboard[t]) /\ Tests(t, tboard[t])
    /\ \A u \in Testers \ {t} : tpc'[u] = tpc[u] /\ tboard'[u] = tboard[u]
    /\ \A b \in Boards : Tests(t, b)' => Tests(t, b) \/ db["lockUser"][b] = Nil

LEMMA NextTestForm ==
    ASSUME TypeOK, NEW t \in Testers, NEW rest, NextTest(t, rest)
    PROVE  /\ \A u \in Testers \ {t} : tpc'[u] = tpc[u] /\ tboard'[u] = tboard[u]
           /\ \A b : ~Tests(t, b)'
BY DEF NextTest, Tests, Testing, TypeOK, TestTypeOK

LEMMA TGotoForm ==
    ASSUME TypeOK, NEW t \in Testers, NEW l, TGoto(t, l)
    PROVE  /\ \A u \in Testers \ {t} : tpc'[u] = tpc[u] /\ tboard'[u] = tboard[u]
           /\ \A b : Tests(t, b)' <=> l \in Testing /\ tboard[t] = b
BY DEF TGoto, Tests, TypeOK, TestTypeOK

LEMMA TestForms ==
    ASSUME TypeOK, NEW t \in Testers, TestStep(t) \/ StartRun(t) \/ KillRun(t)
    PROVE  /\ now' = now
           /\ \/ Exec(t) /\ UNCHANGED testVars
              \/ Tries(t)
<1>1. CASE Exec(t) /\ UNCHANGED testVars
  BY <1>1 DEF Exec
<1>2. ASSUME UNCHANGED <<db, script>>, NEW l, TGoto(t, l),
             l \in Testing => Tests(t, tboard[t]) \/ db["lockUser"][tboard[t]] = Nil
      PROVE  Tries(t)
  BY <1>2, TGotoForm DEF Tries
<1>3. ASSUME UNCHANGED <<db, script>>, NEW rest, NextTest(t, rest) PROVE Tries(t)
  BY <1>3, NextTestForm DEF Tries
<1>4. CASE StartRun(t) \/ FinishRun(t)
  BY <1>2, <1>4 DEF StartRun, FinishRun, storeVars, Testing
<1>5. CASE MarkRun(t)
  BY <1>3, <1>5 DEF MarkRun, storeVars
<1>6. CASE AskSession(t) \/ AskLock(t)
  BY <1>2, <1>3, <1>6 DEF AskSession, AskLock, storeVars, Testing
<1>7. CASE PrevStatus(t)
  BY <1>2, <1>3, <1>7 DEF PrevStatus, TAt, storeVars, Tests, Testing
<1>8. ASSUME NEW k \in Keys, NEW v, db' = [db EXCEPT ![k][tboard[t]] = v],
             NEW l, TGoto(t, l), Tests(t, tboard[t]), UNCHANGED script
      PROVE  Tries(t)
  <2>1. \A b \in Boards : ~Tests(t, b) => b # tboard[t]
    BY <1>8
  <2>2. \A b \in Boards, j \in Keys : b # tboard[t] => db'[j][b] = db[j][b]
    BY <1>8 DEF TypeOK, StoreTypeOK
  <2> QED
    BY <1>8, <2>1, <2>2, TGotoForm DEF Tries
<1>9. CASE WithdrawAvailable(t) \/ WithdrawUnlocked(t)
  <2>1. "available" \in Keys /\ "unlocked" \in Keys
    BY DEF Keys, PoolKeys
  <2> QED
    BY <1>8, <1>9, <2>1 DEF WithdrawAvailable, WithdrawUnlocked, Withdraw, TAt, Tests, Testing
<1>10. CASE SetFlag(t)
  <2>1. "testing" \in Keys
    BY DEF Keys, TimeKeys
  <2> QED
    BY <1>8, <1>10, <2>1 DEF SetFlag, TAt, Tests, Testing
<1>11. CASE Conclude(t)
  <2>1. \A b : Only(Unprogrammed(b), b) /\ Only(Failed(b), b) /\ Only(Passed(b), b)
    BY DEF Only, Unprogrammed, Failed, Passed, Put, Del
  <2>2. Tests(t, tboard[t])
    BY <1>11 DEF Conclude, TAt, Tests, Testing
  <2> QED
    BY <1>11, <2>1, <2>2, NextTestForm DEF Conclude, Tries
<1>12. CASE KillRun(t)
  BY <1>12 DEF KillRun, Tries, Tests, Testing, TypeOK, TestTypeOK
<1>13. now' = now
  BY DEF TestStep, StartRun, KillRun, MarkRun, AskSession, AskLock, WithdrawAvailable,
         WithdrawUnlocked, Withdraw, PrevStatus, SetFlag, Conclude, FinishRun, Exec, storeVars
<1> QED
  BY <1>1, <1>4, <1>5, <1>6, <1>7, <1>9, <1>10, <1>11, <1>12, <1>13 DEF TestStep

-----------------------------------------------------------------------------
(* What one step of a shell means for itself. *)

\* s goes on serving its user at its board.
GoesOn(s) ==
    /\ Ready(s)
    /\ UNCHANGED <<db, board, start>>
    /\ pc[s] \in Serving /\ pc'[s] # "restart"
    /\ \/ pc[s] \in {"expTime", "expUser"}
       \/ /\ script'[s] \in {<<>>, ping_session(board[s], now)}
          /\ pc'[s] \in {"expTime", "expUser"} => now - start[s] > MaxLockTime

LEMMA OwnForms ==
    ASSUME TypeOK, NEW s \in Shells, ShellActs(s), pc'[s] \in Serving
    PROVE  \/ Exec(s) /\ UNCHANGED shellVars
           \/ \E b \in Boards : Takes(s, b)
           \/ GoesOn(s)
<1> SUFFICES ASSUME ~(Exec(s) /\ UNCHANGED shellVars), ~\E b \in Boards : Takes(s, b)
             PROVE  GoesOn(s)
  OBVIOUS
<1>1. pc \in [Shells -> {"idle"} \cup Acquiring \cup Serving \cup Leaving]
      /\ s \in Procs /\ script \in [Procs -> Seq(Writes)]
  BY ShellAssumption DEF TypeOK, ShellTypeOK, StoreTypeOK
<1>2. Goes(s) \/ Ends(s)
  BY ShellForms
<1>3. Goes(s)
  <2>1. ~Ends(s)
    BY <1>1 DEF Ends, End, Goto, Serving
  <2> QED
    BY <1>2, <2>1
<1>4. ASSUME NEW l, Goto(s, l) PROVE pc'[s] = l
  BY <1>1, <1>4 DEF Goto
<1>5. Ready(s) /\ UNCHANGED <<db, board, start>>
  BY <1>3 DEF Goes
<1>6. \A l : LoopHead(s, l) \in {"expTime", "pingTime"}
             /\ (LoopHead(s, l) = "expTime" => now - start[s] > MaxLockTime)
  BY DEF LoopHead
<1>7. CASE Restart(s)
  BY <1>4, <1>5, <1>7 DEF Restart, At, storeVars, Ready, GoesOn, Serving
<1>8. CASE Open(s)
  BY <1>4, <1>5, <1>6, <1>8 DEF Open, At, storeVars, Ready, GoesOn, Serving
<1>9. CASE ExpireTime(s) \/ ExpireUser(s)
  BY <1>4, <1>5, <1>9 DEF ExpireTime, ExpireUser, CheckTime, CheckUser, At, Move,
                          GoesOn, Serving
<1>10. CASE PingTime(s)
  BY <1>4, <1>5, <1>10 DEF PingTime, At, Move, Leave, storeVars, Ready, GoesOn, Serving
<1>11. CASE PingUser(s)
  <2>1. CASE Leave(s)
    BY <1>4, <2>1 DEF Leave, Serving
  <2>2. CASE Move(s, "wait") /\ Run(s, ping_session(board[s], now))
    BY <1>1, <1>4, <1>5, <1>11, <2>2 DEF PingUser, At, Move, Run, GoesOn, Serving
  <2> QED
    BY <1>11, <2>1, <2>2 DEF PingUser
<1>12. CASE Wait(s)
  <2>1. CASE Leave(s)
    BY <1>4, <2>1 DEF Leave, Serving
  <2>2. CASE Move(s, LoopHead(s, locked[s]))
    BY <1>4, <1>5, <1>6, <1>12, <2>2 DEF Wait, At, Move, storeVars, Ready, GoesOn, Serving
  <2> QED
    BY <1>12, <2>1, <2>2 DEF Wait
<1>13. CASE Disconnect(s) \/ ReleaseTime(s) \/ ReleaseUser(s)
  BY <1>4, <1>13 DEF Disconnect, Leave, ReleaseTime, ReleaseUser, CheckTime, CheckUser,
                    Move, Serving
<1>14. CASE EndTime(s) \/ EndUser(s) \/ GiveUp(s) \/ Kill(s)
  BY <1>4, <1>14 DEF EndTime, EndUser, GiveUp, Kill, End, Move, Serving
<1>15. CASE Connect(s) \/ LimitLocking(s)
  BY <1>4, <1>15 DEF Connect, LimitLocking, Look, Serving
<1>16. ASSUME NEW b \in Boards, Holds(s, b) PROVE ~Take(s, b)
  BY <1>5, <1>16 DEF Takes
<1>17. ASSUME NEW b \in Boards, NEW k \in PoolKeys, Removes(k, b) PROVE ~Take(s, b)
  BY <1>17 DEF Takes
<1>18. CASE LookSession(s)
  <2>1. look[s] \in Boards
    BY <1>18 DEF LookSession, At, TypeOK, ShellTypeOK
  <2> QED
    BY <1>4, <1>16, <1>18, <2>1 DEF LookSession, Move, Holds, Serving
<1>19. CASE LookLock(s)
  <2>1. look[s] \in Boards
    BY <1>19 DEF LookLock, At, TypeOK, ShellTypeOK
  <2> QED
    BY <1>4, <1>16, <1>19, <2>1 DEF LookLock, Look, Move, Holds, Serving
<1>20. CASE Claim(s)
  <2>1. requested[s] \in Boards
    BY <1>20 DEF Claim, At, TypeOK, ShellTypeOK
  <2> QED
    BY <1>4, <1>17, <1>20, <2>1 DEF Claim, Move, PoolKeys, Serving
<1>21. CASE PopAvailable(s) \/ PopUnlocked(s)
  BY <1>4, <1>17, <1>21 DEF PopAvailable, PopUnlocked, Pop, Move, End, PoolKeys, Serving
<1> QED
  BY <1>7, <1>8, <1>9, <1>10, <1>11, <1>12, <1>13, <1>14, <1>15, <1>18, <1>19, <1>20,
     <1>21 DEF ShellActs, ShellStep

-----------------------------------------------------------------------------
(* An undisturbed shell stays undisturbed for as long as its claim lasts. *)

LEMMA Keyed ==
    /\ LeaseKeys \subseteq Keys /\ PoolKeys \subseteq Keys
    /\ \A b, u, t : \A w \in StartWrites(b, u, t) : w.key \in Keys /\ w.board = b
BY DEF LeaseKeys, Keys, PoolKeys, UserKeys, TimeKeys, StartWrites, Put, Del

\* Nothing about s or its board has changed.
LEMMA Untouched ==
    ASSUME NEW s \in Shells, Undisturbed(s), Current(s)', SameShell(s),
           \A k \in Keys : db'[k][board[s]] = db[k][board[s]],
           Starting(s) \/ ~Disturbed(s, board[s])'
    PROVE  Undisturbed(s)'
<1>1. Starting(s)' <=> Starting(s)
  BY DEF SameShell, Starting, Ready
<1>2. ~Disturbed(s, board[s])'
  BY <1>1 DEF Current
<1>3. pc'[s] \notin {"expTime", "expUser"}
  BY DEF Undisturbed, SameShell
<1>4. ASSUME Starting(s) PROVE HalfWritten(s)'
  <2>1. HalfWritten(s)
    BY <1>4 DEF Undisturbed
  <2> QED
    BY <2>1, Keyed DEF HalfWritten, SameShell
<1>5. ASSUME ~Starting(s) PROVE Recorded(s)' /\ OnlyPings(s)'
  <2>1. Recorded(s) /\ OnlyPings(s)
    BY <1>5 DEF Undisturbed
  <2> QED
    BY <2>1 DEF Recorded, OnlyPings, SameShell, Keys, PoolKeys, UserKeys, TimeKeys
<1> QED
  BY <1>1, <1>2, <1>3, <1>4, <1>5 DEF Undisturbed

\* A write of another process is to another board.
LEMMA OtherWrite ==
    ASSUME TypeOK, NEW s \in Shells, Undisturbed(s), Current(s)',
           NEW p \in Procs \ {s}, Exec(p), SameShell(s),
           UNCHANGED <<checkVars, testVars>>
    PROVE  Undisturbed(s)'
<1>1. board[s] \in Boards
  BY DEF Undisturbed, Current, TypeOK, ShellTypeOK
<1>2. ~WritesTo(p, board[s])
  BY DEF Undisturbed, Disturbed
<1>3. /\ \A k \in Keys : db'[k][board[s]] = db[k][board[s]]
      /\ ~WritesTo(p, board[s])'
      /\ \A q \in Procs \ {p} : WritesTo(q, board[s])' <=> WritesTo(q, board[s])
  BY <1>1, <1>2, ExecElsewhere DEF SameShell, WritesTo
<1>4. ~Disturbed(s, board[s])'
  BY <1>3 DEF Undisturbed, Disturbed, Condemns, Tests, checkVars, testVars, SameShell
<1> QED
  BY <1>3, <1>4, Untouched

LEMMA OtherShellStep ==
    ASSUME TypeOK, TypeOK', NEW s \in Shells, Undisturbed(s), Current(s)',
           NEW t \in Shells \ {s}, ShellActs(t), UNCHANGED <<checkVars, testVars>>
    PROVE  Undisturbed(s)'
<1> DEFINE b == board[s]
<1>1. b \in Boards /\ Current(s) /\ ~Disturbed(s, b)
  BY DEF Undisturbed, Current, TypeOK, ShellTypeOK
<1>2. SameShell(s) /\ \A p \in Procs \ {t} : script'[p] = script[p]
  BY OtherShell
<1>3. s \in Procs /\ t \in Procs \ {s}
  BY ShellAssumption
<1>4. Starting(s)' <=> Starting(s)
  BY <1>2 DEF SameShell, Starting, Ready
<1>5. ASSUME ~WritesTo(t, b)' PROVE ~Disturbed(s, b)'
  BY <1>1, <1>2, <1>5 DEF Disturbed, WritesTo, Condemns, Tests, checkVars, testVars, SameShell
<1>6. CASE Exec(t) /\ UNCHANGED shellVars
  BY <1>2, <1>3, <1>6, OtherWrite
<1>7. ASSUME NEW c \in Boards, Takes(t, c) PROVE Undisturbed(s)'
  <2>1. /\ script'[t] = start_session(c, UserOf[t], now)
        /\ board'[t] = c
    BY <1>3, <1>7 DEF Takes, Take, Run, TypeOK, StoreTypeOK, ShellTypeOK
  <2>2. c # b
    <3> SUFFICES ASSUME c = b PROVE FALSE
      OBVIOUS
    <3>1. WritesTo(t, b)'
      BY <1>2, <2>1, StartSession DEF WritesTo, SameShell
    <3>2. Disturbed(s, board[s])'
      BY <1>2, <1>3, <3>1 DEF Disturbed, SameShell
    <3>3. ~Starting(s)
      BY <1>4, <3>2 DEF Current
    <3>4. Recorded(s)
      BY <3>3 DEF Undisturbed
    <3>5. UserOf[t] # UserOf[s]
      BY <1>2, <2>1 DEF Current, Shared, SameShell
    <3>6. ~Holds(t, c)
      BY <3>4, <3>5 DEF Holds, Mine, Recorded
    <3>7. PICK k \in PoolKeys : Removes(k, c)
      BY <1>7, <3>6 DEF Takes
    <3>8. Nil # In
      BY StoreAssumption
    <3> QED
      BY <3>4, <3>7, <3>8 DEF Removes, Recorded, PoolKeys
  <2>3. \A k \in Keys : db'[k][b] = db[k][b]
    BY <1>1, <1>7, <2>2 DEF Takes, Removes, TypeOK, StoreTypeOK
  <2>4. ~WritesTo(t, b)'
    BY <1>2, <2>1, <2>2, OnlyBoard DEF WritesTo, Only, SameShell
  <2> QED
    BY <1>2, <1>5, <2>3, <2>4, Untouched DEF SameShell
<1>8. ASSUME UNCHANGED db, ~Starting(s) => ~WritesTo(t, b)' PROVE Undisturbed(s)'
  BY <1>2, <1>5, <1>8, Untouched DEF SameShell
<1>9. ASSUME ~Starting(s), board[t] = b PROVE ~Holds(t, b)
  <2>1. UserOf[t] # UserOf[s]
    BY <1>1, <1>9 DEF Current, Shared
  <2>2. Recorded(s)
    BY <1>9 DEF Undisturbed
  <2> QED
    BY <2>1, <2>2 DEF Holds, Mine, Recorded
<1>10. ASSUME NEW seq, Only(seq, board[t]), Holds(t, board[t]), Run(t, seq), ~Starting(s)
       PROVE  ~WritesTo(t, b)'
  <2>1. script'[t] = seq
    BY <1>3, <1>10 DEF Run, TypeOK, StoreTypeOK
  <2> QED
    BY <1>2, <1>9, <1>10, <2>1 DEF WritesTo, Only, SameShell
<1>11. ~WritesTo(t, b)
  BY <1>1, <1>3 DEF Disturbed
<1>12. CASE Goes(t)
  <2>1. ASSUME UNCHANGED script PROVE ~WritesTo(t, b)'
    BY <1>2, <1>11, <2>1 DEF WritesTo, SameShell
  <2> QED
    BY <1>8, <1>10, <1>12, <2>1 DEF Goes, Calls
<1>13. CASE Ends(t)
  <2>1. ASSUME Run(t, <<>>) PROVE ~WritesTo(t, b)'
    <3>1. script'[t] = <<>>
      BY <1>3, <2>1 DEF Run, TypeOK, StoreTypeOK
    <3> QED
      BY <3>1 DEF WritesTo
  <2> QED
    BY <1>8, <1>10, <1>13, <2>1 DEF Ends, End
<1> QED
  BY <1>6, <1>7, <1>12, <1>13, ShellForms

LEMMA CheckerStep ==
    ASSUME TypeOK, TypeOK', NEW s \in Shells, Undisturbed(s), Current(s)',
           NEW k \in Checkers, CheckStep(k) \/ Recover(k) \/ CronStart(k),
           UNCHANGED <<localVars, testVars>>
    PROVE  Undisturbed(s)'
<1> DEFINE b == board[s]
<1>1. b \in Boards /\ Current(s) /\ ~Disturbed(s, b) /\ ~Condemns(k, b)
  BY DEF Undisturbed, Current, TypeOK, ShellTypeOK, Disturbed
<1>2. s \in Procs /\ k \in Procs \ {s}
  BY ShellAssumption, CheckAssumption, RelayAssumption
<1>3. \A p \in Procs \ {k} : script'[p] = script[p]
  BY <1>2, CheckForms, ExecEffect DEF Decides, Run, TypeOK, StoreTypeOK
<1>4. SameShell(s)
  BY <1>2, <1>3 DEF SameShell, localVars
<1>5. CASE Exec(k) /\ UNCHANGED checkVars
  BY <1>2, <1>4, <1>5, OtherWrite
<1>6. ASSUME Decides(k), ~Starting(s) PROVE ~Disturbed(s, board[s])'
  <2>1. Recorded(s) /\ ~TooOld("sessPing", b, PingTimeout)
    BY <1>1, <1>6 DEF Undisturbed, Current
  <2>2. start[s] \in Nat /\ UserOf[s] \in Users /\ now - start[s] =< MaxLockTime
        /\ now \in Nat
    BY <1>1, ShellAssumption DEF TypeOK, ShellTypeOK, StoreTypeOK, Current
  <2>3. \A key \in LeaseKeys : db[key][b] # Nil
    BY <2>1, <2>2, StoreAssumption DEF LeaseKeys, Recorded
  <2>4. ~TooOld("lockTime", b, MaxLockTime)
    BY <2>1, <2>2, StoreAssumption DEF TooOld, Recorded
  <2>5. ~(cboard[k] = b /\ Stale(k, b))
    BY <1>1, <2>1, <2>4 DEF Stale, Condemns
  <2>6. ~WritesTo(k, b)'
    <3>1. CASE UNCHANGED script
      BY <1>1, <1>2, <1>4, <3>1 DEF Disturbed, WritesTo, SameShell
    <3>2. ASSUME NEW seq, Run(k, seq), Only(seq, cboard[k]), Stale(k, cboard[k])
          PROVE  ~WritesTo(k, b)'
      <4>1. script'[k] = seq
        BY <1>2, <3>2 DEF Run, TypeOK, StoreTypeOK
      <4> QED
        BY <1>4, <2>5, <3>2, <4>1 DEF WritesTo, Only, SameShell
    <3> QED
      BY <1>6, <3>1, <3>2 DEF Decides
  <2>7. \A p \in Procs \ {s} : ~WritesTo(p, b)'
    BY <1>1, <1>3, <1>4, <2>6 DEF Disturbed, WritesTo, SameShell
  <2>8. \A j \in Checkers : ~Condemns(j, b)'
    BY <1>1, <1>4, <1>6, <2>3 DEF Disturbed, Condemns, Decides, SameShell
  <2> QED
    BY <1>1, <1>4, <2>7, <2>8 DEF Disturbed, Tests, testVars, SameShell
<1>7. CASE Decides(k)
  BY <1>4, <1>6, <1>7, Untouched DEF Decides
<1> QED
  BY <1>5, <1>7, CheckForms

\* A test run that has not found the board idle cannot do so, and so has nothing
\* to write to it.
LEMMA TesterStep ==
    ASSUME TypeOK, TypeOK', NEW s \in Shells, Undisturbed(s), Current(s)',
           NEW t \in Testers, TestStep(t) \/ StartRun(t) \/ KillRun(t),
           UNCHANGED <<shellVars, checkVars>>
    PROVE  Undisturbed(s)'
<1> DEFINE b == board[s]
<1>1. b \in Boards /\ ~Disturbed(s, b) /\ ~Tests(t, b)
  BY DEF Undisturbed, Current, TypeOK, ShellTypeOK, Disturbed
<1>2. s \in Procs /\ t \in Procs \ {s}
  BY ShellAssumption, TestAssumption, RelayAssumption
<1>3. CASE Exec(t) /\ UNCHANGED testVars
  <2>1. SameShell(s)
    BY <1>2, <1>3, ExecEffect DEF SameShell, shellVars, localVars, TypeOK
  <2> QED
    BY <1>2, <1>3, <2>1, OtherWrite
<1>4. CASE Tries(t)
  <2>1. \A p \in Procs \ {t} : script'[p] = script[p]
    BY <1>4 DEF Tries, Run, TypeOK, StoreTypeOK
  <2>2. SameShell(s)
    BY <1>2, <2>1 DEF SameShell, shellVars, localVars
  <2>3. \A k \in Keys : db'[k][b] = db[k][b]
    BY <1>1, <1>4 DEF Tries
  <2>4. ASSUME ~Starting(s) PROVE ~Disturbed(s, b)'
    <3>1. db["lockUser"][b] # Nil
      BY <2>4, ShellAssumption, StoreAssumption DEF Undisturbed, Recorded
    <3>2. ~WritesTo(t, b)'
      BY <1>1, <1>2, <1>4, <2>2 DEF Tries, Only, Run, Disturbed, WritesTo, SameShell,
                                    TypeOK, StoreTypeOK
    <3>3. \A p \in Procs \ {s} : ~WritesTo(p, b)'
      BY <1>1, <2>1, <2>2, <3>2 DEF Disturbed, WritesTo, SameShell
    <3>4. \A u \in Testers : ~Tests(u, b)'
      BY <1>1, <1>4, <2>2, <3>1 DEF Tries, Disturbed, Tests, SameShell
    <3>5. \A k \in Checkers : ~Condemns(k, b)'
      BY <1>1, <2>2 DEF Disturbed, Condemns, checkVars, SameShell
    <3> QED
      BY <2>2, <3>3, <3>4, <3>5 DEF Disturbed, SameShell
  <2> QED
    BY <2>2, <2>3, <2>4, Untouched DEF SameShell
<1> QED
  BY <1>3, <1>4, TestForms

\* A write of s itself: the rest of start_session, or a ping.
LEMMA OwnWrite ==
    ASSUME TypeOK, NEW s \in Shells, Undisturbed(s), Current(s)',
           Exec(s), UNCHANGED <<shellVars, checkVars, testVars>>
    PROVE  Undisturbed(s)'
<1> DEFINE b == board[s]
           W == StartWrites(b, UserOf[s], start[s])
           v == script[s][1]
<1>1. /\ b \in Boards /\ s \in Procs /\ start[s] \in Nat /\ ~Ready(s) /\ StoreTypeOK
      /\ UserOf[s] \in Users
  BY ShellAssumption DEF Undisturbed, Current, TypeOK, ShellTypeOK, Exec
<1>2. /\ UNCHANGED <<pc, board, start>>
  BY DEF shellVars, localVars
<1>3. /\ v \in Writes /\ 1 \in DOMAIN script[s]
      /\ DOMAIN script[s] = 1..Len(script[s])
      /\ db' = [db EXCEPT ![v.key][v.board] = v.val]
      /\ \A q \in Procs \ {s} : script'[q] = script[q]
      /\ DOMAIN script'[s] = 1..(Len(script[s]) - 1)
      /\ \A i \in DOMAIN script'[s] : /\ i + 1 \in DOMAIN script[s]
                                      /\ script'[s][i] = script[s][i + 1]
      /\ script'[s] = Tail(script[s])
  BY <1>1, ExecEffect
<1>4. ~Disturbed(s, b)'
  BY <1>2, <1>3 DEF Undisturbed, Disturbed, WritesTo, Condemns, Tests, checkVars, testVars
<1>5. /\ v.key \in Keys /\ v.board \in Boards
      /\ db'[v.key][v.board] = v.val
      /\ \A k \in Keys, c \in Boards :
            k # v.key \/ c # v.board => db'[k][c] = db[k][c]
  <2>1. v.key \in Keys /\ v.board \in Boards
    BY <1>3 DEF Writes
  <2> HIDE DEF v
  <2> QED
    BY <1>1, <1>3, <2>1 DEF StoreTypeOK
<1>6. CASE Starting(s)
  <2>1. /\ \A i \in DOMAIN script[s] : script[s][i] \in W
        /\ \A w \in W : \/ db[w.key][w.board] = w.val
                        \/ \E i \in DOMAIN script[s] : script[s][i] = w
    BY <1>6 DEF Undisturbed, HalfWritten
  <2>2. v \in W
    BY <1>3, <2>1
  <2>3. ASSUME NEW w \in W
        PROVE  \/ db'[w.key][w.board] = w.val
               \/ \E i \in DOMAIN script'[s] : script'[s][i] = w
    <3>1. w.key \in Keys /\ w.board = b /\ v.board = b
      BY <2>2, Keyed
    <3>2. CASE w = v
      BY <1>5, <3>2
    <3>3. CASE w # v /\ db[w.key][w.board] = w.val
      <4>1. w.key # v.key
        BY <2>2, <3>3, StartKeys
      <4> QED
        BY <1>1, <1>5, <3>1, <3>3, <4>1
    <3>4. ASSUME NEW i \in DOMAIN script[s], script[s][i] = w, w # v
          PROVE  \E j \in DOMAIN script'[s] : script'[s][j] = w
      <4>1. i # 1 /\ i \in 1..Len(script[s]) /\ Len(script[s]) \in Nat
        BY <1>1, <1>3, <3>4 DEF StoreTypeOK
      <4>2. i - 1 \in 1..(Len(script[s]) - 1) /\ (i - 1) + 1 = i
        BY <4>1
      <4> QED
        BY <1>3, <3>4, <4>2
    <3> QED
      BY <2>1, <3>2, <3>3, <3>4
  <2>4. HalfWritten(s)'
    <3>1. \A i \in DOMAIN script'[s] : script'[s][i] \in W
      BY <1>3, <2>1
    <3> QED
      BY <1>2, <2>3, <3>1 DEF HalfWritten
  <2>5. ASSUME ~Starting(s)' PROVE Recorded(s)' /\ OnlyPings(s)'
    <3>1. script'[s] = <<>>
      BY <1>2, <1>6, <2>5 DEF Starting, Ready
    <3>2. \A w \in W : db'[w.key][w.board] = w.val
      BY <2>3, <3>1
    <3>3. /\ db'["unlocked"][b] = Nil /\ db'["available"][b] = Nil
          /\ db'["lockUser"][b] = UserOf[s] /\ db'["lockTime"][b] = start[s]
          /\ db'["sessUser"][b] = UserOf[s] /\ db'["sessStart"][b] = start[s]
          /\ db'["sessPing"][b] = start[s]
      BY <3>2 DEF StartWrites, Put, Del
    <3> QED
      BY <1>1, <1>2, <3>1, <3>3, StoreAssumption DEF Recorded, OnlyPings
  <2>6. pc'[s] \notin {"expTime", "expUser"}
    BY <1>2 DEF Undisturbed
  <2> QED
    BY <1>2, <1>4, <2>4, <2>5, <2>6 DEF Undisturbed
<1>7. CASE ~Starting(s)
  <2>1. Recorded(s) /\ OnlyPings(s)
    BY <1>7 DEF Undisturbed
  <2>2. ~Starting(s)' /\ pc'[s] \notin {"expTime", "expUser"}
    BY <1>1, <1>2, <1>7 DEF Starting, Undisturbed
  <2>3. v.key = "sessPing" /\ v.board = b /\ v.val # Nil
    BY <1>3, <2>1 DEF OnlyPings
  <2>4. Recorded(s)'
    <3>1. \A k \in Keys \ {"sessPing"} : db'[k][b] = db[k][b]
      BY <1>1, <1>5, <2>3
    <3>2. db'["sessPing"][b] # Nil
      BY <1>5, <2>3
    <3> QED
      BY <1>2, <2>1, <3>1, <3>2 DEF Recorded, Keys, PoolKeys, UserKeys, TimeKeys
  <2>5. OnlyPings(s)'
    BY <1>2, <1>3, <2>1 DEF OnlyPings
  <2> QED
    BY <1>2, <1>4, <2>2, <2>4, <2>5 DEF Undisturbed
<1> QED
  BY <1>6, <1>7

LEMMA OwnStep ==
    ASSUME TypeOK, TypeOK', NEW s \in Shells, ShellActs(s), Current(s)',
           Undisturbed(s) \/ Took(s), UNCHANGED <<checkVars, testVars>>
    PROVE  Undisturbed(s)'
<1>1. pc'[s] \in Serving /\ s \in Procs
  BY ShellAssumption DEF Current
<1>2. \A p \in Procs \ {s} : script'[p] = script[p]
  BY OtherShell
<1>3. CASE Exec(s) /\ UNCHANGED shellVars
  <2>1. ~Took(s)
    BY <1>3 DEF Took, shellVars, localVars
  <2> QED
    BY <1>3, <2>1, OwnWrite
<1>4. ASSUME NEW b \in Boards, Takes(s, b) PROVE Undisturbed(s)'
  <2>1. /\ pc'[s] = "restart" /\ board'[s] = b /\ start'[s] = now
        /\ script'[s] = start_session(b, UserOf[s], now)
    BY <1>1, <1>4 DEF Takes, Take, Goto, Run, TypeOK, StoreTypeOK, ShellTypeOK
  <2>2. Starting(s)'
    BY <2>1, StartSession DEF Starting, Ready
  <2>3. HalfWritten(s)'
    BY <2>1, StartSession DEF HalfWritten
  <2> QED
    BY <2>1, <2>2, <2>3 DEF Undisturbed, Current
<1>5. CASE GoesOn(s)
  <2>1. UNCHANGED <<db, board, start>> /\ Ready(s)
    BY <1>5 DEF GoesOn
  <2>2. Undisturbed(s) /\ ~Starting(s)
    BY <2>1 DEF Took, Starting
  <2>3. now' = now
    BY ShellForms
  <2>4. ~(now - start[s] > MaxLockTime)
    BY <2>1, <2>3, ShellAssumption, StoreAssumption
       DEF Current, TypeOK, StoreTypeOK, ShellTypeOK
  <2>5. pc'[s] \notin {"expTime", "expUser", "restart"}
        /\ script'[s] \in {<<>>, ping_session(board[s], now)}
    BY <1>5, <2>2, <2>4 DEF GoesOn, Undisturbed
  <2>6. ~Starting(s)'
    BY <2>5 DEF Starting
  <2>7. Recorded(s)'
    BY <2>1, <2>2 DEF Undisturbed, Recorded
  <2>8. OnlyPings(s)'
    BY <2>1, <2>5, StoreAssumption
       DEF OnlyPings, ping_session, Put, TypeOK, StoreTypeOK
  <2>9. ~Disturbed(s, board[s])'
    BY <1>2, <2>1, <2>2 DEF Undisturbed, Disturbed, WritesTo, Condemns, Tests, checkVars, testVars
  <2> QED
    BY <2>5, <2>6, <2>7, <2>8, <2>9 DEF Undisturbed
<1> QED
  BY <1>1, <1>3, <1>4, <1>5, OwnForms

-----------------------------------------------------------------------------
\* Every step of the relay.
LEMMA CalmStep == TypeOK /\ TypeOK' /\ CalmInv /\ [Next]_vars => CalmInv'
<1> SUFFICES ASSUME TypeOK, TypeOK', CalmInv, [Next]_vars, NEW s \in calm'
             PROVE  Undisturbed(s)'
  BY DEF CalmInv
<1>1. s \in Shells
  BY DEF TypeOK
<1>2. CASE UNCHANGED vars
  <2>1. Undisturbed(s)
    BY <1>2 DEF vars, CalmInv
  <2> QED
    BY <1>2, <2>1 DEF vars, storeVars, shellVars, localVars, checkVars, testVars, Undisturbed,
           Current, Starting, Ready, Shared, Disturbed, WritesTo, Condemns, Tests, TooOld,
           HalfWritten, Recorded, OnlyPings
<1>3. CASE Next
  <2>1. (s \in calm \/ Took(s)) /\ Current(s)'
    BY <1>3 DEF Next, Observe
  <2>2. s \in calm => Undisturbed(s)
    BY DEF CalmInv
  <2>3. ASSUME UNCHANGED <<db, script, shellVars, checkVars, testVars>> PROVE Undisturbed(s)'
    <3>1. Undisturbed(s) /\ SameShell(s)
      BY <2>1, <2>2, <2>3 DEF Took, SameShell, shellVars, localVars
    <3>2. ~Disturbed(s, board[s])'
      BY <2>3, <3>1 DEF Undisturbed, Disturbed, WritesTo, Condemns, Tests, checkVars, testVars,
                        shellVars, localVars
    <3> QED
      BY <1>1, <2>1, <2>3, <3>1, <3>2, Untouched
  <2>4. CASE Tick
    BY <2>3, <2>4 DEF Tick
  <2>5. CASE Expiry
    BY <2>3, <2>5 DEF Expiry, LockingExpires
  <2>6. ASSUME NEW t \in Shells, ShellRuns(t) \/ UserActs(t) PROVE Undisturbed(s)'
    <3>1. ShellActs(t) /\ UNCHANGED <<checkVars, testVars>>
      BY <2>6 DEF ShellRuns, UserActs, ShellActs
    <3>2. CASE t = s
      BY <2>1, <2>2, <3>1, <3>2, OwnStep
    <3>3. CASE t # s
      <4>1. SameShell(s)
        BY <1>1, <3>1, <3>3, OtherShell
      <4>2. Undisturbed(s)
        BY <2>1, <2>2, <4>1 DEF Took, SameShell
      <4> QED
        BY <1>1, <2>1, <3>1, <3>3, <4>2, OtherShellStep
    <3> QED
      BY <3>2, <3>3
  <2>7. ASSUME NEW k \in Checkers, CheckRuns(k) \/ CronActs(k) PROVE Undisturbed(s)'
    <3>1. /\ CheckStep(k) \/ Recover(k) \/ CronStart(k)
          /\ UNCHANGED <<localVars, testVars>>
      BY <2>7 DEF CheckRuns, CronActs, shellVars
    <3>2. Undisturbed(s)
      BY <2>1, <2>2, <3>1 DEF Took, localVars
    <3> QED
      BY <1>1, <2>1, <3>1, <3>2, CheckerStep
  <2>8. ASSUME NEW t \in Testers, TestRuns(t) \/ AdminActs(t) PROVE Undisturbed(s)'
    <3>1. /\ TestStep(t) \/ StartRun(t) \/ KillRun(t)
          /\ UNCHANGED <<shellVars, checkVars>>
      BY <2>8 DEF TestRuns, AdminActs
    <3>2. Undisturbed(s)
      BY <2>1, <2>2, <3>1 DEF Took, shellVars, localVars
    <3> QED
      BY <1>1, <2>1, <3>1, <3>2, TesterStep
  <2> QED
    BY <1>3, <2>4, <2>5, <2>6, <2>7, <2>8 DEF Next
<1> QED
  BY <1>2, <1>3

\* Whatever the number of users, boards, connections and overlapping runs of
\* checkboards.py, the inductive invariant of undisturbed allocations holds.
THEOREM Calm == Spec => []CalmInv
<1>1. Init => CalmInv
  BY DEF Init, CalmInv
<1>2. TypeOK /\ TypeOK' /\ CalmInv /\ [Next]_vars => CalmInv'
  BY CalmStep
<1> QED
  BY <1>1, <1>2, TypeCorrect, PTL DEF Spec

\* start_session, once it has been left alone, keeps the lock and the session
\* in place and the board out of the pools until the claim of the user is over.
THEOREM LeaseIsKept == Spec => []LeaseKept
<1>1. CalmInv => LeaseKept
  BY DEF CalmInv, Undisturbed, LeaseKept
<1> QED
  BY <1>1, Calm, PTL

\* No other shell and no run of checkboards.py is about to write to its board.
THEOREM LeaseStaysUndisturbed == Spec => []LeaseUndisturbed
<1>1. CalmInv => LeaseUndisturbed
  BY DEF CalmInv, Undisturbed, LeaseUndisturbed
<1> QED
  BY <1>1, Calm, PTL

\* Nobody else has such a claim to the board.
LEMMA Exclusive == TypeOK /\ CalmInv => LeaseExclusive
<1> SUFFICES ASSUME TypeOK, CalmInv, NEW s \in calm, NEW t \in calm,
                    board[s] = board[t], s # t
             PROVE  FALSE
  BY DEF LeaseExclusive
<1>1. s \in Shells /\ t \in Shells /\ Undisturbed(s) /\ Undisturbed(t)
  BY DEF TypeOK, CalmInv
<1>2. UserOf[s] # UserOf[t]
  BY <1>1 DEF Undisturbed, Current, Shared
<1>3. ASSUME NEW x \in {s, t}, Starting(x) PROVE FALSE
  <2>1. x \in Procs /\ HalfWritten(x) /\ script[x] \in Seq(Writes) /\ ~Ready(x)
    BY <1>1, <1>3, ShellAssumption DEF Undisturbed, TypeOK, StoreTypeOK, Starting
  <2>2. 1 \in DOMAIN script[x]
    BY <2>1 DEF Ready
  <2>3. script[x][1].board = board[x]
    BY <2>1, <2>2, Keyed DEF HalfWritten
  <2>4. WritesTo(x, board[x])
    BY <2>2, <2>3 DEF WritesTo
  <2> QED
    BY <1>1, <2>1, <2>4 DEF Undisturbed, Disturbed
<1>4. Recorded(s) /\ Recorded(t)
  BY <1>1, <1>3 DEF Undisturbed
<1> QED
  BY <1>2, <1>4 DEF Recorded

\* Two users never both have such a claim to one board.
THEOREM LeaseIsExclusive == Spec => []LeaseExclusive
  BY Exclusive, Calm, TypeCorrect, PTL

-----------------------------------------------------------------------------
(* The relay implements the lease service of Allocator.tla. *)

\* No board was found in the future.
StartedInv == \A s \in Shells : start[s] =< now

LEMMA StartedStep == TypeOK /\ StartedInv /\ [Next]_vars => StartedInv'
<1> SUFFICES ASSUME TypeOK, StartedInv, [Next]_vars, NEW s \in Shells
             PROVE  start'[s] =< now'
  BY DEF StartedInv
<1>1. start \in [Shells -> Nat] /\ now \in Nat /\ start[s] =< now
  BY DEF TypeOK, ShellTypeOK, StoreTypeOK, StartedInv
<1>2. CASE UNCHANGED <<shellVars, now>>
  BY <1>1, <1>2 DEF shellVars, localVars
<1>3. CASE Tick
  BY <1>1, <1>3 DEF Tick, shellVars, localVars
<1>4. CASE Expiry
  BY <1>2, <1>4 DEF Expiry, LockingExpires
<1>5. ASSUME NEW t \in Shells, ShellRuns(t) \/ UserActs(t) PROVE start'[s] =< now'
  <2>1. ShellActs(t)
    BY <1>5 DEF ShellRuns, UserActs, ShellActs
  <2>2. now' = now
    BY <2>1, ShellForms
  <2>3. CASE t # s
    BY <1>1, <2>1, <2>2, <2>3, OtherShell DEF SameShell
  <2>4. ASSUME NEW b, Take(s, b) PROVE start'[s] = now
    BY <1>1, <2>4 DEF Take
  <2>5. ASSUME NEW seq, End(s, seq) PROVE start'[s] = 0
    BY <1>1, <2>5 DEF End
  <2>6. CASE t = s
    BY <1>1, <2>1, <2>2, <2>4, <2>5, <2>6, ShellForms
       DEF Takes, Goes, Ends, shellVars, localVars
  <2> QED
    BY <2>3, <2>6
<1>6. ASSUME NEW k \in Checkers, CheckRuns(k) \/ CronActs(k) PROVE start'[s] =< now'
  BY <1>1, <1>6, CheckForms DEF CheckRuns, CronActs, shellVars, localVars
<1>7. ASSUME NEW t \in Testers, TestRuns(t) \/ AdminActs(t) PROVE start'[s] =< now'
  BY <1>2, <1>7, TestForms DEF TestRuns, AdminActs
<1> QED
  BY <1>2, <1>3, <1>4, <1>5, <1>6, <1>7 DEF Next, vars, storeVars

\* Shell s has an undisturbed session.
Leased(s) == s \in calm /\ ~Starting(s)

\* Nobody but s writes to its board, and s only pings.
LEMMA EntryKept ==
    ASSUME TypeOK, CalmInv, [Next]_vars, NEW s \in Shells, Leased(s)
    PROVE  \A k \in Keys \ {"sessPing"} : db'[k][board[s]] = db[k][board[s]]
<1> DEFINE b == board[s]
           Kept == \A k \in Keys \ {"sessPing"} : db'[k][b] = db[k][b]
<1>1. /\ b \in Boards /\ s \in Procs /\ StoreTypeOK
      /\ ~Disturbed(s, b) /\ Recorded(s) /\ OnlyPings(s)
  BY ShellAssumption DEF CalmInv, Leased, Undisturbed, Current, TypeOK, ShellTypeOK
<1>2. CASE UNCHANGED db
  BY <1>2
<1>3. ASSUME NEW p \in Procs, Exec(p) PROVE Kept
  <2>1. CASE p # s
    BY <1>1, <1>3, <2>1, ExecElsewhere DEF Disturbed
  <2>2. CASE p = s
    <3>1. script[s][1].key = "sessPing" /\ script[s][1].board = b
          /\ db' = [db EXCEPT ![script[s][1].key][script[s][1].board] = script[s][1].val]
      BY <1>1, <1>3, <2>2, ExecEffect DEF OnlyPings
    <3> QED
      BY <1>1, <3>1 DEF StoreTypeOK
  <2> QED
    BY <2>1, <2>2
<1>4. ASSUME NEW t \in Shells, ShellRuns(t) \/ UserActs(t) PROVE Kept
  <2>1. ShellActs(t) /\ t \in Procs
    BY <1>4, ShellAssumption DEF ShellRuns, UserActs, ShellActs
  <2>2. ASSUME NEW k \in PoolKeys, NEW c \in Boards, Removes(k, c) PROVE Kept
    <3>1. c # b
      BY <1>1, <2>2, StoreAssumption DEF Removes, Recorded, PoolKeys
    <3> QED
      BY <1>1, <2>2, <3>1, Keyed DEF Removes, StoreTypeOK
  <2> QED
    BY <1>2, <1>3, <2>1, <2>2, ShellForms DEF Takes, Goes, Ends
<1>5. ASSUME NEW k \in Checkers, CheckRuns(k) \/ CronActs(k) PROVE Kept
  <2>1. (CheckStep(k) \/ Recover(k) \/ CronStart(k)) /\ k \in Procs
    BY <1>5, RelayAssumption DEF CheckRuns, CronActs
  <2> QED
    BY <1>2, <1>3, <2>1, CheckForms DEF Decides
<1>6. ASSUME NEW t \in Testers, TestRuns(t) \/ AdminActs(t) PROVE Kept
  <2>1. (TestStep(t) \/ StartRun(t) \/ KillRun(t)) /\ t \in Procs
    BY <1>6, RelayAssumption DEF TestRuns, AdminActs
  <2>2. ~Tests(t, b)
    BY <1>1 DEF Disturbed
  <2> QED
    BY <1>1, <1>3, <2>1, <2>2, TestForms DEF Tries
<1> QED
  BY <1>2, <1>4, <1>5, <1>6
     DEF Next, Tick, Expiry, LockingExpires, vars, storeVars

\* An undisturbed session was started by start_session, which was undisturbed.
LEMMA LeaseBegins ==
    ASSUME TypeOK, TypeOK', [Next]_vars, NEW s \in Shells, Leased(s)'
    PROVE  s \in calm /\ board'[s] = board[s] /\ start'[s] = start[s]
<1>1. CASE UNCHANGED vars
  BY <1>1 DEF Leased, vars, shellVars, localVars
<1>2. CASE Next
  <2>1. (s \in calm \/ Took(s)) /\ Current(s)' /\ ~Starting(s)'
    BY <1>2 DEF Next, Observe, Leased
  <2>2. CASE UNCHANGED <<board, start>>
    BY <2>1, <2>2 DEF Took
  <2>3. ASSUME NEW t \in Shells, ShellRuns(t) \/ UserActs(t)
        PROVE  s \in calm /\ board'[s] = board[s] /\ start'[s] = start[s]
    <3>1. ShellActs(t)
      BY <2>3 DEF ShellRuns, UserActs, ShellActs
    <3>2. CASE t # s
      BY <2>1, <3>1, <3>2, OtherShell DEF SameShell, Took
    <3>3. ASSUME NEW b \in Boards, Takes(s, b) PROVE FALSE
      <4>1. /\ pc'[s] = "restart" /\ s \in Procs
            /\ script'[s] = start_session(b, UserOf[s], now)
        BY <3>3, ShellAssumption DEF Takes, Take, Goto, Run, TypeOK, StoreTypeOK, ShellTypeOK
      <4> QED
        BY <2>1, <4>1, StartSession DEF Starting, Ready
    <3>4. CASE t = s
      BY <2>1, <2>2, <3>1, <3>3, <3>4, OwnForms
         DEF Current, GoesOn, shellVars, localVars
    <3> QED
      BY <3>2, <3>4
  <2> QED
    BY <1>2, <2>2, <2>3
       DEF Next, Tick, Expiry, CheckRuns, CronActs, TestRuns, AdminActs, shellVars, localVars
<1> QED
  BY <1>1, <1>2

LEMMA LeaseInitial == Init => Leases!LeaseInit
<1> SUFFICES ASSUME Init PROVE Leases!LeaseInit
  OBVIOUS
<1>1. \A b \in Boards : LeaseHolders(b) = {}
  BY DEF Init, LeaseHolders
<1>2. \A b \in Boards : EntryOf(b) \in {Leases!Unused(P) : P \in {{}, {"available", "unlocked"}}}
  <2> SUFFICES ASSUME NEW b \in Boards
               PROVE  \E P \in {{}, {"available", "unlocked"}} : EntryOf(b) = Leases!Unused(P)
    OBVIOUS
  <2>1. PICK broken \in SUBSET Boards :
           db = [k \in Keys |-> [c \in Boards |->
                    CASE k \in PoolKeys /\ c \notin broken -> In
                      [] k = "hwStatus" /\ c \in broken -> Fail
                      [] OTHER -> Nil]]
    BY DEF Init, StoreInit
  <2>2. /\ db["lockUser"][b] = Nil /\ db["lockTime"][b] = Nil
        /\ db["sessUser"][b] = Nil /\ db["sessStart"][b] = Nil
    BY <2>1 DEF Keys, PoolKeys, UserKeys, TimeKeys
  <2>3. \A k \in PoolKeys : db[k][b] = IF b \in broken THEN Nil ELSE In
    BY <2>1 DEF Keys, PoolKeys
  <2>4. {k \in PoolKeys : db[k][b] = In} \in {{}, {"available", "unlocked"}}
    BY <2>3, StoreAssumption DEF PoolKeys
  <2> QED
    BY <2>2, <2>4 DEF EntryOf, Leases!Unused
<1>3. now = 0
  BY DEF Init, StoreInit
<1> QED
  BY <1>1, <1>2, <1>3 DEF Leases!LeaseInit

LEMMA LeaseStep ==
    TypeOK /\ TypeOK' /\ CalmInv /\ CalmInv' /\ StartedInv' /\ LeaseExclusive /\ LeaseExclusive'
    /\ [Next]_vars => Leases!LeaseNext
<1> SUFFICES ASSUME TypeOK, TypeOK', CalmInv, CalmInv', StartedInv',
                    LeaseExclusive, LeaseExclusive', [Next]_vars
             PROVE  Leases!LeaseNext
  OBVIOUS
<1>1. now' \in {now, now + 1}
  <2>1. ASSUME NEW t \in Shells, ShellRuns(t) \/ UserActs(t) PROVE now' = now
    <3>1. ShellActs(t)
      BY <2>1 DEF ShellRuns, UserActs, ShellActs
    <3> QED
      BY <3>1, ShellForms
  <2>2. ASSUME NEW k \in Checkers, CheckRuns(k) \/ CronActs(k) PROVE now' = now
    BY <2>2, CheckForms DEF CheckRuns, CronActs
  <2>3. ASSUME NEW t \in Testers, TestRuns(t) \/ AdminActs(t) PROVE now' = now
    BY <2>3, TestForms DEF TestRuns, AdminActs
  <2> QED
    BY <2>1, <2>2, <2>3 DEF Next, Tick, Expiry, LockingExpires, vars, storeVars
<1>2. ASSUME NEW b \in Boards
      PROVE  Leases!Grant(b) \/ Leases!Keep(b) \/ Leases!Lapse(b) \/ Leases!Unleased(b)
  <2>1. ASSUME NEW s \in Shells, Leased(s), board[s] = b
        PROVE  /\ LeaseHolders(b) = {<<UserOf[s], start[s]>>}
               /\ EntryOf(b)' = EntryOf(b)
    <3>1. {t \in calm : board[t] = b /\ ~Starting(t)} = {s}
      BY <2>1 DEF LeaseExclusive, Leased
    <3>2. \A k \in Keys \ {"sessPing"} : db'[k][b] = db[k][b]
      BY <2>1, EntryKept
    <3>3. EntryOf(b)' = EntryOf(b)
      <4>1. \A k \in PoolKeys \cup {"lockUser", "lockTime", "sessUser", "sessStart"} :
               db'[k][b] = db[k][b]
        BY <3>2 DEF Keys, PoolKeys, UserKeys, TimeKeys
      <4>2. {k \in PoolKeys : db'[k][b] = In} = {k \in PoolKeys : db[k][b] = In}
        BY <4>1
      <4>3. /\ db'["lockUser"][b] = db["lockUser"][b] /\ db'["lockTime"][b] = db["lockTime"][b]
            /\ db'["sessUser"][b] = db["sessUser"][b] /\ db'["sessStart"][b] = db["sessStart"][b]
        BY <4>1
      <4> QED
        BY <4>2, <4>3 DEF EntryOf
    <3> QED
      BY <3>1, <3>3 DEF LeaseHolders
  <2>2. CASE LeaseHolders(b)' = {}
    <3>1. CASE LeaseHolders(b) = {}
      BY <2>2, <3>1 DEF Leases!Unleased, Leases!Free
    <3>2. CASE LeaseHolders(b) # {}
      <4>1. PICK s \in Shells : Leased(s) /\ board[s] = b
        BY <3>2 DEF LeaseHolders, Leased, TypeOK
      <4> QED
        BY <2>1, <2>2, <3>2, <4>1 DEF Leases!Lapse, Leases!Free
    <3> QED
      BY <3>1, <3>2
  <2>3. ASSUME NEW s \in Shells, Leased(s)', board'[s] = b
        PROVE  Leases!Grant(b) \/ Leases!Keep(b)
    <3> DEFINE l == <<UserOf[s], start'[s]>>
    <3>1. s \in calm /\ board[s] = b /\ start'[s] = start[s]
      BY <2>3, LeaseBegins
    <3>2. LeaseHolders(b)' = {l}
      <4>1. {t \in calm' : board'[t] = b /\ ~Starting(t)'} = {s}
        BY <2>3 DEF LeaseExclusive, Leased
      <4> QED
        BY <4>1 DEF LeaseHolders
    <3>3. /\ l \in Users \X Nat /\ start'[s] \in Nat /\ now' \in Nat
          /\ start'[s] =< now' /\ now' =< start'[s] + MaxLockTime
      <4>1. UserOf[s] \in Users /\ start'[s] \in Nat /\ now' \in Nat /\ MaxLockTime \in Nat
        BY ShellAssumption, StoreAssumption DEF TypeOK, ShellTypeOK, StoreTypeOK
      <4>2. start'[s] =< now'
        BY DEF StartedInv
      <4>3. now' - start'[s] =< MaxLockTime
        BY <2>3 DEF Leased, CalmInv, Undisturbed, Current
      <4> QED
        BY <4>1, <4>2, <4>3
    <3>4. CASE Starting(s)
      <4>1. LeaseHolders(b) = {}
        BY <3>1, <3>4 DEF LeaseHolders, LeaseExclusive
      <4>2. Recorded(s)'
        BY <2>3 DEF Leased, CalmInv, Undisturbed
      <4>3. EntryOf(b)' = [lock |-> l, session |-> l, pools |-> {}]
        BY <2>3, <4>2, StoreAssumption DEF EntryOf, Recorded, PoolKeys
      <4> QED
        BY <3>2, <3>3, <4>1, <4>3
           DEF Leases!Grant, Leases!Free, Leases!Lease, Leases!Signed, Leases!Valid
    <3>5. CASE ~Starting(s)
      <4>1. LeaseHolders(b) = {l} /\ EntryOf(b)' = EntryOf(b)
        BY <2>1, <3>1, <3>5 DEF Leased
      <4> QED
        BY <3>2, <3>3, <4>1 DEF Leases!Keep, Leases!Free, Leases!Valid
    <3> QED
      BY <3>4, <3>5
  <2>4. CASE LeaseHolders(b)' # {}
    <3>1. PICK s \in Shells : Leased(s)' /\ board'[s] = b
      BY <2>4 DEF LeaseHolders, Leased, TypeOK
    <3> QED
      BY <2>3, <3>1
  <2> QED
    BY <2>2, <2>4
<1> QED
  BY <1>1, <1>2 DEF Leases!LeaseNext

\* The relay, with all its races, leases boards as Allocator.tla says: one user at a
\* time, lock and session written when the lease begins and left alone until it is
\* over, no lease older than the lock time, and a free board between two leases.
THEOREM RelayLeasesBoards == Spec => LeaseService
<1>1. Init => StartedInv
  BY DEF Init, ShellInit, StoreInit, StartedInv
<1>2. /\ TypeOK /\ StartedInv /\ [Next]_vars => StartedInv'
      /\ TypeOK /\ TypeOK' /\ CalmInv /\ CalmInv' /\ StartedInv'
         /\ LeaseExclusive /\ LeaseExclusive' /\ [Next]_vars => Leases!LeaseNext
  BY LeaseStep, StartedStep
<1> QED
  BY <1>1, <1>2, LeaseInitial, Calm, LeaseIsExclusive, TypeCorrect, PTL
     DEF Spec, LeaseService, Leases!LeaseSpec

-----------------------------------------------------------------------------
(* The hardware test: a board that nobody was at when it was flagged is    *)
(* nobody's for as long as the flag and the test last.                     *)

\* The test of t is in the state TestKept describes.  It is under way, and t
\* writes nothing before it has the result.
Sound(t) == /\ Flying(t)
            /\ Ready(t)
            /\ Vacant(tboard[t])
            /\ Alone(t, tboard[t])

SoundInv == \A t \in sound : Sound(t)

-----------------------------------------------------------------------------
\* Who is nobody at a vacant board can neither call a function for it nor take it.
LEMMA VacantBoard ==
    ASSUME NEW b \in Boards, Vacant(b), NEW s \in Shells
    PROVE  /\ ~Holds(s, b)
           /\ \A k \in PoolKeys : ~Removes(k, b)
BY ShellAssumption, StoreAssumption DEF Vacant, Holds, Mine, Removes, PoolKeys, UserKeys

\* The board stays vacant if none of its keys changes.
LEMMA VacantStays ==
    ASSUME NEW b, Vacant(b), \A k \in Keys : db'[k][b] = db[k][b]
    PROVE  Vacant(b)'
BY DEF Vacant, Keys

\* A shell does nothing to a vacant board that it has no writes to.
LEMMA ShellLeavesVacant ==
    ASSUME TypeOK, NEW b \in Boards, Vacant(b), NEW s \in Shells, ~WritesTo(s, b),
           ShellActs(s)
    PROVE  /\ Vacant(b)'
           /\ ~WritesTo(s, b)'
<1>1. s \in Procs /\ script \in [Procs -> Seq(Writes)]
  BY ShellAssumption DEF TypeOK, StoreTypeOK
<1>2. CASE Exec(s) /\ UNCHANGED shellVars
  BY <1>1, <1>2, ExecElsewhere, VacantStays
<1>3. ASSUME NEW seq, NEW c, Run(s, seq), Only(seq, c), c # b PROVE ~WritesTo(s, b)'
  <2>1. script'[s] = seq
    BY <1>1, <1>3 DEF Run
  <2> QED
    BY <1>3, <2>1 DEF WritesTo, Only
<1>4. ASSUME NEW c \in Boards, Takes(s, c) PROVE Vacant(b)' /\ ~WritesTo(s, b)'
  <2>1. c # b
    BY <1>4, VacantBoard DEF Takes
  <2>2. \A k \in Keys : db'[k][b] = db[k][b]
    BY <1>4, <2>1 DEF Takes, Removes, TypeOK, StoreTypeOK
  <2>3. ~WritesTo(s, b)'
    BY <1>3, <1>4, <2>1, OnlyBoard DEF Takes, Take
  <2> QED
    BY <2>2, <2>3, VacantStays
<1>5. ASSUME NEW seq, Run(s, seq), Only(seq, board[s]), Holds(s, board[s])
      PROVE  ~WritesTo(s, b)'
  BY <1>3, <1>5, VacantBoard
<1>6. CASE Goes(s)
  <2>1. ~WritesTo(s, b)'
    BY <1>5, <1>6 DEF Goes, Calls, WritesTo
  <2> QED
    BY <1>6, <2>1, VacantStays DEF Goes
<1>7. CASE Ends(s)
  <2>1. ASSUME Run(s, <<>>) PROVE ~WritesTo(s, b)'
    <3>1. script'[s] = <<>>
      BY <1>1, <2>1 DEF Run
    <3> QED
      BY <3>1 DEF WritesTo
  <2>2. ~WritesTo(s, b)'
    BY <1>5, <1>7, <2>1 DEF Ends, End
  <2> QED
    BY <1>7, <2>2, VacantStays DEF Ends
<1> QED
  BY <1>2, <1>4, <1>6, <1>7, ShellForms

-----------------------------------------------------------------------------
\* A run of checkboards.py that comes to a board starts with its flag, and goes
\* on with it only if there is none.
LEMMA CheckerArrives ==
    ASSUME TypeOK, NEW k \in Checkers, CheckStep(k) \/ Recover(k) \/ CronStart(k)
    PROVE  /\ \A j \in Checkers \ {k} : cpc'[j] = cpc[j] /\ cboard'[j] = cboard[j]
           /\ \/ cboard'[k] = cboard[k] /\ cpc[k] # "testing"
              \/ cpc'[k] \in {"testing", "idle"} /\ (cpc'[k] = "idle" => cboard'[k] = Nil)
              \/ cpc[k] = "testing" /\ cboard'[k] = cboard[k] /\ ~UnderTest(cboard[k])
           /\ cpc[k] = "testing" => UNCHANGED script \/ Exec(k)
<1> USE DEF TypeOK, CheckTypeOK
<1>1. ASSUME NEW rest, NextBoard(k, rest)
      PROVE  /\ \A j \in Checkers \ {k} : cpc'[j] = cpc[j] /\ cboard'[j] = cboard[j]
             /\ cpc'[k] \in {"testing", "idle"}
             /\ cpc'[k] = "idle" => cboard'[k] = Nil
  BY <1>1 DEF NextBoard
<1>2. ASSUME NEW l, CGoto(k, l)
      PROVE  /\ \A j \in Checkers \ {k} : cpc'[j] = cpc[j] /\ cboard'[j] = cboard[j]
             /\ cboard'[k] = cboard[k]
  BY <1>2 DEF CGoto
<1>3. CASE Exec(k) /\ UNCHANGED checkVars
  BY <1>3 DEF checkVars, Looking
<1>4. CASE CronStart(k)
  BY <1>1, <1>4 DEF CronStart, storeVars
<1>5. CASE CheckTesting(k)
  BY <1>1, <1>2, <1>5 DEF CheckTesting, storeVars
<1>6. CASE CheckAvailable(k) \/ CheckSessUser(k) \/ CheckSessStart(k) \/ CheckLockUser(k)
  BY <1>2, <1>6 DEF CheckAvailable, CheckSessUser, CheckSessStart, CheckLockUser, Need, CAt
<1>7. CASE CheckSessPing(k)
  BY <1>2, <1>7 DEF CheckSessPing, CAt
<1>8. CASE CheckSessFail(k) \/ Recover(k)
  BY <1>2, <1>8 DEF CheckSessFail, Recover, CAt
<1>9. CASE CheckUnlocked(k)
  BY <1>1, <1>2, <1>9 DEF CheckUnlocked, CAt
<1>10. CASE CheckLockTime(k)
  BY <1>1, <1>2, <1>10 DEF CheckLockTime, CAt
<1>11. CASE CheckLockFail(k)
  BY <1>1, <1>11 DEF CheckLockFail, CAt
<1> QED
  BY <1>3, <1>4, <1>5, <1>6, <1>7, <1>8, <1>9, <1>10, <1>11 DEF CheckStep

\* It does nothing to a vacant board whose flag is up.
LEMMA CheckerLeavesVacant ==
    ASSUME TypeOK, NEW b \in Boards, Vacant(b), UnderTest(b), NEW k \in Checkers,
           ~WritesTo(k, b), cboard[k] = b => cpc[k] = "testing",
           CheckStep(k) \/ Recover(k) \/ CronStart(k)
    PROVE  /\ Vacant(b)'
           /\ ~WritesTo(k, b)'
           /\ cboard'[k] = b => cpc'[k] = "testing"
<1>1. k \in Procs /\ script \in [Procs -> Seq(Writes)] /\ b # Nil
  BY CheckAssumption, RelayAssumption DEF TypeOK, StoreTypeOK
<1>2. CASE Exec(k) /\ UNCHANGED checkVars
  BY <1>1, <1>2, ExecElsewhere, VacantStays DEF checkVars
<1>3. CASE Decides(k)
  <2>1. Vacant(b)'
    BY <1>3, VacantStays DEF Decides
  <2>2. cboard'[k] = b => cpc'[k] = "testing"
    BY <1>1, CheckerArrives
  <2>3. ~WritesTo(k, b)'
    <3>1. CASE UNCHANGED script
      BY <3>1 DEF WritesTo
    <3>2. CASE Exec(k)
      BY <1>1, <3>2, ExecElsewhere
    <3>3. ASSUME NEW seq, Run(k, seq), Only(seq, cboard[k]), cboard[k] # b
          PROVE  ~WritesTo(k, b)'
      <4>1. script'[k] = seq
        BY <1>1, <3>3 DEF Run
      <4> QED
        BY <3>3, <4>1 DEF WritesTo, Only
    <3> QED
      BY <1>3, <3>1, <3>2, <3>3, CheckerArrives DEF Decides
  <2> QED
    BY <2>1, <2>2, <2>3
<1> QED
  BY <1>2, <1>3, CheckForms

\* Another test run does nothing to a board it is not at.
LEMMA TesterLeavesVacant ==
    ASSUME TypeOK, NEW b \in Boards, Vacant(b), NEW u \in Testers,
           ~WritesTo(u, b), tboard[u] # b,
           TestStep(u) \/ StartRun(u) \/ KillRun(u)
    PROVE  /\ Vacant(b)'
           /\ ~WritesTo(u, b)'
<1>1. u \in Procs /\ script \in [Procs -> Seq(Writes)]
  BY TestAssumption DEF TypeOK, StoreTypeOK
<1>2. CASE Exec(u) /\ UNCHANGED testVars
  BY <1>1, <1>2, ExecElsewhere, VacantStays
<1>3. CASE Tries(u)
  <2>1. Vacant(b)'
    BY <1>3, VacantStays DEF Tries, Tests
  <2>2. ASSUME NEW seq, Run(u, seq), seq = <<>> \/ Only(seq, tboard[u])
        PROVE  ~WritesTo(u, b)'
    <3>1. script'[u] = seq
      BY <1>1, <2>2 DEF Run
    <3> QED
      BY <2>2, <3>1 DEF WritesTo, Only
  <2>3. ~WritesTo(u, b)'
    BY <1>3, <2>2 DEF Tries, WritesTo
  <2> QED
    BY <2>1, <2>3
<1> QED
  BY <1>2, <1>3, TestForms

-----------------------------------------------------------------------------
\* t makes no write during its test: its next step ends it.
LEMMA OwnTest ==
    ASSUME TypeOK, NEW t \in Testers, TestStep(t) \/ StartRun(t) \/ KillRun(t),
           tpc[t] = "program", tpc'[t] = "program"
    PROVE  ~Ready(t)
<1> USE DEF TypeOK, TestTypeOK
<1>1. CASE Exec(t)
  BY <1>1 DEF Exec
<1>2. CASE Conclude(t)
  BY <1>2 DEF Conclude, NextTest
<1>3. CASE KillRun(t)
  BY <1>3 DEF KillRun
<1> QED
  BY <1>1, <1>2, <1>3 DEF TestStep, StartRun, MarkRun, AskSession, AskLock,
     WithdrawAvailable, WithdrawUnlocked, Withdraw, PrevStatus, SetFlag, FinishRun, TAt

\* It sets the flag with nothing left to write.
LEMMA FlagStep ==
    ASSUME TypeOK, NEW t \in Testers, TestStep(t) \/ StartRun(t) \/ KillRun(t),
           Flags(t), tpc'[t] = "program"
    PROVE  tboard'[t] = tboard[t] /\ Ready(t)'
<1> USE DEF TypeOK, TestTypeOK
<1>1. tpc[t] = "flag"
  BY DEF Flags
<1>2. CASE Exec(t) /\ UNCHANGED testVars
  BY <1>1, <1>2 DEF testVars
<1>3. CASE SetFlag(t)
  BY <1>3 DEF SetFlag, TAt, TGoto, Ready
<1>4. CASE KillRun(t)
  BY <1>4 DEF KillRun
<1>5. CASE \/ MarkRun(t) \/ AskSession(t) \/ AskLock(t) \/ WithdrawAvailable(t)
           \/ WithdrawUnlocked(t) \/ PrevStatus(t) \/ Conclude(t) \/ FinishRun(t)
           \/ StartRun(t)
  <2>1. CASE PrevStatus(t) \/ StartRun(t)
    BY <1>1, <2>1 DEF PrevStatus, StartRun, TAt
  <2> QED
    BY <1>1, <1>5, <2>1 DEF MarkRun, AskSession, AskLock, WithdrawAvailable,
       WithdrawUnlocked, Withdraw, Conclude, FinishRun, TAt
<1> QED
  BY <1>2, <1>3, <1>4, <1>5 DEF TestStep

\* The points of the other runs, and the scripts of the others, stay.
LEMMA OthersStay ==
    ASSUME TypeOK, NEW t \in Testers, TestStep(t) \/ StartRun(t) \/ KillRun(t)
    PROVE  /\ \A u \in Testers \ {t} : tpc'[u] = tpc[u] /\ tboard'[u] = tboard[u]
           /\ \A p \in Procs \ {t} : script'[p] = script[p]
<1>1. CASE Exec(t) /\ UNCHANGED testVars
  BY <1>1, ExecEffect, TestAssumption DEF testVars, TypeOK
<1>2. CASE Tries(t)
  BY <1>2 DEF Tries, Run, TypeOK, StoreTypeOK
<1> QED
  BY <1>1, <1>2, TestForms

\* A test stays sound when somebody else, p, takes a step that leaves its board
\* alone.
LEMMA SoundStays ==
    ASSUME TypeOK, NEW t \in Testers, Sound(t), Flying(t)', NEW p \in Procs \ {t},
           tboard'[t] = tboard[t],
           \A q \in Procs \ {p} : script'[q] = script[q],
           Vacant(tboard[t])', ~WritesTo(p, tboard[t])',
           \A k \in Checkers : cboard'[k] = tboard[t] => cpc'[k] = "testing"
    PROVE  Sound(t)'
<1>1. t \in Procs
  BY TestAssumption
<1>2. Ready(t)'
  BY <1>1 DEF Sound, Ready
<1>3. Alone(t, tboard[t])'
  BY DEF Sound, Alone, WritesTo
<1> QED
  BY <1>2, <1>3 DEF Sound

LEMMA SoundStep == TypeOK /\ TypeOK' /\ SoundInv /\ [Next]_vars => SoundInv'
<1> SUFFICES ASSUME TypeOK, TypeOK', SoundInv, [Next]_vars, NEW t \in sound'
             PROVE  Sound(t)'
  BY DEF SoundInv
<1>1. t \in Testers
  BY DEF TypeOK
<1>2. CASE UNCHANGED vars
  <2>1. Sound(t)
    BY <1>2 DEF vars, SoundInv
  <2> QED
    BY <1>2, <2>1 DEF vars, storeVars, shellVars, localVars, checkVars, testVars, Sound,
           Flying, UnderTest, Ready, Vacant, Alone, WritesTo
<1>3. CASE Next
  <2>1. /\ Flying(t)'
        /\ t \in sound \/ Flags(t)
    BY <1>3 DEF Next, Observe
  <2>2. tpc'[t] = "program" /\ tboard'[t] \in Boards
    BY <1>1, <2>1 DEF Flying, TypeOK, TestTypeOK, Testing
  <2>3. t \in sound => Sound(t)
    BY DEF SoundInv
  <2>4. ASSUME UNCHANGED testVars
        PROVE  /\ Sound(t) /\ tboard'[t] = tboard[t] /\ tboard[t] \in Boards
               /\ Vacant(tboard[t]) /\ UnderTest(tboard[t]) /\ Alone(t, tboard[t])
    BY <2>1, <2>2, <2>3, <2>4 DEF Flags, testVars, Sound, Flying
  <2>5. ASSUME UNCHANGED <<db, script, checkVars, testVars>> PROVE Sound(t)'
    BY <2>1, <2>4, <2>5 DEF Sound, Ready, Vacant, Alone, WritesTo, checkVars, testVars
  <2>6. CASE Tick
    BY <2>5, <2>6 DEF Tick
  <2>7. CASE Expiry
    BY <2>5, <2>7 DEF Expiry, LockingExpires
  <2>8. ASSUME NEW s \in Shells, ShellRuns(s) \/ UserActs(s) PROVE Sound(t)'
    <3>1. ShellActs(s) /\ UNCHANGED <<checkVars, testVars>>
      BY <2>8 DEF ShellRuns, UserActs, ShellActs
    <3>2. s \in Procs \ {t}
      BY <1>1, ShellAssumption, RelayAssumption
    <3>3. Vacant(tboard[t])' /\ ~WritesTo(s, tboard[t])'
      BY <2>4, <3>1, <3>2, ShellLeavesVacant DEF Alone, testVars
    <3>4. \A k \in Checkers : cboard'[k] = tboard[t] => cpc'[k] = "testing"
      BY <2>4, <3>1 DEF Alone, checkVars
    <3>5. \A q \in Procs \ {s} : script'[q] = script[q]
      BY <3>1, OtherShell
    <3> QED
      BY <1>1, <2>1, <2>4, <3>1, <3>2, <3>3, <3>4, <3>5, SoundStays
  <2>9. ASSUME NEW k \in Checkers, CheckRuns(k) \/ CronActs(k) PROVE Sound(t)'
    <3>1. /\ CheckStep(k) \/ Recover(k) \/ CronStart(k)
          /\ UNCHANGED testVars
      BY <2>9 DEF CheckRuns, CronActs
    <3>2. k \in Procs \ {t}
      BY <1>1, CheckAssumption, RelayAssumption
    <3>3. /\ Vacant(tboard[t])' /\ ~WritesTo(k, tboard[t])'
          /\ cboard'[k] = tboard[t] => cpc'[k] = "testing"
      BY <2>4, <3>1, <3>2, CheckerLeavesVacant DEF Alone, testVars
    <3>4. \A j \in Checkers : cboard'[j] = tboard[t] => cpc'[j] = "testing"
      BY <2>4, <3>1, <3>3, CheckerArrives DEF Alone
    <3>5. \A q \in Procs \ {k} : script'[q] = script[q]
      BY <3>1, <3>2, CheckForms, ExecEffect DEF Decides, Run, TypeOK, StoreTypeOK
    <3> QED
      BY <1>1, <2>1, <2>4, <3>1, <3>2, <3>3, <3>4, <3>5, SoundStays
  <2>10. ASSUME NEW u \in Testers, TestRuns(u) \/ AdminActs(u) PROVE Sound(t)'
    <3>1. /\ TestStep(u) \/ StartRun(u) \/ KillRun(u)
          /\ UNCHANGED checkVars
      BY <2>10 DEF TestRuns, AdminActs
    <3>2. CASE u = t
      <4>1. Flags(t)
        BY <1>1, <2>1, <2>2, <2>3, <3>1, <3>2, OwnTest DEF Sound, Flying
      <4>2. tboard'[t] = tboard[t] /\ Ready(t)'
        BY <1>1, <2>2, <3>1, <3>2, <4>1, FlagStep
      <4> QED
        BY <2>1, <4>1, <4>2 DEF Flags, Sound
    <3>3. CASE u # t
      <4>1. u \in Procs \ {t}
        BY <3>3, TestAssumption
      <4>2. tpc'[t] = tpc[t] /\ tboard'[t] = tboard[t]
        BY <1>1, <3>1, <3>3, OthersStay
      <4>3. Sound(t) /\ tboard[t] \in Boards
        BY <2>1, <2>2, <2>3, <4>2 DEF Flags
      <4>4. Vacant(tboard[t])' /\ ~WritesTo(u, tboard[t])'
        <5>1. tboard[u] # tboard[t] /\ Vacant(tboard[t]) /\ ~WritesTo(u, tboard[t])
          BY <3>3, <4>1, <4>3 DEF Sound, Flying, Alone
        <5>2. tboard'[t] = tboard[t]
          BY <4>2
        <5> QED
          BY <3>1, <4>3, <5>1, <5>2, TesterLeavesVacant DEF Vacant, WritesTo
      <4>5. \A k \in Checkers : cboard'[k] = tboard[t] => cpc'[k] = "testing"
        BY <3>1, <4>3 DEF Sound, Alone, checkVars
      <4>6. \A q \in Procs \ {u} : script'[q] = script[q]
        BY <3>1, OthersStay
      <4> QED
        BY <1>1, <2>1, <4>1, <4>2, <4>3, <4>4, <4>5, <4>6, SoundStays
    <3> QED
      BY <3>2, <3>3
  <2> QED
    BY <1>3, <2>6, <2>7, <2>8, <2>9, <2>10 DEF Next
<1> QED
  BY <1>2, <1>3

\* Whatever shells, runs of checkboards.py and other hardware tests there are: a
\* board that was nobody's when its flag hwtest:testing was set is in no pool and
\* in nobody's hands until the flag is gone or the test over.
THEOREM TestIsKept == Spec => []TestKept
<1>1. Init => SoundInv
  BY DEF Init, SoundInv
<1>2. TypeOK /\ TypeOK' /\ SoundInv /\ [Next]_vars => SoundInv'
  BY SoundStep
<1>3. SoundInv => TestKept
  BY DEF SoundInv, Sound, TestKept
<1> QED
  BY <1>1, <1>2, <1>3, TypeCorrect, PTL DEF Spec
====
