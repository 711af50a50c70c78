---- MODULE Relay_proof ----
(***************************************************************************)
(* Proofs about the relay, for any number of users, connections, boards    *)
(* and overlapping runs of checkboards.py, and for any limits.             *)
(***************************************************************************)
EXTENDS Relay, TLAPS

-----------------------------------------------------------------------------
(* The scripts of VlabStore: what the writing functions write, and what    *)
(* one write does.                                                         *)

\* The values of each kind of key.
LEMMA KeyTypes ==
    /\ \A k \in PoolKeys : k \in Keys /\ KeyType(k) = {Nil, In}
    /\ \A k \in UserKeys : k \in Keys /\ KeyType(k) = {Nil} \cup Users
    /\ \A k \in TimeKeys : k \in Keys /\ KeyType(k) = {Nil} \cup Nat
    /\ \A k \in Keys : Nil \in KeyType(k) /\ KeyType(k) \subseteq Values
<1> USE DEF Keys, PoolKeys, UserKeys, TimeKeys
<1>1. /\ KeyType("available") = {Nil, In}
      /\ KeyType("unlocked") = {Nil, In}
  BY DEF KeyType
<1>2. /\ KeyType("lockUser") = {Nil} \cup Users
      /\ KeyType("sessUser") = {Nil} \cup Users
  BY DEF KeyType
<1>3. /\ KeyType("lockTime") = {Nil} \cup Nat
      /\ KeyType("sessStart") = {Nil} \cup Nat
      /\ KeyType("sessPing") = {Nil} \cup Nat
      /\ KeyType("testing") = {Nil} \cup Nat
  BY DEF KeyType
<1>4. KeyType("hwStatus") = {Nil, Fail}
  BY DEF KeyType
<1> QED
  BY <1>1, <1>2, <1>3, <1>4 DEF Values

\* A key of a board, with a value of its type, is a write.
LEMMA PutType ==
    ASSUME NEW k \in Keys, NEW b \in Boards, NEW v \in KeyType(k)
    PROVE  Put(k, b, v) \in Writes
BY KeyTypes DEF Put, Writes

\* The writes of the functions of vlabredis.py.
LEMMA SingleWrites ==
    ASSUME NEW b \in Boards, NEW u \in Users, NEW t \in Nat
    PROVE  /\ \A k \in Keys : Del(k, b) \in Writes
           /\ \A k \in PoolKeys : Put(k, b, In) \in Writes
           /\ \A k \in UserKeys : Put(k, b, u) \in Writes
           /\ \A k \in TimeKeys : Put(k, b, t) \in Writes
BY KeyTypes, PutType DEF Del

LEMMA ScriptTypes ==
    ASSUME NEW b \in Boards, NEW u \in Users, NEW t \in Nat
    PROVE  /\ lock_board(b, u, t) \in Seq(Writes)
           /\ unlock_board(b) \in Seq(Writes)
           /\ start_session(b, u, t) \in Seq(Writes)
           /\ end_session(b) \in Seq(Writes)
           /\ ping_session(b, t) \in Seq(Writes)
           /\ unlock_board(b) \o end_session(b) \in Seq(Writes)
<1> USE SingleWrites DEF Keys, PoolKeys, UserKeys, TimeKeys
<1>1. lock_board(b, u, t) \in Seq(Writes)
  BY DEF lock_board
<1>2. unlock_board(b) \in Seq(Writes)
  BY DEF unlock_board
<1>3. end_session(b) \in Seq(Writes)
  BY DEF end_session
<1>4. ping_session(b, t) \in Seq(Writes)
  BY DEF ping_session
<1>5. start_session(b, u, t) \in Seq(Writes)
  <2>1. <<Del("available", b), Put("sessUser", b, u), Put("sessStart", b, t),
          Put("sessPing", b, t)>> \in Seq(Writes)
    OBVIOUS
  <2> QED
    BY <1>1, <2>1 DEF start_session
<1> QED
  BY <1>1, <1>2, <1>3, <1>4, <1>5

\* One write, or the removal of a board from a pool, keeps the keys well typed.
DbTypeOK(d) == /\ d \in [Keys -> [Boards -> Values]]
               /\ \A k \in Keys, b \in Boards : d[k][b] \in KeyType(k)

LEMMA WriteType ==
    ASSUME NEW d, DbTypeOK(d), NEW w \in Writes
    PROVE  DbTypeOK([d EXCEPT ![w.key][w.board] = w.val])
<1>1. w.key \in Keys /\ w.board \in Boards /\ w.val \in Values /\ w.val \in KeyType(w.key)
  BY DEF Writes
<1> QED
  BY <1>1 DEF DbTypeOK

LEMMA RemoveType ==
    ASSUME NEW d, DbTypeOK(d), NEW k \in Keys, NEW b \in Boards
    PROVE  DbTypeOK([d EXCEPT ![k][b] = Nil])
BY KeyTypes DEF DbTypeOK

\* The next write of a script, and those after it.
LEMMA HeadTail ==
    ASSUME NEW p \in Procs, script \in [Procs -> Seq(Writes)], ~Ready(p)
    PROVE  /\ Len(script[p]) \in Nat \ {0}
           /\ Head(script[p]) = script[p][1]
           /\ Head(script[p]) \in Writes
           /\ Tail(script[p]) \in Seq(Writes)
           /\ Len(Tail(script[p])) = Len(script[p]) - 1
           /\ \A i \in 1..(Len(script[p]) - 1) : Tail(script[p])[i] = script[p][i + 1]
BY DEF Ready

LEMMA ExecTypes ==
    ASSUME StoreTypeOK, NEW p \in Procs, Exec(p)
    PROVE  StoreTypeOK'
<1>1. DbTypeOK(db) /\ ~Ready(p)
  BY DEF StoreTypeOK, DbTypeOK, Exec
<1>2. DbTypeOK(db')
  BY <1>1, HeadTail, WriteType DEF Exec, StoreTypeOK
<1>3. script' \in [Procs -> Seq(Writes)]
  BY <1>1, HeadTail DEF Exec, Run, StoreTypeOK
<1> QED
  BY <1>2, <1>3 DEF StoreTypeOK, DbTypeOK, Exec

LEMMA InitTypes == StoreInit => StoreTypeOK
<1> SUFFICES ASSUME StoreInit PROVE StoreTypeOK
  OBVIOUS
<1> PICK broken \in SUBSET Boards :
       db = [k \in Keys |-> [b \in Boards |->
               CASE k \in PoolKeys /\ b \notin broken -> In
                 [] k = "hwStatus" /\ b \in broken -> Fail
                 [] OTHER -> Nil]]
  BY DEF StoreInit
<1>1. ASSUME NEW k \in Keys, NEW b \in Boards
      PROVE  db[k][b] \in KeyType(k) /\ db[k][b] \in Values
  <2>1. CASE k \in PoolKeys
    BY <2>1, KeyTypes DEF PoolKeys
  <2>2. CASE k = "hwStatus"
    <3>1. KeyType("hwStatus") = {Nil, Fail}
      BY DEF KeyType, PoolKeys, UserKeys, TimeKeys
    <3> QED
      BY <2>2, <3>1, KeyTypes DEF PoolKeys
  <2>3. CASE k \notin PoolKeys /\ k # "hwStatus"
    BY <2>3, KeyTypes
  <2> QED
    BY <2>1, <2>2, <2>3
<1>2. db \in [Keys -> [Boards -> Values]]
  BY <1>1
<1>3. script \in [Procs -> Seq(Writes)]
  BY DEF StoreInit
<1> QED
  BY <1>1, <1>2, <1>3 DEF StoreInit, StoreTypeOK

-----------------------------------------------------------------------------
(* Type correctness. *)

\* The steps of a shell s that runs or is acted upon by its user.
ShellActs(s) == ShellStep(s) \/ Connect(s) \/ Disconnect(s) \/ Kill(s)

LEMMA RunType ==
    ASSUME StoreTypeOK, NEW p \in Procs, NEW seq \in Seq(Writes), Run(p, seq)
    PROVE  script' \in [Procs -> Seq(Writes)]
BY DEF StoreTypeOK, Run

\* What a shell does when it takes a board, and when it ends.
LEMMA TakeType ==
    ASSUME TypeOK, NEW s \in Shells, NEW b \in Boards, Take(s, b)
    PROVE  ShellTypeOK' /\ script' \in [Procs -> Seq(Writes)]
<1>1. start_session(b, UserOf[s], now) \in Seq(Writes)
  BY ScriptTypes, ShellAssumption DEF TypeOK, StoreTypeOK
<1>2. script' \in [Procs -> Seq(Writes)]
  BY <1>1, RunType, ShellAssumption DEF Take, TypeOK
<1>3. ShellTypeOK'
  BY RelayAssumption DEF Take, Goto, TypeOK, ShellTypeOK, StoreTypeOK, Serving
<1> QED
  BY <1>2, <1>3

LEMMA EndType ==
    ASSUME TypeOK, NEW s \in Shells, NEW seq \in Seq(Writes), End(s, seq)
    PROVE  ShellTypeOK' /\ script' \in [Procs -> Seq(Writes)]
<1>1. script' \in [Procs -> Seq(Writes)]
  BY RunType, ShellAssumption DEF End, TypeOK
<1>2. ShellTypeOK'
  BY DEF End, Goto, TypeOK, ShellTypeOK, Serving, Leaving
<1> QED
  BY <1>1, <1>2

LEMMA LookType ==
    ASSUME TypeOK, NEW s \in Shells, NEW b \in Boards, NEW rest \in SUBSET Boards,
           Look(s, b, rest)
    PROVE  ShellTypeOK'
BY RelayAssumption DEF Look, Goto, TypeOK, ShellTypeOK, Acquiring, Serving, Leaving

\* A step that only moves a shell on to a point where it has what it needs.
LEMMA MoveType ==
    ASSUME TypeOK, NEW s \in Shells,
           NEW l \in {"idle"} \cup Acquiring \cup Serving \cup Leaving,
           Move(s, l),
           l \in {"session", "lock"} => look[s] # Nil,
           l = "claim" => requested[s] # Nil,
           l \in Serving \cup Leaving => board[s] # Nil
    PROVE  ShellTypeOK'
BY DEF Move, Goto, TypeOK, ShellTypeOK

-----------------------------------------------------------------------------
\* The steps of a shell.

LEMMA AcquiringTypes ==
    ASSUME TypeOK, NEW s \in Shells,
           \/ Connect(s) \/ LimitLocking(s) \/ LookSession(s) \/ LookLock(s)
           \/ Claim(s) \/ PopAvailable(s) \/ PopUnlocked(s) \/ GiveUp(s)
    PROVE  StoreTypeOK' /\ ShellTypeOK'
<1> USE RelayAssumption
<1>1. CASE Connect(s)
  BY <1>1 DEF Connect, At, Goto, SetLocking, TypeOK, StoreTypeOK, ShellTypeOK,
              Acquiring, Serving, Leaving
<1>2. CASE LimitLocking(s)
  <2>1. PICK b \in Boards, rest \in SUBSET Boards : Look(s, b, rest)
    BY <1>2 DEF LimitLocking, TypeOK, ShellTypeOK
  <2>2. StoreTypeOK'
    BY <1>2 DEF LimitLocking, TimeLocking, TypeOK, StoreTypeOK
  <2> QED
    BY <2>1, <2>2, LookType
<1>3. CASE LookSession(s)
  <2>1. look[s] \in Boards
    BY <1>3 DEF LookSession, At, TypeOK, ShellTypeOK
  <2>2. CASE Take(s, look[s])
    BY <1>3, <2>1, <2>2, TakeType DEF LookSession, TypeOK, StoreTypeOK
  <2>3. CASE Move(s, "lock") /\ UNCHANGED script
    BY <1>3, <2>1, <2>3, MoveType DEF LookSession, TypeOK, StoreTypeOK,
              Acquiring, Serving, Leaving
  <2> QED
    BY <1>3, <2>2, <2>3 DEF LookSession
<1>4. CASE LookLock(s)
  <2>1. look[s] \in Boards
    BY <1>4 DEF LookLock, At, TypeOK, ShellTypeOK
  <2>2. CASE Take(s, look[s])
    BY <1>4, <2>1, <2>2, TakeType DEF LookLock, TypeOK, StoreTypeOK
  <2>3. ASSUME UNCHANGED script PROVE StoreTypeOK'
    BY <1>4, <2>3 DEF LookLock, TypeOK, StoreTypeOK
  <2>4. CASE requested[s] # Nil /\ Move(s, "claim") /\ UNCHANGED script
    BY <2>3, <2>4, MoveType DEF Acquiring, Serving, Leaving
  <2>5. CASE Move(s, "popAvailable") /\ UNCHANGED script
    BY <2>3, <2>5, MoveType DEF Acquiring, Serving, Leaving
  <2>6. ASSUME NEW b \in todo[s], Look(s, b, todo[s] \ {b}), UNCHANGED script
        PROVE  StoreTypeOK' /\ ShellTypeOK'
    <3>1. b \in Boards /\ todo[s] \ {b} \in SUBSET Boards
      BY DEF TypeOK, ShellTypeOK
    <3> QED
      BY <2>3, <2>6, <3>1, LookType
  <2> QED
    BY <1>4, <2>2, <2>4, <2>5, <2>6 DEF LookLock
<1>5. ASSUME NEW k \in PoolKeys, NEW b \in Boards, Removes(k, b), Take(s, b),
             UNCHANGED <<locking, now>>
      PROVE  StoreTypeOK' /\ ShellTypeOK'
  <2>1. DbTypeOK(db')
    BY <1>5, RemoveType, KeyTypes DEF Removes, TypeOK, StoreTypeOK, DbTypeOK
  <2> QED
    BY <1>5, <2>1, TakeType DEF TypeOK, StoreTypeOK, DbTypeOK
<1>6. ASSUME NEW l \in {"popUnlocked", "giveUp"}, Move(s, l), UNCHANGED storeVars
      PROVE  StoreTypeOK' /\ ShellTypeOK'
  BY <1>6, MoveType DEF storeVars, TypeOK, StoreTypeOK, Acquiring, Serving, Leaving
<1>0. ASSUME End(s, <<>>), UNCHANGED <<db, locking, now>>
      PROVE  StoreTypeOK' /\ ShellTypeOK'
  <2>1. <<>> \in Seq(Writes)
    OBVIOUS
  <2> QED
    BY <1>0, <2>1, EndType DEF TypeOK, StoreTypeOK
<1>7. CASE Claim(s)
  <2>1. requested[s] \in Boards
    BY <1>7 DEF Claim, At, TypeOK, ShellTypeOK
  <2> QED
    BY <1>5, <1>6, <1>7, <2>1 DEF Claim, PoolKeys, storeVars
<1>8. CASE PopAvailable(s)
  BY <1>0, <1>5, <1>6, <1>8 DEF PopAvailable, Pop, PoolKeys, storeVars
<1>9. CASE PopUnlocked(s)
  BY <1>0, <1>5, <1>6, <1>9 DEF PopUnlocked, Pop, PoolKeys, storeVars
<1>10. CASE GiveUp(s)
  <2>1. <<>> \in Seq(Writes)
    OBVIOUS
  <2> QED
    BY <1>10, <2>1, EndType DEF GiveUp, DeleteLocking, TypeOK, StoreTypeOK
<1> QED
  BY <1>1, <1>2, <1>3, <1>4, <1>7, <1>8, <1>9, <1>10

\* A step of a shell at a board b that moves on without taking or leaving it.
LEMMA GotoType ==
    ASSUME TypeOK, NEW s \in Shells, pc[s] \in Serving \cup Leaving,
           NEW l \in Serving \cup Leaving, Goto(s, l),
           conn' \in [Shells -> BOOLEAN], locked' \in [Shells -> BOOLEAN],
           UNCHANGED <<requested, look, todo, board, start>>
    PROVE  ShellTypeOK'
BY DEF Goto, TypeOK, ShellTypeOK, Acquiring, Serving, Leaving

LEMMA LoopHeadType ==
    \A s, l : LoopHead(s, l) \in Serving
BY DEF LoopHead, Serving

LEMMA CheckTimeType ==
    ASSUME TypeOK, NEW s \in Shells, NEW l \in Serving \cup Leaving, NEW k,
           NEW yes \in Serving \cup Leaving, NEW no \in Serving \cup Leaving,
           CheckTime(s, l, k, yes, no)
    PROVE  StoreTypeOK' /\ ShellTypeOK'
<1>1. StoreTypeOK'
  BY DEF CheckTime, storeVars, TypeOK, StoreTypeOK
<1>2. ASSUME NEW m \in {yes, no}, Move(s, m) PROVE ShellTypeOK'
  BY <1>2, GotoType DEF CheckTime, At, Move, TypeOK, ShellTypeOK
<1> QED
  BY <1>1, <1>2 DEF CheckTime

LEMMA CheckUserType ==
    ASSUME TypeOK, NEW s \in Shells, NEW l \in Serving \cup Leaving, NEW k,
           NEW seq \in Seq(Writes),
           NEW yes \in Serving \cup Leaving, NEW no \in Serving \cup Leaving,
           CheckUser(s, l, k, seq, yes, no), locked' \in [Shells -> BOOLEAN]
    PROVE  StoreTypeOK' /\ ShellTypeOK'
<1>1. script' \in [Procs -> Seq(Writes)]
  BY RunType, ShellAssumption DEF CheckUser, TypeOK, StoreTypeOK
<1>2. StoreTypeOK'
  BY <1>1 DEF CheckUser, TypeOK, StoreTypeOK
<1>3. ASSUME NEW m \in {yes, no}, Goto(s, m) PROVE ShellTypeOK'
  BY <1>3, GotoType DEF CheckUser, At, TypeOK, ShellTypeOK
<1> QED
  BY <1>2, <1>3 DEF CheckUser

LEMMA ServingTypes ==
    ASSUME TypeOK, NEW s \in Shells,
           \/ Restart(s) \/ Open(s) \/ ExpireTime(s) \/ ExpireUser(s)
           \/ PingTime(s) \/ PingUser(s) \/ Wait(s) \/ Disconnect(s)
           \/ ReleaseTime(s) \/ ReleaseUser(s) \/ EndTime(s) \/ EndUser(s)
           \/ Kill(s)
    PROVE  StoreTypeOK' /\ ShellTypeOK'
<1>1. ASSUME pc[s] \in Serving \cup Leaving PROVE board[s] \in Boards
  BY <1>1 DEF TypeOK, ShellTypeOK
<1>2. ASSUME NEW b \in Boards
      PROVE  /\ unlock_board(b) \in Seq(Writes)
             /\ end_session(b) \in Seq(Writes)
             /\ ping_session(b, now) \in Seq(Writes)
  BY ScriptTypes, ShellAssumption DEF TypeOK, StoreTypeOK
<1>3. <<>> \in Seq(Writes)
  OBVIOUS
<1>4. ASSUME UNCHANGED storeVars PROVE StoreTypeOK'
  BY <1>4 DEF storeVars, TypeOK, StoreTypeOK
<1>5. ASSUME pc[s] \in Serving, Leave(s) PROVE ShellTypeOK'
  BY <1>5, GotoType DEF Leave, TypeOK, ShellTypeOK, Leaving
<1>6. CASE Restart(s)
  <2>1. conn' \in [Shells -> BOOLEAN]
    BY <1>6 DEF Restart, RestartContainer, TypeOK, ShellTypeOK
  <2> QED
    BY <1>4, <1>6, <2>1, GotoType DEF Restart, At, storeVars, TypeOK, ShellTypeOK, Serving
<1>7. CASE Open(s)
  <2>1. LoopHead(s, TRUE) \in Serving /\ "open" \in Serving
    BY LoopHeadType DEF Serving
  <2> QED
    BY <1>4, <1>7, <2>1, GotoType DEF Open, At, storeVars, TypeOK, ShellTypeOK
<1>8. CASE ExpireTime(s)
  BY <1>8, CheckTimeType DEF ExpireTime, Serving
<1>9. CASE ReleaseTime(s)
  BY <1>9, CheckTimeType DEF ReleaseTime, Leaving
<1>10. CASE ExpireUser(s)
  <2>1. board[s] \in Boards
    BY <1>1, <1>10 DEF ExpireUser, CheckUser, At, Serving
  <2>2. locked' \in [Shells -> BOOLEAN]
    BY <1>10 DEF ExpireUser, Mine, TypeOK, ShellTypeOK
  <2> QED
    BY <1>2, <1>10, <2>1, <2>2, CheckUserType DEF ExpireUser, Serving
<1>11. CASE ReleaseUser(s)
  <2>1. board[s] \in Boards
    BY <1>1, <1>11 DEF ReleaseUser, CheckUser, At, Leaving
  <2>2. locked' \in [Shells -> BOOLEAN]
    BY <1>11 DEF ReleaseUser, TypeOK, ShellTypeOK
  <2> QED
    BY <1>2, <1>11, <2>1, <2>2, CheckUserType DEF ReleaseUser, Leaving
<1>12. CASE PingTime(s)
  <2>1. pc[s] \in Serving /\ "pingUser" \in Serving
    BY <1>12 DEF PingTime, At, Serving
  <2>2. ASSUME Move(s, "pingUser") PROVE ShellTypeOK'
    BY <2>1, <2>2, GotoType DEF Move, TypeOK, ShellTypeOK
  <2> QED
    BY <1>4, <1>5, <1>12, <2>1, <2>2 DEF PingTime, storeVars
<1>13. CASE PingUser(s)
  <2>1. pc[s] \in Serving /\ "wait" \in Serving
    BY <1>13 DEF PingUser, At, Serving
  <2>2. script' \in [Procs -> Seq(Writes)]
    BY <1>1, <1>2, <1>13, <2>1, RunType, ShellAssumption DEF PingUser, TypeOK, StoreTypeOK
  <2>3. StoreTypeOK'
    BY <1>13, <2>2 DEF PingUser, TypeOK, StoreTypeOK
  <2>4. ASSUME Move(s, "wait") PROVE ShellTypeOK'
    BY <2>1, <2>4, GotoType DEF Move, TypeOK, ShellTypeOK
  <2> QED
    BY <1>5, <1>13, <2>1, <2>3, <2>4 DEF PingUser
<1>14. CASE Wait(s)
  <2>1. pc[s] \in Serving /\ LoopHead(s, locked[s]) \in Serving
    BY <1>14, LoopHeadType DEF Wait, At, Serving
  <2>2. ASSUME Move(s, LoopHead(s, locked[s])) PROVE ShellTypeOK'
    BY <2>1, <2>2, GotoType DEF Move, TypeOK, ShellTypeOK
  <2> QED
    BY <1>4, <1>5, <1>14, <2>1, <2>2 DEF Wait
<1>15. CASE Disconnect(s)
  BY <1>4, <1>5, <1>15 DEF Disconnect, At, Serving
<1>16. ASSUME NEW seq \in Seq(Writes), End(s, seq), UNCHANGED <<db, locking, now>>
       PROVE  StoreTypeOK' /\ ShellTypeOK'
  BY <1>16, EndType DEF TypeOK, StoreTypeOK
<1>17. CASE EndTime(s)
  <2>1. pc[s] \in Leaving /\ "endUser" \in Leaving
    BY <1>17 DEF EndTime, At, Leaving
  <2>2. ASSUME Move(s, "endUser"), UNCHANGED storeVars PROVE StoreTypeOK' /\ ShellTypeOK'
    BY <1>4, <2>1, <2>2, GotoType DEF Move, TypeOK, ShellTypeOK
  <2> QED
    BY <1>3, <1>16, <1>17, <2>2 DEF EndTime, storeVars
<1>18. CASE EndUser(s)
  <2>1. board[s] \in Boards
    BY <1>1, <1>18 DEF EndUser, At, Leaving
  <2> QED
    BY <1>2, <1>3, <1>16, <1>18, <2>1 DEF EndUser
<1>19. CASE Kill(s)
  BY <1>3, <1>16, <1>19 DEF Kill
<1> QED
  BY <1>6, <1>7, <1>8, <1>9, <1>10, <1>11, <1>12, <1>13, <1>14, <1>15, <1>17,
     <1>18, <1>19

LEMMA ShellTypes ==
    ASSUME TypeOK, NEW s \in Shells, ShellActs(s)
    PROVE  StoreTypeOK' /\ ShellTypeOK'
<1>1. ASSUME Exec(s), UNCHANGED shellVars PROVE StoreTypeOK' /\ ShellTypeOK'
  BY <1>1, ExecTypes, ShellAssumption DEF TypeOK, ShellTypeOK, shellVars, localVars
<1> QED
  BY <1>1, AcquiringTypes, ServingTypes DEF ShellActs, ShellStep

-----------------------------------------------------------------------------
\* The steps of a run of checkboards.py.

LEMMA NextBoardType ==
    ASSUME TypeOK, NEW k \in Checkers, NEW rest \in SUBSET Boards, NextBoard(k, rest)
    PROVE  CheckTypeOK'
BY RelayAssumption DEF NextBoard, TypeOK, CheckTypeOK, Looking

LEMMA CGotoType ==
    ASSUME TypeOK, NEW k \in Checkers, cpc[k] \in Looking, NEW l \in Looking,
           CGoto(k, l), cmissing' \in [Checkers -> BOOLEAN],
           \A j \in Checkers \ {k} : cmissing'[j] = cmissing[j],
           l \in {"sessFail", "restart", "lockFail"} => cmissing'[k]
    PROVE  CheckTypeOK'
BY DEF CGoto, TypeOK, CheckTypeOK, Looking

LEMMA CheckTypes ==
    ASSUME TypeOK, NEW k \in Checkers,
           CheckStep(k) \/ Recover(k) \/ CronStart(k)
    PROVE  StoreTypeOK' /\ CheckTypeOK'
<1>1. ASSUME UNCHANGED storeVars PROVE StoreTypeOK'
  BY <1>1 DEF storeVars, TypeOK, StoreTypeOK
<1>2. ASSUME NEW seq \in Seq(Writes), Run(k, seq), UNCHANGED <<db, locking, now>>
      PROVE  StoreTypeOK'
  BY <1>2, RunType, CheckAssumption DEF TypeOK, StoreTypeOK
<1>3. ASSUME UNCHANGED script, UNCHANGED <<db, locking, now>> PROVE StoreTypeOK'
  BY <1>3 DEF TypeOK, StoreTypeOK
<1>4. ASSUME cpc[k] \in Looking
      PROVE  /\ cboard[k] \in Boards
             /\ unlock_board(cboard[k]) \in Seq(Writes)
             /\ FreeBoard(cboard[k]) \in Seq(Writes)
  <2>1. cboard[k] \in Boards
    BY <1>4 DEF TypeOK, CheckTypeOK
  <2>2. unlock_board(cboard[k]) \in Seq(Writes) /\ end_session(cboard[k]) \in Seq(Writes)
    BY <2>1 DEF unlock_board, end_session, Writes, Put, Del, Keys, PoolKeys, UserKeys,
               TimeKeys, Values, KeyType
  <2> QED
    BY <2>1, <2>2 DEF FreeBoard
<1>5. ctodo[k] \in SUBSET Boards
  BY DEF TypeOK, CheckTypeOK
<1>6. CASE CronStart(k)
  BY <1>1, <1>6, NextBoardType DEF CronStart
<1>0. CASE CheckTesting(k)
  <2>1. cmissing \in [Checkers -> BOOLEAN] /\ cpc[k] \in Looking /\ "available" \in Looking
    BY <1>0 DEF CheckTesting, CAt, Looking, TypeOK, CheckTypeOK
  <2>2. CASE NextBoard(k, ctodo[k])
    BY <1>0, <1>1, <1>5, <2>2, NextBoardType DEF CheckTesting
  <2>3. CASE CGoto(k, "available") /\ UNCHANGED cmissing
    BY <1>0, <1>1, <2>1, <2>3, CGotoType DEF CheckTesting
  <2> QED
    BY <1>0, <2>2, <2>3 DEF CheckTesting
<1>7. CASE CheckAvailable(k)
  BY <1>1, <1>7, CGotoType DEF CheckAvailable, CAt, Looking, TypeOK, CheckTypeOK
<1>8. ASSUME NEW l \in Looking, NEW key, NEW m \in Looking \ {"sessFail", "restart", "lockFail"},
             Need(k, l, key, m)
      PROVE  StoreTypeOK' /\ CheckTypeOK'
  <2>1. /\ cmissing' \in [Checkers -> BOOLEAN]
        /\ \A j \in Checkers \ {k} : cmissing'[j] = cmissing[j]
    BY <1>8 DEF Need, TypeOK, CheckTypeOK
  <2> QED
    BY <1>1, <1>8, <2>1, CGotoType DEF Need, CAt
<1>9. CASE CheckSessUser(k) \/ CheckSessStart(k) \/ CheckLockUser(k)
  BY <1>8, <1>9 DEF CheckSessUser, CheckSessStart, CheckLockUser, Looking
<1>10. CASE CheckSessPing(k)
  <2>1. cpc[k] \in Looking /\ "sessFail" \in Looking /\ "unlocked" \in Looking
    BY <1>10 DEF CheckSessPing, CAt, Looking
  <2>2. /\ cmissing' \in [Checkers -> BOOLEAN]
        /\ \A j \in Checkers \ {k} : cmissing'[j] = cmissing[j]
        /\ cmissing'[k] = (cmissing[k] \/ db["sessPing"][cboard[k]] = Nil)
    BY <1>10 DEF CheckSessPing, TypeOK, CheckTypeOK
  <2>3. StoreTypeOK'
    BY <1>2, <1>3, <1>4, <1>10, <2>1 DEF CheckSessPing
  <2>4. CASE CGoto(k, "unlocked")
    BY <2>1, <2>2, <2>3, <2>4, CGotoType
  <2>5. CASE CGoto(k, "sessFail") /\ (cmissing[k] \/ db["sessPing"][cboard[k]] = Nil)
    BY <2>1, <2>2, <2>3, <2>5, CGotoType
  <2> QED
    BY <1>10, <2>4, <2>5 DEF CheckSessPing
<1>11. CASE CheckSessFail(k)
  <2>1. /\ cpc[k] \in Looking /\ "restart" \in Looking /\ "unlocked" \in Looking
        /\ cmissing[k]
    BY <1>11 DEF CheckSessFail, CAt, Looking, TypeOK, CheckTypeOK
  <2>2. /\ cmissing' \in [Checkers -> BOOLEAN]
        /\ \A j \in Checkers \ {k} : cmissing'[j] = cmissing[j]
    BY <1>11 DEF CheckSessFail, Forget, TypeOK, CheckTypeOK
  <2>3. CASE CGoto(k, "unlocked") /\ Forget(k)
    BY <1>1, <1>11, <2>1, <2>2, <2>3, CGotoType DEF CheckSessFail
  <2>4. CASE CGoto(k, "restart") /\ UNCHANGED cmissing
    BY <1>1, <1>11, <2>1, <2>2, <2>4, CGotoType DEF CheckSessFail
  <2> QED
    BY <1>11, <2>3, <2>4 DEF CheckSessFail
<1>12. CASE Recover(k)
  <2>1. cpc[k] \in Looking /\ "unlocked" \in Looking
    BY <1>12 DEF Recover, CAt, Looking
  <2>2. /\ cmissing' \in [Checkers -> BOOLEAN]
        /\ \A j \in Checkers \ {k} : cmissing'[j] = cmissing[j]
    BY <1>12 DEF Recover, Forget, TypeOK, CheckTypeOK
  <2> QED
    BY <1>2, <1>4, <1>12, <2>1, <2>2, CGotoType DEF Recover
<1>13. CASE CheckUnlocked(k)
  <2>1. cpc[k] \in Looking /\ "lockUser" \in Looking
    BY <1>13 DEF CheckUnlocked, CAt, Looking
  <2>2. cmissing \in [Checkers -> BOOLEAN]
    BY DEF TypeOK, CheckTypeOK
  <2>3. CASE CGoto(k, "lockUser") /\ UNCHANGED cmissing
    BY <1>1, <1>13, <2>1, <2>2, <2>3, CGotoType DEF CheckUnlocked
  <2>4. CASE NextBoard(k, ctodo[k])
    BY <1>1, <1>5, <1>13, <2>4, NextBoardType DEF CheckUnlocked
  <2> QED
    BY <1>13, <2>3, <2>4 DEF CheckUnlocked
<1>14. CASE CheckLockTime(k)
  <2>1. cpc[k] \in Looking /\ "lockFail" \in Looking
    BY <1>14 DEF CheckLockTime, CAt, Looking
  <2>2. StoreTypeOK'
    BY <1>2, <1>3, <1>4, <1>14, <2>1 DEF CheckLockTime
  <2>3. CASE CGoto(k, "lockFail") /\ cmissing' = [cmissing EXCEPT ![k] = TRUE]
    <3>1. /\ cmissing' \in [Checkers -> BOOLEAN]
          /\ \A j \in Checkers \ {k} : cmissing'[j] = cmissing[j]
          /\ cmissing'[k]
      BY <2>3 DEF TypeOK, CheckTypeOK
    <3> QED
      BY <2>1, <2>2, <2>3, <3>1, CGotoType
  <2>4. CASE NextBoard(k, ctodo[k])
    BY <1>5, <2>2, <2>4, NextBoardType
  <2> QED
    BY <1>14, <2>3, <2>4 DEF CheckLockTime
<1>15. CASE CheckLockFail(k)
  <2>1. cpc[k] \in Looking
    BY <1>15 DEF CheckLockFail, CAt, Looking
  <2>2. StoreTypeOK'
    BY <1>2, <1>3, <1>4, <1>15, <2>1 DEF CheckLockFail
  <2> QED
    BY <1>5, <1>15, <2>2, NextBoardType DEF CheckLockFail
<1>16. CASE Exec(k) /\ UNCHANGED checkVars
  BY <1>16, ExecTypes, CheckAssumption DEF TypeOK, CheckTypeOK, checkVars
<1> QED
  BY <1>0, <1>6, <1>7, <1>9, <1>10, <1>11, <1>12, <1>13, <1>14, <1>15, <1>16 DEF CheckStep

-----------------------------------------------------------------------------
\* The steps of a run of testboards.py.

LEMMA NextTestType ==
    ASSUME TypeOK, NEW t \in Testers, NEW rest \in SUBSET Boards, NextTest(t, rest),
           running' \in {Nil} \cup Nat
    PROVE  TestTypeOK'
BY RelayAssumption DEF NextTest, TypeOK, TestTypeOK, Asking, Testing

LEMMA TGotoType ==
    ASSUME TypeOK, NEW t \in Testers,
           NEW l \in {"idle", "finish", "mark"} \cup Asking \cup Testing,
           l \in Asking \cup Testing => tpc[t] \in Asking \cup Testing,
           TGoto(t, l), taken' \in [Testers -> BOOLEAN], running' \in {Nil} \cup Nat
    PROVE  TestTypeOK'
BY DEF TGoto, TypeOK, TestTypeOK, Asking, Testing

LEMMA TestScriptTypes ==
    ASSUME NEW b \in Boards
    PROVE  /\ Unprogrammed(b) \in Seq(Writes)
           /\ Failed(b) \in Seq(Writes)
           /\ Passed(b) \in Seq(Writes)
<1>1. KeyType("hwStatus") = {Nil, Fail} /\ "hwStatus" \in Keys
  BY DEF KeyType, PoolKeys, UserKeys, TimeKeys, Keys
<1>2. KeyType("available") = {Nil, In} /\ KeyType("unlocked") = {Nil, In}
      /\ "available" \in Keys /\ "unlocked" \in Keys
  BY KeyTypes DEF PoolKeys
<1>3. "testing" \in Keys /\ Nil \in KeyType("testing")
  BY KeyTypes DEF TimeKeys
<1> QED
  BY <1>1, <1>2, <1>3, PutType DEF Unprogrammed, Failed, Passed, Del

LEMMA TestTypes ==
    ASSUME TypeOK, NEW t \in Testers, TestStep(t) \/ StartRun(t) \/ KillRun(t)
    PROVE  StoreTypeOK' /\ TestTypeOK'
<1>1. ASSUME UNCHANGED storeVars PROVE StoreTypeOK'
  BY <1>1 DEF storeVars, TypeOK, StoreTypeOK
<1>2. /\ ttodo[t] \in SUBSET Boards /\ running \in {Nil} \cup Nat /\ now \in Nat
      /\ taken \in [Testers -> BOOLEAN]
  BY DEF TypeOK, TestTypeOK, StoreTypeOK
<1>3. ASSUME tpc[t] \in Asking \cup Testing PROVE tboard[t] \in Boards
  BY <1>3 DEF TypeOK, TestTypeOK
<1>4. CASE StartRun(t)
  BY <1>1, <1>2, <1>4, TGotoType DEF StartRun, Asking, Testing
<1>5. CASE MarkRun(t)
  BY <1>1, <1>2, <1>5, NextTestType DEF MarkRun
<1>6. CASE AskSession(t)
  BY <1>1, <1>2, <1>6, TGotoType, NextTestType DEF AskSession, TAt, Asking
<1>7. CASE AskLock(t)
  BY <1>1, <1>2, <1>7, TGotoType, NextTestType DEF AskLock, TAt, Asking, Testing
<1>8. ASSUME NEW k \in PoolKeys, NEW l \in Testing, k \in Testing, Withdraw(t, k, l)
      PROVE  StoreTypeOK' /\ TestTypeOK'
  <2>1. tboard[t] \in Boards
    BY <1>3, <1>8 DEF Withdraw, TAt
  <2>2. DbTypeOK(db')
    BY <1>8, <2>1, RemoveType, KeyTypes DEF Withdraw, TypeOK, StoreTypeOK, DbTypeOK
  <2>3. taken' \in [Testers -> BOOLEAN]
    BY <1>2, <1>8 DEF Withdraw
  <2>4. TestTypeOK'
    BY <1>2, <1>8, <2>3, TGotoType DEF Withdraw, TAt
  <2> QED
    BY <1>8, <2>2, <2>4 DEF Withdraw, TypeOK, StoreTypeOK, DbTypeOK
<1>9. CASE WithdrawAvailable(t) \/ WithdrawUnlocked(t)
  BY <1>8, <1>9 DEF WithdrawAvailable, WithdrawUnlocked, PoolKeys, Testing
<1>10. CASE PrevStatus(t)
  BY <1>1, <1>2, <1>10, TGotoType, NextTestType DEF PrevStatus, TAt, Testing
<1>11. CASE SetFlag(t)
  <2>1. tboard[t] \in Boards
    BY <1>3, <1>11 DEF SetFlag, TAt, Testing
  <2>2. now \in KeyType("testing") /\ now \in Values /\ "testing" \in Keys
    BY <1>2, KeyTypes DEF TimeKeys, Values
  <2>3. DbTypeOK(db')
    BY <1>11, <2>1, <2>2 DEF SetFlag, TypeOK, StoreTypeOK, DbTypeOK
  <2>4. TestTypeOK'
    BY <1>2, <1>11, TGotoType DEF SetFlag, TAt, Testing
  <2> QED
    BY <1>11, <2>3, <2>4 DEF SetFlag, TypeOK, StoreTypeOK, DbTypeOK
<1>12. CASE Conclude(t)
  <2>1. tboard[t] \in Boards
    BY <1>3, <1>12 DEF Conclude, TAt, Testing
  <2>2. /\ Unprogrammed(tboard[t]) \in Seq(Writes)
        /\ Failed(tboard[t]) \in Seq(Writes)
        /\ Passed(tboard[t]) \in Seq(Writes)
    BY <2>1, TestScriptTypes
  <2>3. script' \in [Procs -> Seq(Writes)]
    BY <1>12, <2>2, RunType, TestAssumption DEF Conclude, TypeOK
  <2>4. TestTypeOK'
    BY <1>2, <1>12, NextTestType DEF Conclude
  <2> QED
    BY <1>12, <2>3, <2>4 DEF Conclude, TypeOK, StoreTypeOK
<1>13. CASE FinishRun(t)
  BY <1>1, <1>2, <1>13, TGotoType DEF FinishRun, Asking, Testing
<1>14. CASE KillRun(t)
  <2>1. script' \in [Procs -> Seq(Writes)]
    <3>1. <<>> \in Seq(Writes)
      OBVIOUS
    <3> QED
      BY <1>14, <3>1, RunType, TestAssumption DEF KillRun, TypeOK
  <2>2. TestTypeOK'
    BY <1>14 DEF KillRun, TypeOK, TestTypeOK, Asking, Testing
  <2> QED
    BY <1>14, <2>1, <2>2 DEF KillRun, TypeOK, StoreTypeOK
<1>15. CASE Exec(t) /\ UNCHANGED testVars
  BY <1>15, ExecTypes, TestAssumption DEF TypeOK, TestTypeOK, testVars
<1> QED
  BY <1>4, <1>5, <1>6, <1>7, <1>9, <1>10, <1>11, <1>12, <1>13, <1>14, <1>15 DEF TestStep

LEMMA TypeStep == TypeOK /\ [Next]_vars => TypeOK'
<1> SUFFICES ASSUME TypeOK, [Next]_vars PROVE TypeOK'
  OBVIOUS
<1>1. CASE UNCHANGED vars
  BY <1>1 DEF vars, storeVars, shellVars, localVars, checkVars, testVars, TypeOK,
              StoreTypeOK, ShellTypeOK, CheckTypeOK, TestTypeOK
<1>2. ASSUME Observe PROVE calm' \in SUBSET Shells /\ sound' \in SUBSET Testers
  BY <1>2 DEF Observe
<1>3. ASSUME UNCHANGED shellVars PROVE ShellTypeOK'
  BY <1>3 DEF shellVars, localVars, TypeOK, ShellTypeOK
<1>4. ASSUME UNCHANGED checkVars PROVE CheckTypeOK'
  BY <1>4 DEF checkVars, TypeOK, CheckTypeOK
<1>0. ASSUME UNCHANGED testVars PROVE TestTypeOK'
  BY <1>0 DEF testVars, TypeOK, TestTypeOK
<1>5. CASE Tick /\ Observe
  <2>1. StoreTypeOK'
    BY <1>5 DEF Tick, TypeOK, StoreTypeOK
  <2> QED
    BY <1>0, <1>2, <1>3, <1>4, <1>5, <2>1 DEF Tick, TypeOK
<1>6. CASE Expiry /\ Observe
  <2>1. StoreTypeOK'
    BY <1>6 DEF Expiry, LockingExpires, DeleteLocking, TypeOK, StoreTypeOK
  <2> QED
    BY <1>0, <1>2, <1>3, <1>4, <1>6, <2>1 DEF Expiry, TypeOK
<1>7. ASSUME NEW s \in Shells, ShellRuns(s) \/ UserActs(s), Observe PROVE TypeOK'
  BY <1>0, <1>2, <1>4, <1>7, ShellTypes DEF ShellRuns, UserActs, ShellActs, TypeOK
<1>8. ASSUME NEW k \in Checkers, CheckRuns(k) \/ CronActs(k), Observe PROVE TypeOK'
  <2>1. ShellTypeOK'
    <3>1. CASE UNCHANGED shellVars
      BY <1>3, <3>1
    <3>2. CASE RestartContainer(cboard[k]) /\ UNCHANGED localVars
      BY <3>2 DEF RestartContainer, localVars, TypeOK, ShellTypeOK
    <3> QED
      BY <1>8, <3>1, <3>2 DEF CheckRuns, CronActs
  <2> QED
    BY <1>0, <1>2, <1>8, <2>1, CheckTypes DEF CheckRuns, CronActs, TypeOK
<1>9. ASSUME NEW t \in Testers, TestRuns(t) \/ AdminActs(t), Observe PROVE TypeOK'
  BY <1>2, <1>3, <1>4, <1>9, TestTypes DEF TestRuns, AdminActs, TypeOK
<1> QED
  BY <1>1, <1>5, <1>6, <1>7, <1>8, <1>9 DEF Next

LEMMA InitTypeOK == Init => TypeOK
<1> SUFFICES ASSUME Init PROVE TypeOK
  OBVIOUS
<1>1. StoreTypeOK
  BY InitTypes DEF Init
<1>2. ShellTypeOK
  BY DEF Init, ShellInit, ShellTypeOK, Serving, Leaving
<1>3. CheckTypeOK
  BY DEF Init, CheckInit, CheckTypeOK, Looking
<1>4. TestTypeOK
  BY DEF Init, TestInit, TestTypeOK, Asking, Testing
<1> QED
  BY <1>1, <1>2, <1>3, <1>4 DEF Init, TypeOK

\* TypeOK holds in every reachable state.
THEOREM TypeCorrect == Spec => []TypeOK
BY InitTypeOK, TypeStep, PTL DEF Spec
====
