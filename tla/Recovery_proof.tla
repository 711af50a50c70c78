---- MODULE Recovery_proof ----
(***************************************************************************)
(* Boards that come back, for any number of users, connections, boards and *)
(* overlapping runs of checkboards.py.  What a run has done with is        *)
(* settled, whatever was in the keys of the board, as long as nobody else  *)
(* writes to it (TendInv); and the types of the relay whose boards come    *)
(* and go (HotPlug.tla).                                                   *)
(***************************************************************************)
EXTENDS Recovery, HotPlug, Lease_proof

-----------------------------------------------------------------------------
(* The invariant *)

\* The two halves of Settled.
AvailOK(b, t) == db["hwStatus"][b] = Fail \/ db["available"][b] = In \/ InSession(b, t)
LockOK(b, t)  == db["hwStatus"][b] = Fail \/ db["unlocked"][b] = In \/ Locked(b, t)

UnlockWrites(b) == {Del("lockUser", b), Del("lockTime", b), Put("unlocked", b, In)}
FreeWrites(b)   == UnlockWrites(b) \cup
                   {Del("sessUser", b), Del("sessStart", b), Del("sessPing", b),
                    Put("available", b, In)}

\* Of the writes W, k has made some and has the others ahead, and nothing else.
Due(k, W) == /\ \A i \in DOMAIN script[k] : script[k][i] \in W
             /\ \A w \in W : \/ db[w.key][w.board] = w.val
                             \/ \E i \in DOMAIN script[k] : script[k][i] = w

\* k has come to b and has not gone on yet.
Attending(k, b) == cboard[k] = b /\ cpc[k] \in Looking \ {"testing"}

\* What k has seen and done when it is at some point of its look at b.
Seen(k, b, t) ==
    /\ cpc[k] # "unlocked" => Ready(k)
    /\ cpc[k] \in {"available", "sessUser", "unlocked", "lockUser"} => ~cmissing[k]
    /\ cpc[k] \in {"sessStart", "sessPing"} => cmissing[k] \/ db["sessUser"][b] # Nil
    /\ cpc[k] = "sessPing" => cmissing[k] \/ db["sessStart"][b] # Nil
    /\ cpc[k] = "unlocked" => (Ready(k) /\ AvailOK(b, t)) \/ Due(k, FreeWrites(b))
    /\ cpc[k] \in {"lockUser", "lockTime", "lockFail"} => AvailOK(b, t)
    /\ cpc[k] = "lockTime" => cmissing[k] \/ db["lockUser"][b] # Nil

\* It has gone on, but may still have to unlock b.
Left(k, b, t) == /\ AvailOK(b, t)
                 /\ (LockOK(b, t) /\ ~WritesTo(k, b)) \/ Due(k, UnlockWrites(b))

Good(k, b, t) == IF Attending(k, b) THEN Seen(k, b, t) ELSE Left(k, b, t)

TendInv == /\ \A k \in Checkers : cpc[k] = "testing" => ~cmissing[k]
           /\ tended \in [Boards -> {Nil} \cup [by : Checkers, since : Nat]]
           /\ \A b \in Boards, k \in Checkers, t \in Nat :
                 Tended(b) /\ tended[b] = [by |-> k, since |-> t] => t =< now /\ Good(k, b, t)

-----------------------------------------------------------------------------
(* Writes that are due *)

\* What the writes of a set are to.
LEMMA FreeKeys ==
    ASSUME NEW b
    PROVE  /\ UnlockWrites(b) \subseteq FreeWrites(b)
           /\ \A w \in FreeWrites(b) : w.key \in Keys /\ w.board = b
           /\ \A v, w \in FreeWrites(b) : v.key = w.key => v = w
           /\ \A w \in UnlockWrites(b) : w.key \in {"lockUser", "lockTime", "unlocked"}
BY DEF UnlockWrites, FreeWrites, Put, Del, Keys, PoolKeys, UserKeys, TimeKeys

LEMMA FreeSession ==
    ASSUME NEW b
    PROVE  /\ \A i \in DOMAIN FreeBoard(b) : FreeBoard(b)[i] \in FreeWrites(b)
           /\ \A w \in FreeWrites(b) : \E i \in DOMAIN FreeBoard(b) : FreeBoard(b)[i] = w
           /\ \A i \in DOMAIN unlock_board(b) : unlock_board(b)[i] \in UnlockWrites(b)
           /\ \A w \in UnlockWrites(b) : \E i \in DOMAIN unlock_board(b) : unlock_board(b)[i] = w
<1> DEFINE seq == FreeBoard(b)
           u == unlock_board(b)
<1>1. seq = <<Del("lockUser", b), Del("lockTime", b), Put("unlocked", b, In),
              Del("sessUser", b), Del("sessStart", b), Del("sessPing", b),
              Put("available", b, In)>>
  BY Concat34 DEF FreeBoard, unlock_board, end_session
<1>2. DOMAIN seq = 1..7
  BY <1>1
<1>3. \A i \in 1..7 : seq[i] \in FreeWrites(b)
  BY <1>1 DEF FreeWrites, UnlockWrites
<1>4. \A w \in FreeWrites(b) : \E i \in 1..7 : seq[i] = w
  BY <1>1 DEF FreeWrites, UnlockWrites
<1>5. u = <<Del("lockUser", b), Del("lockTime", b), Put("unlocked", b, In)>>
  BY DEF unlock_board
<1>6. DOMAIN u = 1..3
  BY <1>5
<1>7. \A i \in 1..3 : u[i] \in UnlockWrites(b)
  BY <1>5 DEF UnlockWrites
<1>8. \A w \in UnlockWrites(b) : \E i \in 1..3 : u[i] = w
  BY <1>5 DEF UnlockWrites
<1> QED
  BY <1>2, <1>3, <1>4, <1>6, <1>7, <1>8

\* Once k has none of its own writes to b ahead, they have had their effect.
LEMMA DueDone ==
    ASSUME NEW k, NEW b, NEW W \in SUBSET FreeWrites(b), Due(k, W),
           ~WritesTo(k, b) \/ DOMAIN script[k] = {}
    PROVE  \A w \in W : db[w.key][b] = w.val
<1>1. \A w \in W : w.board = b
  BY FreeKeys
<1>2. DOMAIN script[k] = {}
  BY <1>1 DEF Due, WritesTo
<1> QED
  BY <1>1, <1>2 DEF Due

\* The next write of k leaves the keys alone that W has no write to.
LEMMA DueExec ==
    ASSUME TypeOK, NEW k \in Procs, NEW b \in Boards, NEW W \in SUBSET FreeWrites(b),
           Due(k, W), Exec(k)
    PROVE  /\ Due(k, W)'
           /\ \A key \in Keys : (\A w \in W : w.key # key) => db'[key][b] = db[key][b]
<1> DEFINE v == script[k][1]
<1>1. StoreTypeOK
  BY DEF TypeOK
<1>2. /\ v \in Writes /\ 1 \in DOMAIN script[k]
      /\ DOMAIN script[k] = 1..Len(script[k])
      /\ db' = [db EXCEPT ![v.key][v.board] = v.val]
      /\ DOMAIN script'[k] = 1..(Len(script[k]) - 1)
      /\ \A i \in DOMAIN script'[k] : /\ i + 1 \in DOMAIN script[k]
                                      /\ script'[k][i] = script[k][i + 1]
  BY <1>1, ExecEffect
<1>3. v \in W /\ v.board = b /\ v.key \in Keys
  BY <1>2, FreeKeys DEF Due
<1>4. /\ db'[v.key][b] = v.val
      /\ \A key \in Keys : key # v.key => db'[key][b] = db[key][b]
  <2> HIDE DEF v
  <2> QED
    BY <1>1, <1>2, <1>3 DEF StoreTypeOK
<1>5. ASSUME NEW w \in W
      PROVE  \/ db'[w.key][w.board] = w.val
             \/ \E i \in DOMAIN script'[k] : script'[k][i] = w
  <2>1. w.key \in Keys /\ w.board = b
    BY FreeKeys
  <2>2. CASE w = v
    BY <1>3, <1>4, <2>2
  <2>3. CASE w # v /\ db[w.key][w.board] = w.val
    <3>1. w.key # v.key
      BY <1>3, <2>3, FreeKeys
    <3> QED
      BY <1>4, <2>1, <2>3, <3>1
  <2>4. ASSUME NEW i \in DOMAIN script[k], script[k][i] = w, w # v
        PROVE  \E j \in DOMAIN script'[k] : script'[k][j] = w
    <3>1. i # 1 /\ i \in 1..Len(script[k]) /\ Len(script[k]) \in Nat
      BY <1>1, <1>2, <2>4 DEF StoreTypeOK
    <3>2. i - 1 \in 1..(Len(script[k]) - 1) /\ (i - 1) + 1 = i
      BY <3>1
    <3> QED
      BY <1>2, <2>4, <3>2
  <2> QED
    BY <2>2, <2>3, <2>4 DEF Due
<1>6. \A i \in DOMAIN script'[k] : script'[k][i] \in W
  BY <1>2 DEF Due
<1>7. Due(k, W)'
  BY <1>5, <1>6 DEF Due
<1> QED
  BY <1>3, <1>4, <1>7

-----------------------------------------------------------------------------
(* What a step of a run means for its board, and for the others *)

CheckActs(k) == CheckStep(k) \/ Recover(k) \/ CronStart(k)

\* The other runs do not notice.
LEMMA OtherChecker ==
    ASSUME TypeOK, NEW k \in Checkers, CheckActs(k), NEW j \in Checkers \ {k}
    PROVE  /\ cpc'[j] = cpc[j] /\ cboard'[j] = cboard[j] /\ cmissing'[j] = cmissing[j]
           /\ script'[j] = script[j]
<1>1. k \in Procs /\ j \in Procs /\ StoreTypeOK
  BY CheckAssumption DEF TypeOK
<1>2. script'[j] = script[j] /\ cboard'[j] = cboard[j] /\ cmissing'[j] = cmissing[j]
  <2>1. CASE Exec(k) /\ UNCHANGED checkVars
    BY <1>1, <2>1, ExecEffect DEF checkVars
  <2>2. CASE Decides(k)
    BY <1>1, <2>2 DEF Decides, Run, StoreTypeOK
  <2> QED
    BY <2>1, <2>2, CheckForms DEF CheckActs
<1>3. cpc'[j] = cpc[j]
  BY DEF CheckActs, CheckStep, Recover, CronStart, CheckTesting, CheckAvailable, CheckSessUser,
         CheckSessStart, CheckSessPing, CheckSessFail, CheckUnlocked, CheckLockUser,
         CheckLockTime, CheckLockFail, Need, CGoto, NextBoard, checkVars, TypeOK, CheckTypeOK
<1> QED
  BY <1>2, <1>3

\* k goes on to its next board, and b is not a board it is at any more.
LEMMA NextAway ==
    ASSUME TypeOK, NEW k \in Checkers, NEW rest, NextBoard(k, rest), NEW b
    PROVE  ~Attending(k, b)' /\ (cpc'[k] = "testing" => ~cmissing'[k])
BY DEF NextBoard, Attending, Looking, TypeOK, CheckTypeOK

\* k stays at its board.
LEMMA GotoStays ==
    ASSUME TypeOK, NEW k \in Checkers, NEW l, CGoto(k, l)
    PROVE  cpc'[k] = l /\ cboard'[k] = cboard[k]
BY DEF CGoto, TypeOK, CheckTypeOK

\* The first reply, and the only step that comes to the keys of a board.
LEMMA AttendsForm ==
    ASSUME TypeOK, NEW k \in Checkers, CheckActs(k), cpc[k] = "testing", cpc'[k] = "available"
    PROVE  /\ Ready(k) /\ UNCHANGED <<db, script, now, cboard, cmissing>>
<1>1. CheckTesting(k)
  BY GotoStays DEF CheckActs, CheckStep, Recover, CronStart, CheckTesting, CheckAvailable,
         CheckSessUser, CheckSessStart, CheckSessPing, CheckSessFail, CheckUnlocked, CheckLockUser,
         CheckLockTime, CheckLockFail, Need, CAt, checkVars
<1>2. \A rest : NextBoard(k, rest) => cpc'[k] # "available"
  BY DEF NextBoard, TypeOK, CheckTypeOK
<1> QED
  BY <1>1, <1>2 DEF CheckTesting, CAt, CGoto, storeVars

\* A run that is not at b writes nothing to b, and does not get to its keys but by
\* the first reply.
LEMMA StaysAway ==
    ASSUME TypeOK, NEW k \in Checkers, NEW b \in Boards, CheckActs(k), ~Exec(k),
           ~Attending(k, b), ~Attends(k, b), ~WritesTo(k, b)
    PROVE  /\ ~Attending(k, b)' /\ ~WritesTo(k, b)'
           /\ UNCHANGED <<db, now>>
<1>1. Decides(k) /\ now' = now /\ k \in Procs
  BY CheckForms, CheckAssumption DEF CheckActs
<1>2. UNCHANGED <<db, now>>
  BY <1>1 DEF Decides
<1>3. CASE cboard[k] # b
  <2>1. ~WritesTo(k, b)'
    BY <1>1, <1>3 DEF Decides, Run, Only, WritesTo, TypeOK, StoreTypeOK
  <2>2. ~Attending(k, b)'
    <3>1. cboard'[k] = cboard[k] \/ \E rest : NextBoard(k, rest)
      BY DEF CheckActs, CheckStep, Recover, CronStart, CheckTesting, CheckAvailable, CheckSessUser,
             CheckSessStart, CheckSessPing, CheckSessFail, CheckUnlocked, CheckLockUser,
             CheckLockTime, CheckLockFail, Need, CGoto
    <3> QED
      BY <1>3, <3>1, NextAway DEF Attending
  <2> QED
    BY <1>2, <2>1, <2>2
<1>4. CASE cboard[k] = b
  <2>1. cpc[k] \in {"idle", "testing"}
    BY <1>4 DEF Attending, TypeOK, CheckTypeOK
  <2>2. CronStart(k) \/ CheckTesting(k)
    BY <2>1 DEF CheckActs, CheckStep, Recover, CronStart, CheckTesting, CheckAvailable,
         CheckSessUser, CheckSessStart, CheckSessPing, CheckSessFail, CheckUnlocked, CheckLockUser,
         CheckLockTime, CheckLockFail, Need, CAt
  <2>3. ASSUME CGoto(k, "available"), CAt(k, "testing") PROVE FALSE
    BY <1>4, <2>3, GotoStays DEF Attends, CAt
  <2>4. (\E rest : NextBoard(k, rest)) /\ UNCHANGED script
    BY <2>2, <2>3 DEF CronStart, CheckTesting, storeVars
  <2>5. ~WritesTo(k, b)'
    BY <2>4 DEF WritesTo
  <2> QED
    BY <1>2, <2>4, <2>5, NextAway
<1> QED
  BY <1>3, <1>4

\* What Good says of the keys of b and of k is all it depends on.
LEMMA GoodFrame ==
    ASSUME NEW k \in Checkers, NEW b \in Boards, NEW t, Good(k, b, t),
           cpc'[k] = cpc[k], cboard'[k] = cboard[k], cmissing'[k] = cmissing[k],
           script'[k] = script[k], \A key \in Keys : db'[key][b] = db[key][b]
    PROVE  Good(k, b, t)'
<1>1. /\ AvailOK(b, t)' <=> AvailOK(b, t)
      /\ LockOK(b, t)' <=> LockOK(b, t)
  BY DEF AvailOK, LockOK, InSession, Locked, Keys, PoolKeys, UserKeys, TimeKeys
<1>2. ASSUME NEW W \in SUBSET FreeWrites(b), Due(k, W) PROVE Due(k, W)'
  <2>1. \A w \in W : db'[w.key][w.board] = db[w.key][w.board]
    BY FreeKeys
  <2> QED
    BY <1>2, <2>1 DEF Due
<1>3. db'["sessUser"][b] = db["sessUser"][b] /\ db'["sessStart"][b] = db["sessStart"][b]
      /\ db'["lockUser"][b] = db["lockUser"][b]
  BY DEF Keys, UserKeys, TimeKeys
<1>4. Left(k, b, t) => Left(k, b, t)'
  BY <1>1, <1>2, FreeKeys DEF Left, WritesTo
<1>5. Seen(k, b, t) => Seen(k, b, t)'
  BY <1>1, <1>2, <1>3 DEF Seen, Ready
<1> QED
  BY <1>4, <1>5 DEF Good, Attending

\* k makes its next write, to b or to another board.
LEMMA GoodExec ==
    ASSUME TypeOK, NEW k \in Checkers, NEW b \in Boards, NEW t \in Nat, Good(k, b, t),
           Exec(k), UNCHANGED checkVars
    PROVE  Good(k, b, t)'
<1>1. k \in Procs /\ ~Ready(k) /\ UNCHANGED <<cpc, cboard, cmissing>>
  BY CheckAssumption DEF Exec, checkVars
<1>2. CASE Attending(k, b)
  <2>1. cpc[k] = "unlocked" /\ Due(k, FreeWrites(b)) /\ ~cmissing[k]
    BY <1>1, <1>2 DEF Good, Seen
  <2>2. Due(k, FreeWrites(b))'
    BY <1>1, <2>1, DueExec
  <2> QED
    BY <1>1, <1>2, <2>1, <2>2 DEF Good, Attending, Seen
<1>3. CASE ~Attending(k, b)
  <2>1. Left(k, b, t) /\ ~Attending(k, b)'
    BY <1>1, <1>3 DEF Good, Attending
  <2>2. CASE Due(k, UnlockWrites(b))
    <3>1. /\ Due(k, UnlockWrites(b))'
          /\ \A key \in Keys \ {"lockUser", "lockTime", "unlocked"} : db'[key][b] = db[key][b]
      BY <1>1, <2>2, FreeKeys, DueExec
    <3>2. AvailOK(b, t)'
      BY <2>1, <3>1 DEF Left, AvailOK, InSession, Keys, PoolKeys, UserKeys, TimeKeys
    <3> QED
      BY <2>1, <3>1, <3>2 DEF Good, Left
  <2>3. CASE LockOK(b, t) /\ ~WritesTo(k, b)
    <3>1. ~WritesTo(k, b)' /\ \A key \in Keys : db'[key][b] = db[key][b]
      BY <1>1, <2>3, ExecElsewhere
    <3>2. AvailOK(b, t)' /\ LockOK(b, t)'
      BY <2>1, <2>3, <3>1 DEF Left, AvailOK, LockOK, InSession, Locked, Keys, PoolKeys, UserKeys,
                              TimeKeys
    <3> QED
      BY <2>1, <3>1, <3>2 DEF Good, Left
  <2> QED
    BY <2>1, <2>2, <2>3 DEF Left
<1> QED
  BY <1>2, <1>3

\* k reads a key of b, decides, or goes on.
LEMMA GoodLook ==
    ASSUME TypeOK, NEW k \in Checkers, NEW b \in Boards, NEW t \in Nat, t =< now,
           Attending(k, b), Seen(k, b, t), CheckActs(k), ~Exec(k)
    PROVE  Good(k, b, t)'
<1>1. /\ k \in Procs /\ now \in Nat /\ PingTimeout \in Nat /\ MaxLockTime \in Nat
      /\ cmissing[k] \in BOOLEAN /\ cmissing \in [Checkers -> BOOLEAN]
      /\ script \in [Procs -> Seq(Writes)]
      /\ \A key \in TimeKeys : db[key][b] \in Nat \cup {Nil}
  BY CheckAssumption, StoreAssumption, KeyTypes DEF TypeOK, StoreTypeOK, CheckTypeOK, Keys, KeyType,
     PoolKeys, UserKeys, TimeKeys
<1>2. cboard[k] = b /\ cpc[k] \in Looking \ {"testing"}
  BY DEF Attending
<1>3. ASSUME NEW l \in Looking \ {"testing"}, CGoto(k, l)
      PROVE  Attending(k, b)' /\ cpc'[k] = l
  BY <1>2, <1>3, GotoStays DEF Attending
<1>4. UNCHANGED <<db, now>>
  BY CheckForms DEF CheckActs, Decides
<1>5. /\ AvailOK(b, t)' <=> AvailOK(b, t)
      /\ LockOK(b, t)' <=> LockOK(b, t)
  BY <1>4 DEF AvailOK, LockOK, InSession, Locked
<1>6. ASSUME NEW key \in {"sessPing", "lockTime"}, NEW limit \in Nat, db[key][b] # Nil,
             ~TooOld(key, b, limit)
      PROVE  t - db[key][b] =< limit
  <2>1. db[key][b] \in Nat
    BY <1>1, <1>6 DEF TimeKeys
  <2> QED
    BY <1>1, <1>6, <2>1 DEF TooOld
<1>7. CASE CheckAvailable(k)
  <2>1. Ready(k)' /\ cmissing'[k] = cmissing[k] /\ cpc[k] = "available" /\ Ready(k)
    BY <1>7 DEF CheckAvailable, storeVars, Ready, CAt
  <2>2. ~cmissing'[k]
    BY <2>1 DEF Seen
  <2>3. CASE db["available"][b] = Nil
    BY <1>2, <1>3, <1>7, <2>1, <2>2, <2>3 DEF CheckAvailable, Good, Seen, Looking
  <2>4. CASE db["available"][b] # Nil
    <3>1. db["available"][b] = In
      BY <2>4, KeyTypes DEF TypeOK, StoreTypeOK, Keys, PoolKeys
    <3>2. AvailOK(b, t)'
      BY <1>5, <3>1 DEF AvailOK
    <3> QED
      BY <1>2, <1>3, <1>7, <2>1, <2>2, <2>4, <3>2 DEF CheckAvailable, Good, Seen, Looking
  <2> QED
    BY <2>3, <2>4
<1>8. ASSUME NEW l, NEW key, NEW next \in Looking \ {"testing"}, Need(k, l, key, next)
      PROVE  /\ Attending(k, b)' /\ cpc'[k] = next /\ cpc[k] = l
             /\ Ready(k) /\ Ready(k)'
             /\ cmissing'[k] = (cmissing[k] \/ db[key][b] = Nil)
  BY <1>1, <1>2, <1>3, <1>8 DEF Need, CAt, storeVars, Ready
<1>9. CASE CheckSessUser(k)
  <2>1. Need(k, "sessUser", "sessUser", "sessStart") /\ "sessStart" \in Looking \ {"testing"}
    BY <1>9 DEF CheckSessUser, Looking
  <2>2. /\ Attending(k, b)' /\ cpc'[k] = "sessStart" /\ cpc[k] = "sessUser" /\ Ready(k)'
        /\ cmissing'[k] = (cmissing[k] \/ db["sessUser"][b] = Nil)
    BY <1>8, <2>1, Zenon
  <2> QED
    BY <1>1, <1>4, <2>2 DEF Good, Seen
<1>10. CASE CheckSessStart(k)
  <2>1. Need(k, "sessStart", "sessStart", "sessPing") /\ "sessPing" \in Looking \ {"testing"}
    BY <1>10 DEF CheckSessStart, Looking
  <2>2. /\ Attending(k, b)' /\ cpc'[k] = "sessPing" /\ cpc[k] = "sessStart" /\ Ready(k)'
        /\ cmissing'[k] = (cmissing[k] \/ db["sessStart"][b] = Nil)
    BY <1>8, <2>1, Zenon
  <2> QED
    BY <1>1, <1>4, <2>2 DEF Good, Seen
<1>11. CASE CheckLockUser(k)
  <2>1. Need(k, "lockUser", "lockUser", "lockTime") /\ "lockTime" \in Looking \ {"testing"}
    BY <1>11 DEF CheckLockUser, Looking
  <2>2. /\ Attending(k, b)' /\ cpc'[k] = "lockTime" /\ cpc[k] = "lockUser" /\ Ready(k)'
        /\ cmissing'[k] = (cmissing[k] \/ db["lockUser"][b] = Nil)
    BY <1>8, <2>1, Zenon
  <2> QED
    BY <1>1, <1>4, <1>5, <2>2 DEF Good, Seen
<1>12. ASSUME Run(k, FreeBoard(b)) PROVE Due(k, FreeWrites(b))'
  <2>1. script'[k] = FreeBoard(b)
    BY <1>1, <1>12 DEF Run
  <2>2. \A w \in FreeWrites(b) : \E i \in DOMAIN script'[k] : script'[k][i] = w
    BY <2>1, FreeSession
  <2>3. \A i \in DOMAIN script'[k] : script'[k][i] \in FreeWrites(b)
    BY <2>1, FreeSession
  <2> QED
    BY <2>2, <2>3 DEF Due
<1>13. ASSUME Run(k, unlock_board(b)) PROVE Due(k, UnlockWrites(b))'
  <2>1. script'[k] = unlock_board(b)
    BY <1>1, <1>13 DEF Run
  <2>2. \A w \in UnlockWrites(b) : \E i \in DOMAIN script'[k] : script'[k][i] = w
    BY <2>1, FreeSession
  <2>3. \A i \in DOMAIN script'[k] : script'[k][i] \in UnlockWrites(b)
    BY <2>1, FreeSession
  <2> QED
    BY <2>2, <2>3 DEF Due
<1>14. CASE CheckSessPing(k)
  <2> DEFINE missing == cmissing[k] \/ db["sessPing"][b] = Nil
  <2>1. /\ cpc[k] = "sessPing" /\ Ready(k)
        /\ cmissing'[k] = missing
    BY <1>1, <1>2, <1>14 DEF CheckSessPing, CAt
  <2>2. CASE missing /\ CGoto(k, "sessFail") /\ UNCHANGED script
    <3>1. Attending(k, b)' /\ cpc'[k] = "sessFail" /\ Ready(k)'
      BY <1>3, <2>1, <2>2 DEF Looking, Ready
    <3> QED
      BY <3>1 DEF Good, Seen
  <2>3. CASE ~missing /\ Run(k, FreeBoard(b)) /\ CGoto(k, "unlocked")
    <3>1. Attending(k, b)' /\ cpc'[k] = "unlocked" /\ ~cmissing'[k]
      BY <1>3, <2>1, <2>3 DEF Looking
    <3> QED
      BY <3>1, <2>3, <1>12 DEF Good, Seen
  <2>4. CASE /\ ~missing /\ ~TooOld("sessPing", b, PingTimeout)
             /\ CGoto(k, "unlocked") /\ UNCHANGED script
    <3>1. Attending(k, b)' /\ cpc'[k] = "unlocked" /\ ~cmissing'[k] /\ Ready(k)'
      BY <1>3, <2>1, <2>4 DEF Looking, Ready
    <3>2. t - db["sessPing"][b] =< PingTimeout
      BY <1>1, <1>6, <2>4
    <3>3. AvailOK(b, t)
      BY <2>1, <2>4, <3>2 DEF Seen, AvailOK, InSession
    <3> QED
      BY <1>5, <3>1, <3>3 DEF Good, Seen
  <2> QED
    BY <1>2, <1>14, <2>2, <2>3, <2>4 DEF CheckSessPing
<1>15. CASE CheckSessFail(k)
  <2>1. cpc[k] = "sessFail" /\ Ready(k) /\ Ready(k)'
    BY <1>15 DEF CheckSessFail, CAt, storeVars, Ready
  <2>2. CASE db["hwStatus"][b] = Fail
    <3>1. Attending(k, b)' /\ cpc'[k] = "unlocked" /\ ~cmissing'[k]
      BY <1>1, <1>2, <1>3, <1>15, <2>2 DEF CheckSessFail, Forget, Looking
    <3>2. AvailOK(b, t)'
      BY <1>5, <2>2 DEF AvailOK
    <3> QED
      BY <2>1, <3>1, <3>2 DEF Good, Seen
  <2>3. CASE db["hwStatus"][b] # Fail
    <3>1. Attending(k, b)' /\ cpc'[k] = "restart"
      BY <1>2, <1>3, <1>15, <2>3 DEF CheckSessFail, Looking
    <3> QED
      BY <2>1, <3>1 DEF Good, Seen
  <2> QED
    BY <2>2, <2>3
<1>16. CASE Recover(k)
  <2>1. Attending(k, b)' /\ cpc'[k] = "unlocked" /\ ~cmissing'[k]
    BY <1>1, <1>2, <1>3, <1>16 DEF Recover, Forget, Looking
  <2>2. Due(k, FreeWrites(b))'
    BY <1>2, <1>12, <1>16 DEF Recover
  <2> QED
    BY <2>1, <2>2 DEF Good, Seen
<1>17. CASE CheckUnlocked(k)
  <2>1. cpc[k] = "unlocked" /\ Ready(k) /\ script'[k] = script[k]
    BY <1>17 DEF CheckUnlocked, CAt, storeVars
  <2>2. DOMAIN script[k] = {}
    BY <2>1 DEF Ready
  <2>3. AvailOK(b, t)
    <3>1. CASE Due(k, FreeWrites(b))
      <4>1. Put("available", b, In) \in FreeWrites(b)
        BY DEF FreeWrites
      <4>2. \A w \in FreeWrites(b) : db[w.key][w.board] = w.val
        BY <2>2, <3>1 DEF Due
      <4>3. db["available"][b] = In
        BY <4>1, <4>2 DEF Put
      <4> QED
        BY <4>3 DEF AvailOK
    <3> QED
      BY <2>1, <3>1 DEF Seen
  <2>4. CASE db["unlocked"][b] = Nil
    <3>1. Attending(k, b)' /\ cpc'[k] = "lockUser" /\ cmissing'[k] = cmissing[k] /\ Ready(k)'
      BY <1>2, <1>3, <1>17, <2>1, <2>4 DEF CheckUnlocked, Looking, Ready
    <3>2. ~cmissing[k]
      BY <2>1 DEF Seen
    <3> QED
      BY <1>5, <2>3, <3>1, <3>2 DEF Good, Seen
  <2>5. CASE db["unlocked"][b] # Nil
    <3>1. ~Attending(k, b)'
      BY <1>2, <1>17, <2>5, NextAway DEF CheckUnlocked
    <3>2. db["unlocked"][b] = In
      BY <2>5, KeyTypes DEF TypeOK, StoreTypeOK, Keys, PoolKeys
    <3>3. LockOK(b, t)
      BY <3>2 DEF LockOK
    <3>4. ~WritesTo(k, b)'
      BY <2>1, <2>2 DEF WritesTo
    <3> QED
      BY <1>5, <2>3, <3>1, <3>3, <3>4 DEF Good, Left
  <2> QED
    BY <2>4, <2>5
<1>18. CASE CheckLockTime(k)
  <2> DEFINE missing == cmissing[k] \/ db["lockTime"][b] = Nil
  <2>1. cpc[k] = "lockTime" /\ Ready(k) /\ AvailOK(b, t) /\ AvailOK(b, t)'
    BY <1>5, <1>18 DEF CheckLockTime, CAt, Seen
  <2>2. CASE CGoto(k, "lockFail") /\ UNCHANGED script
    <3>1. Attending(k, b)' /\ cpc'[k] = "lockFail" /\ Ready(k)'
      BY <1>3, <2>1, <2>2 DEF Looking, Ready
    <3> QED
      BY <2>1, <3>1 DEF Good, Seen
  <2>3. CASE Run(k, unlock_board(b)) /\ NextBoard(k, ctodo[k])
    BY <1>13, <2>1, <2>3, NextAway DEF Good, Left
  <2>4. CASE /\ ~missing /\ ~TooOld("lockTime", b, MaxLockTime)
             /\ NextBoard(k, ctodo[k]) /\ UNCHANGED script
    <3>1. t - db["lockTime"][b] =< MaxLockTime
      BY <1>1, <1>6, <2>4
    <3>2. LockOK(b, t)
      BY <2>1, <2>4, <3>1 DEF Seen, LockOK, Locked
    <3>3. ~WritesTo(k, b)'
      BY <2>1, <2>4 DEF WritesTo, Ready
    <3>4. ~Attending(k, b)'
      BY <2>4, NextAway
    <3> QED
      BY <1>5, <2>1, <3>2, <3>3, <3>4 DEF Good, Left
  <2> QED
    BY <1>2, <1>18, <2>2, <2>3, <2>4 DEF CheckLockTime
<1>19. CASE CheckLockFail(k)
  <2>1. /\ cpc[k] = "lockFail" /\ Ready(k) /\ AvailOK(b, t)' /\ NextBoard(k, ctodo[k])
    BY <1>5, <1>19 DEF CheckLockFail, CAt, Seen
  <2>2. ~Attending(k, b)'
    BY <2>1, NextAway
  <2>3. CASE db["hwStatus"][b] = Fail /\ UNCHANGED script
    <3>1. LockOK(b, t)'
      BY <1>5, <2>3 DEF LockOK
    <3>2. ~WritesTo(k, b)'
      BY <2>1, <2>3 DEF WritesTo, Ready
    <3> QED
      BY <2>1, <2>2, <3>1, <3>2 DEF Good, Left
  <2>4. CASE Run(k, unlock_board(b))
    BY <1>13, <2>1, <2>2, <2>4 DEF Good, Left
  <2> QED
    BY <1>2, <1>19, <2>3, <2>4 DEF CheckLockFail
<1>20. ~CheckTesting(k) /\ ~CronStart(k)
  BY <1>2 DEF CheckTesting, CronStart, CAt, Looking
<1> QED
  BY <1>7, <1>9, <1>10, <1>11, <1>14, <1>15, <1>16, <1>17, <1>18, <1>19, <1>20
     DEF CheckActs, CheckStep

-----------------------------------------------------------------------------
(* Every step *)

\* A step is one of k, or leaves it where it is.
LEMMA StepForms ==
    ASSUME TypeOK, Next, NEW k \in Checkers
    PROVE  /\ now' \in Nat /\ now =< now'
           /\ \/ CheckActs(k)
              \/ /\ cpc'[k] = cpc[k] /\ cboard'[k] = cboard[k] /\ cmissing'[k] = cmissing[k]
                 /\ script'[k] = script[k]
<1> DEFINE Aside == /\ cpc'[k] = cpc[k] /\ cboard'[k] = cboard[k] /\ cmissing'[k] = cmissing[k]
                    /\ script'[k] = script[k]
<1>1. now \in Nat /\ k \in Procs /\ StoreTypeOK
  BY CheckAssumption DEF TypeOK, StoreTypeOK
<1>2. CASE Tick
  BY <1>1, <1>2 DEF Tick, checkVars
<1>3. CASE Expiry
  BY <1>1, <1>3 DEF Expiry, LockingExpires, checkVars
<1>4. ASSUME NEW t \in Shells, ShellRuns(t) \/ UserActs(t)
      PROVE  now' = now /\ Aside
  <2>1. ShellActs(t) /\ UNCHANGED checkVars
    BY <1>4 DEF ShellRuns, UserActs, ShellActs
  <2>2. k \in Procs \ {t}
    BY <1>1, RelayAssumption
  <2> QED
    BY <2>1, <2>2, ShellForms, OtherShell DEF checkVars
<1>5. ASSUME NEW j \in Checkers, CheckRuns(j) \/ CronActs(j)
      PROVE  now' = now /\ (CheckActs(k) \/ Aside)
  <2>1. CheckActs(j)
    BY <1>5 DEF CheckRuns, CronActs, CheckActs
  <2>2. now' = now
    BY <2>1, CheckForms DEF CheckActs
  <2>3. CASE j # k
    BY <2>1, <2>2, <2>3, OtherChecker
  <2> QED
    BY <2>1, <2>2, <2>3
<1>6. ASSUME NEW t \in Testers, TestRuns(t) \/ AdminActs(t)
      PROVE  now' = now /\ Aside
  <2>1. TestStep(t) \/ StartRun(t) \/ KillRun(t)
    BY <1>6 DEF TestRuns, AdminActs
  <2>2. UNCHANGED checkVars
    BY <1>6 DEF TestRuns, AdminActs
  <2>3. k # t /\ t \in Procs
    BY <1>1, RelayAssumption
  <2>4. now' = now
    BY <2>1, TestForms
  <2>5. script'[k] = script[k]
    <3>1. CASE Exec(t)
      BY <1>1, <2>3, <3>1, ExecEffect
    <3>2. CASE Tries(t)
      BY <1>1, <2>3, <3>2 DEF Tries, Run, StoreTypeOK
    <3> QED
      BY <2>1, <3>1, <3>2, TestForms
  <2> QED
    BY <2>2, <2>4, <2>5 DEF checkVars
<1> HIDE DEF Aside
<1>7. now' \in Nat /\ now =< now' /\ (CheckActs(k) \/ Aside)
  <2>1. (CheckActs(k) \/ Aside) /\ (now' = now \/ Tick)
    <3>1. CASE Tick \/ Expiry
      BY <1>2, <1>3, <3>1 DEF Expiry, LockingExpires, Tick, checkVars, Aside
    <3> QED
      BY <1>4, <1>5, <1>6, <3>1 DEF Next
  <2>2. Tick => now' = now + 1
    BY DEF Tick
  <2> QED
    BY <1>1, <2>1, <2>2
<1> QED
  BY <1>7 DEF Aside

\* A step of k is a write, or it goes on from where it is ready.
LEMMA LookForms ==
    ASSUME TypeOK, NEW k \in Checkers, CheckActs(k)
    PROVE  \/ Exec(k) /\ UNCHANGED checkVars
           \/ /\ Ready(k) /\ ~Exec(k)
              /\ (\E rest : NextBoard(k, rest)) \/ (\E l : l # "testing" /\ CGoto(k, l))
BY DEF CheckActs, CheckStep, Recover, CronStart, CheckTesting, CheckAvailable, CheckSessUser,
       CheckSessStart, CheckSessPing, CheckSessFail, CheckUnlocked, CheckLockUser,
       CheckLockTime, CheckLockFail, Need, CAt, Exec

\* The run that has a board keeps to it what it owes.
LEMMA GoodStep ==
    ASSUME TypeOK, Next, NEW k \in Checkers, NEW b \in Boards, NEW t \in Nat, t =< now,
           Good(k, b, t), ~Attends(k, b), ~Meddles(k, b)
    PROVE  Good(k, b, t)'
<1>1. CASE /\ cpc'[k] = cpc[k] /\ cboard'[k] = cboard[k] /\ cmissing'[k] = cmissing[k]
           /\ script'[k] = script[k]
  <2>1. \A key \in Keys : db'[key][b] = db[key][b]
    BY <1>1 DEF Meddles
  <2> QED
    BY <1>1, <2>1, GoodFrame
<1>2. CASE CheckActs(k) /\ Exec(k) /\ UNCHANGED checkVars
  BY <1>2, GoodExec
<1>3. CASE CheckActs(k) /\ Ready(k) /\ ~Exec(k)
  <2>1. CASE Attending(k, b)
    BY <1>3, <2>1, GoodLook DEF Good
  <2>2. CASE ~Attending(k, b)
    <3>1. Left(k, b, t)
      BY <2>2 DEF Good
    <3>2. DOMAIN script[k] = {}
      BY <1>3 DEF Ready
    <3>3. ~WritesTo(k, b)
      BY <3>2 DEF WritesTo
    <3>4. LockOK(b, t)
      <4>1. CASE Due(k, UnlockWrites(b))
        <5>1. Put("unlocked", b, In) \in UnlockWrites(b)
          BY DEF UnlockWrites
        <5>2. \A w \in UnlockWrites(b) : db[w.key][w.board] = w.val
          BY <3>2, <4>1 DEF Due
        <5>3. db["unlocked"][b] = In
          BY <5>1, <5>2 DEF Put
        <5> QED
          BY <5>3 DEF LockOK
      <4> QED
        BY <3>1, <4>1 DEF Left
    <3>5. ~Attending(k, b)' /\ ~WritesTo(k, b)' /\ UNCHANGED <<db, now>>
      BY <1>3, <2>2, <3>3, StaysAway
    <3>6. AvailOK(b, t)' /\ LockOK(b, t)'
      BY <3>1, <3>4, <3>5 DEF Left, AvailOK, LockOK, InSession, Locked
    <3> QED
      BY <3>5, <3>6 DEF Good, Left
  <2> QED
    BY <2>1, <2>2
<1> QED
  BY <1>1, <1>2, <1>3, StepForms, LookForms

LEMMA TendStep == TypeOK /\ TendInv /\ [RecNext]_recVars => TendInv'
<1> SUFFICES ASSUME TypeOK, TendInv, [RecNext]_recVars PROVE TendInv'
  OBVIOUS
<1>1. CASE UNCHANGED recVars
  BY <1>1 DEF recVars, vars, storeVars, checkVars, TendInv, Tended, Good, Attending,
              Seen, Left, Due, Ready, WritesTo, AvailOK, LockOK, InSession, Locked
<1>2. CASE RecNext
  <2>1. Next /\ Watch /\ now \in Nat
    BY <1>2 DEF RecNext, TypeOK, StoreTypeOK
  <2>2. ASSUME NEW k \in Checkers, cpc'[k] = "testing" PROVE ~cmissing'[k]
    BY <2>1, <2>2, StepForms, LookForms, NextAway, GotoStays DEF TendInv, checkVars
  <2>3. ASSUME NEW k \in Checkers, NEW b \in Boards, NEW t \in Nat,
               Tended(b)', tended'[b] = [by |-> k, since |-> t]
        PROVE  t =< now' /\ Good(k, b, t)'
    <3>1. CASE \E j \in Checkers : Attends(j, b)
      <4> DEFINE j == CHOOSE j \in Checkers : Attends(j, b)
      <4>1. j \in Checkers /\ Attends(j, b)
        BY <3>1
      <4>2. tended'[b] = [by |-> j, since |-> now]
        BY <2>1, <3>1 DEF Watch
      <4> HIDE DEF j
      <4>3. j = k /\ t = now
        <5>1. [by |-> j, since |-> now].by = [by |-> k, since |-> t].by
          BY <2>3, <4>2
        <5>2. [by |-> j, since |-> now].since = [by |-> k, since |-> t].since
          BY <2>3, <4>2
        <5> QED
          BY <5>1, <5>2
      <4>4. CheckActs(k) /\ Attends(k, b)
        BY <2>1, <4>1, <4>3, StepForms DEF Attends
      <4>5. /\ Ready(k) /\ UNCHANGED <<db, script, now, cboard, cmissing>>
            /\ cpc'[k] = "available" /\ cboard'[k] = b /\ ~cmissing'[k]
        BY <4>4, AttendsForm DEF Attends, TendInv
      <4>6. Attending(k, b)' /\ Ready(k)'
        BY <4>5 DEF Attending, Ready, Looking
      <4>7. Good(k, b, t)'
        BY <4>5, <4>6 DEF Good, Seen
      <4>8. t =< now'
        BY <2>1, <4>3, <4>5
      <4> QED
        BY <4>7, <4>8
    <3>2. CASE \A j \in Checkers : ~Attends(j, b)
      <4>2. Tended(b) /\ tended[b] = [by |-> k, since |-> t] /\ ~Meddles(k, b)
        <5>1. Tended(b) /\ ~Meddles(Tender(b), b)
          BY <2>1, <2>3, <3>2 DEF Watch, Tended
        <5> QED
          BY <5>1, <2>1, <2>3, <3>2 DEF Watch, Tender
      <4>3. t =< now /\ Good(k, b, t)
        BY <4>2 DEF TendInv
      <4>4. Good(k, b, t)'
        BY <2>1, <3>2, <4>2, <4>3, GoodStep
      <4>5. t =< now'
        BY <2>1, <4>3, StepForms
      <4> QED
        BY <4>4, <4>5
    <3> QED
      BY <3>1, <3>2
  <2>4. tended' \in [Boards -> {Nil} \cup [by : Checkers, since : Nat]]
    <3>1. ASSUME NEW b \in Boards
          PROVE  tended'[b] \in {Nil} \cup [by : Checkers, since : Nat]
      <4>1. CASE \E k \in Checkers : Attends(k, b)
        <5> DEFINE k == CHOOSE k \in Checkers : Attends(k, b)
        <5>1. k \in Checkers
          BY <4>1
        <5>2. tended'[b] = [by |-> k, since |-> now]
          BY <2>1, <4>1 DEF Watch
        <5> QED
          BY <2>1, <5>1, <5>2
      <4>2. CASE ~\E k \in Checkers : Attends(k, b)
        BY <2>1, <4>2 DEF Watch, TendInv
      <4> QED
        BY <4>1, <4>2
    <3> QED
      BY <2>1, <3>1 DEF Watch
  <2> QED
    BY <2>2, <2>3, <2>4 DEF TendInv
<1> QED
  BY <1>1, <1>2

\* The invariant of tended boards, on which BoardSettled rests, is inductive.
THEOREM BoardsAreTended == RecSpec => []TendInv
<1>1. RecInit => Init /\ TendInv
  BY DEF RecInit, Init, CheckInit, TendInv, Tended
<1>2. [RecNext]_recVars => [Next]_vars
  BY DEF RecNext, recVars
<1>3. RecSpec => Spec
  BY <1>1, <1>2, PTL DEF RecSpec, Spec
<1> QED
  BY <1>1, <1>3, TendStep, TypeCorrect, PTL DEF RecSpec

\* Whatever the number of users, boards, tests and overlapping runs of
\* checkboards.py, and whatever killed shells and tests have left in the keys of
\* a board: a run that has gone over it, undisturbed, leaves it settled.
THEOREM BoardsAreSettled == RecSpec => []BoardSettled
<1>1. TendInv => BoardSettled
  <2> SUFFICES ASSUME TendInv, NEW b \in Boards, Tended(b), Done(Tender(b), b)
               PROVE  Settled(b, Since(b))
    BY DEF BoardSettled
  <2> DEFINE k == Tender(b)
             t == Since(b)
  <2>1. k \in Checkers /\ t \in Nat /\ tended[b] = [by |-> k, since |-> t]
    BY DEF TendInv, Tended, Tender, Since
  <2>2. Good(k, b, t)
    BY <2>1 DEF TendInv
  <2> HIDE DEF k, t
  <2>3. Left(k, b, t) /\ ~WritesTo(k, b)
    BY <2>2 DEF Good, Attending, Done, k
  <2>4. CASE Due(k, UnlockWrites(b))
    <3>1. Put("unlocked", b, In) \in UnlockWrites(b)
      BY DEF UnlockWrites
    <3>2. \A w \in UnlockWrites(b) : db[w.key][w.board] = w.val
      BY <2>3, <2>4, FreeKeys, DueDone
    <3>3. db["unlocked"][b] = In
      BY <3>1, <3>2 DEF Put
    <3> QED
      BY <2>3, <3>3 DEF Left, AvailOK, Settled, t
  <2>5. CASE LockOK(b, t)
    BY <2>3, <2>5 DEF Left, AvailOK, LockOK, Settled, t
  <2> QED
    BY <2>3, <2>4, <2>5 DEF Left
<1> QED
  BY <1>1, BoardsAreTended, PTL

-----------------------------------------------------------------------------
(* The relay whose boards come and go: the scripts of the hosts. *)

LEMMA HostWriteTypes ==
    ASSUME NEW b \in Boards
    PROVE  /\ \A k \in ClassKeys : Put(k, b, In) \in HostWrites /\ Del(k, b) \in HostWrites
           /\ \A k \in PoolKeys : Put(k, b, In) \in HostWrites
           /\ \A k \in Keys : Del(k, b) \in HostWrites
<1>1. /\ \A k \in PoolKeys : k \in Keys /\ In \in KeyType(k)
      /\ \A k \in Keys : Nil \in KeyType(k)
  BY KeyTypes
<1>2. /\ \A k \in PoolKeys : Put(k, b, In) \in Writes
      /\ \A k \in Keys : Del(k, b) \in Writes
  BY <1>1, PutType DEF Del
<1> QED
  BY <1>2 DEF HostWrites, Put, Del

LEMMA HostScriptTypes ==
    ASSUME NEW b \in Boards
    PROVE  AttachWrites(b) \in Seq(HostWrites) /\ DetachWrites(b) \in Seq(HostWrites)
<1>1. \A k \in Keys : Del(k, b) \in HostWrites
  BY HostWriteTypes
<1>2. ClearUsers(b) \in Seq(HostWrites)
  BY <1>1 DEF ClearUsers, Keys, UserKeys, TimeKeys
<1>3. <<Put("member", b, In), Put("available", b, In), Put("unlocked", b, In),
        Put("details", b, In)>> \in Seq(HostWrites)
  BY HostWriteTypes DEF ClassKeys, PoolKeys
<1>4. <<Del("member", b), Del("available", b), Del("unlocked", b),
        Del("details", b)>> \in Seq(HostWrites)
  BY <1>1, HostWriteTypes DEF ClassKeys, Keys, PoolKeys
<1> QED
  BY <1>2, <1>3, <1>4 DEF AttachWrites, DetachWrites

\* A container that stops or is restarted ends the connections to it.
LEMMA RestartContainerType ==
    ASSUME TypeOK, NEW b, RestartContainer(b), UNCHANGED localVars
    PROVE  ShellTypeOK'
BY DEF RestartContainer, localVars, TypeOK, ShellTypeOK

\* A script at a host writes the relay's keys, or the class's.
LEMMA HostStepTypes ==
    ASSUME HotTypeOK, NEW b \in Boards, Attach(b) \/ Detach(b) \/ HostWrite(b)
    PROVE  /\ StoreTypeOK' /\ ShellTypeOK'
           /\ class' \in [ClassKeys -> [Boards -> {In, Nil}]]
           /\ host' \in [Boards -> Seq(HostWrites)]
           /\ plugs' \in 0..MaxPlugs
           /\ UNCHANGED <<checkVars, testVars>>
<1>1. /\ TypeOK /\ StoreTypeOK /\ ShellTypeOK
      /\ class \in [ClassKeys -> [Boards -> {In, Nil}]]
      /\ host \in [Boards -> Seq(HostWrites)]
      /\ plugs \in 0..MaxPlugs /\ MaxPlugs \in Nat
  BY PlugAssumption DEF HotTypeOK, TypeOK
<1>2. ASSUME NEW writes \in Seq(HostWrites), PlugScript(b, writes)
      PROVE  /\ StoreTypeOK' /\ ShellTypeOK'
             /\ host' \in [Boards -> Seq(HostWrites)] /\ plugs' \in 0..MaxPlugs
             /\ UNCHANGED <<class, checkVars, testVars>>
  <2>1. StoreTypeOK'
    BY <1>1, <1>2 DEF PlugScript, storeVars, StoreTypeOK
  <2>2. ShellTypeOK'
    BY <1>1, <1>2, RestartContainerType DEF PlugScript
  <2> QED
    BY <1>1, <1>2, <2>1, <2>2 DEF PlugScript
<1>3. CASE Attach(b) \/ Detach(b)
  BY <1>1, <1>2, <1>3, HostScriptTypes DEF Attach, Detach
<1>4. CASE HostWrite(b)
  <2> DEFINE w == Head(host[b])
  <2>1. host[b] \in Seq(HostWrites) /\ host[b] # <<>>
    BY <1>1, <1>4 DEF HostWrite
  <2>2. w \in HostWrites /\ Tail(host[b]) \in Seq(HostWrites)
    BY <2>1
  <2>3. host' \in [Boards -> Seq(HostWrites)] /\ UNCHANGED plugs
    BY <1>1, <1>4, <2>2 DEF HostWrite
  <2>4. ShellTypeOK'
    BY <1>1, <1>4 DEF HostWrite, shellVars, localVars, ShellTypeOK
  <2>5. UNCHANGED <<locking, script, now, checkVars, testVars>>
    BY <1>4 DEF HostWrite
  <2>6. CASE w.key \in Keys
    <3>1. w \in Writes
      BY <2>2, <2>6 DEF HostWrites, ClassKeys, Keys, PoolKeys, UserKeys, TimeKeys
    <3>2. w.key \notin ClassKeys
      BY <2>6 DEF ClassKeys, Keys, PoolKeys, UserKeys, TimeKeys
    <3>3. db' = [db EXCEPT ![w.key][w.board] = w.val] /\ UNCHANGED class
      BY <1>4, <3>2 DEF HostWrite
    <3>4. DbTypeOK([db EXCEPT ![w.key][w.board] = w.val])
      BY <1>1, <3>1, WriteType DEF StoreTypeOK, DbTypeOK
    <3>5. StoreTypeOK'
      BY <1>1, <2>5, <3>3, <3>4 DEF StoreTypeOK, DbTypeOK
    <3> QED
      BY <1>1, <2>3, <2>4, <2>5, <3>3, <3>5
  <2>7. CASE w.key \in ClassKeys
    <3>1. w.key \notin Keys
      BY <2>7 DEF ClassKeys, Keys, PoolKeys, UserKeys, TimeKeys
    <3>2. class' = [class EXCEPT ![w.key][w.board] = w.val] /\ UNCHANGED db
      BY <1>4, <3>1 DEF HostWrite
    <3>3. w.board \in Boards /\ w.val \in {In, Nil}
      BY <2>2, <3>1 DEF HostWrites, Writes
    <3>4. class' \in [ClassKeys -> [Boards -> {In, Nil}]]
      BY <1>1, <2>7, <3>2, <3>3
    <3>5. StoreTypeOK'
      BY <1>1, <2>5, <3>2 DEF StoreTypeOK
    <3> QED
      BY <1>1, <2>3, <2>4, <2>5, <3>4, <3>5
  <2> QED
    BY <1>4, <2>6, <2>7 DEF HostWrite
<1> QED
  BY <1>3, <1>4

-----------------------------------------------------------------------------
(* The programs of the relay. *)

LEMMA HotShellTypes ==
    ASSUME TypeOK, NEW s \in Shells, HotShell(s) \/ HotUser(s)
    PROVE  StoreTypeOK' /\ ShellTypeOK'
<1>1. CASE LookAround(s)
  <2>1. StoreTypeOK'
    BY <1>1 DEF LookAround, TimeLocking, TypeOK, StoreTypeOK
  <2>2. CASE Move(s, "popAvailable")
    <3>1. ShellTypeOK'
      BY <2>2, MoveType DEF Acquiring, Serving, Leaving
    <3> QED
      BY <2>1, <3>1, <1>1 DEF LookAround
  <2>3. CASE \E b \in Members : Look(s, b, Members \ {b})
    BY <2>1, <2>3, LookType DEF Members
  <2> QED
    BY <1>1, <2>1, <2>2, <2>3 DEF LookAround
<1>2. CASE Strand(s)
  <2>1. <<>> \in Seq(Writes)
    OBVIOUS
  <2>2. ShellTypeOK' /\ script' \in [Procs -> Seq(Writes)]
    BY <1>2, <2>1, EndType DEF Strand
  <2> QED
    BY <1>2, <2>2 DEF Strand, TypeOK, StoreTypeOK
<1>3. CASE ShellStep(s) \/ Ask(s) \/ Disconnect(s)
  BY <1>3, ShellTypes DEF ShellActs, Ask
<1> QED
  BY <1>1, <1>2, <1>3 DEF HotShell, HotUser

LEMMA HotCheckTypes ==
    ASSUME TypeOK, NEW k \in Checkers, HotCheck(k) \/ HotCron(k)
    PROVE  StoreTypeOK' /\ ShellTypeOK' /\ CheckTypeOK'
<1>1. ASSUME UNCHANGED storeVars PROVE StoreTypeOK'
  BY <1>1 DEF storeVars, TypeOK, StoreTypeOK
<1>2. ASSUME UNCHANGED shellVars PROVE ShellTypeOK'
  BY <1>2 DEF shellVars, localVars, TypeOK, ShellTypeOK
<1>3. CASE HotCron(k)
  BY <1>1, <1>2, <1>3, NextBoardType DEF HotCron, Members
<1>4. CASE NextBoard(k, {}) /\ UNCHANGED <<storeVars, shellVars>>
  BY <1>1, <1>2, <1>4, NextBoardType
<1>5. CASE CheckStep(k) /\ UNCHANGED shellVars
  BY <1>2, <1>5, CheckTypes
<1>6. CASE Recover(k) /\ RestartContainer(cboard[k]) /\ UNCHANGED localVars
  BY <1>6, CheckTypes, RestartContainerType
<1> QED
  BY <1>3, <1>4, <1>5, <1>6 DEF HotCheck

LEMMA HotTypeStep == HotTypeOK /\ [HotNext]_hotVars => HotTypeOK'
<1> SUFFICES ASSUME HotTypeOK, [HotNext]_hotVars PROVE HotTypeOK'
  OBVIOUS
<1>1. TypeOK /\ StoreTypeOK /\ ShellTypeOK /\ CheckTypeOK /\ TestTypeOK
  BY DEF HotTypeOK, TypeOK
<1>2. ASSUME UNCHANGED testVars PROVE TestTypeOK'
  BY <1>1, <1>2 DEF testVars, TestTypeOK
<1>3. ASSUME UNCHANGED checkVars PROVE CheckTypeOK'
  BY <1>1, <1>3 DEF checkVars, CheckTypeOK
<1>4. ASSUME UNCHANGED <<testVars, calm, sound, class, host, plugs>>,
             StoreTypeOK' /\ ShellTypeOK' /\ CheckTypeOK'
      PROVE  HotTypeOK'
  BY <1>2, <1>4 DEF HotTypeOK, TypeOK
<1>5. CASE UNCHANGED hotVars
  <2>1. TypeOK'
    BY <1>1, <1>5, TypeStep DEF hotVars
  <2> QED
    BY <1>5, <2>1 DEF hotVars, HotTypeOK
<1>6. CASE Relayed(HotExpiry)
  <2>1. StoreTypeOK'
    BY <1>1, <1>6 DEF Relayed, HotExpiry, LockingExpires, DeleteLocking, StoreTypeOK
  <2>2. ShellTypeOK'
    BY <1>1, <1>6 DEF Relayed, HotExpiry, shellVars, localVars, ShellTypeOK
  <2> QED
    BY <1>3, <1>4, <1>6, <2>1, <2>2 DEF Relayed, HotExpiry
<1>7. ASSUME NEW s \in Shells, Relayed(HotShell(s) \/ HotUser(s)) PROVE HotTypeOK'
  <2>1. UNCHANGED checkVars
    BY <1>7 DEF Relayed, HotShell, HotUser
  <2> QED
    BY <1>1, <1>3, <1>4, <1>7, <2>1, HotShellTypes DEF Relayed
<1>8. ASSUME NEW k \in Checkers, Relayed(HotCheck(k) \/ HotCron(k)) PROVE HotTypeOK'
  BY <1>1, <1>4, <1>8, HotCheckTypes DEF Relayed
<1>9. ASSUME NEW b \in Boards, Hosted(Attach(b) \/ Detach(b) \/ HostWrite(b))
      PROVE  HotTypeOK'
  <2>1. /\ StoreTypeOK' /\ ShellTypeOK'
        /\ class' \in [ClassKeys -> [Boards -> {In, Nil}]]
        /\ host' \in [Boards -> Seq(HostWrites)]
        /\ plugs' \in 0..MaxPlugs
        /\ UNCHANGED <<checkVars, testVars, calm, sound>>
    BY <1>9, HostStepTypes DEF Hosted
  <2> QED
    BY <1>2, <1>3, <2>1 DEF HotTypeOK, TypeOK
<1> QED
  BY <1>5, <1>6, <1>7, <1>8, <1>9 DEF HotNext

LEMMA HotInitType == HotInit => HotTypeOK
<1> SUFFICES ASSUME HotInit PROVE HotTypeOK
  OBVIOUS
<1>1. PICK here \in SUBSET Boards :
          /\ class = [k \in ClassKeys |-> [b \in Boards |-> IF b \in here THEN In ELSE Nil]]
          /\ db = [k \in Keys |-> [b \in Boards |->
                       IF k \in PoolKeys /\ b \in here THEN In ELSE Nil]]
  BY DEF HotInit
<1>2. StoreTypeOK
  <2>1. \A k \in Keys : Nil \in KeyType(k) /\ KeyType(k) \subseteq Values
    BY KeyTypes
  <2>2. \A k \in PoolKeys : In \in KeyType(k)
    BY KeyTypes
  <2>3. \A k \in Keys, b \in Boards : db[k][b] \in KeyType(k)
    BY <1>1, <2>1, <2>2
  <2>4. db \in [Keys -> [Boards -> Values]]
    BY <1>1 DEF Values
  <2>5. <<>> \in Seq(Writes)
    OBVIOUS
  <2> QED
    BY <2>3, <2>4, <2>5 DEF HotInit, StoreTypeOK
<1>3. ShellTypeOK
  BY DEF HotInit, ShellInit, ShellTypeOK, Serving, Leaving
<1>4. CheckTypeOK
  BY DEF HotInit, CheckInit, CheckTypeOK, Looking
<1>5. TestTypeOK
  BY DEF HotInit, TestInit, TestTypeOK, Asking, Testing
<1>6. class \in [ClassKeys -> [Boards -> {In, Nil}]]
  BY <1>1
<1>7. <<>> \in Seq(HostWrites)
  OBVIOUS
<1>8. host \in [Boards -> Seq(HostWrites)] /\ plugs \in 0..MaxPlugs
  BY <1>7, PlugAssumption DEF HotInit
<1> QED
  BY <1>2, <1>3, <1>4, <1>5, <1>6, <1>8 DEF HotInit, HotTypeOK, TypeOK

\* The variables keep their types while boards come and go: above all, no script of
\* a host writes a value to a key of the relay that its programs could not read.
THEOREM HotTypeCorrect == HotSpec => []HotTypeOK
BY HotInitType, HotTypeStep, PTL DEF HotSpec
====
