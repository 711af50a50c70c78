---- MODULE VlabStore ----
(***************************************************************************)
(* The state the relay's programs share: the Redis keys of the boards of   *)
(* one board class, and the functions of vlabcommon/vlabredis.py that      *)
(* write them.                                                             *)
(*                                                                         *)
(* A program of the relay acts only through Redis commands, and every      *)
(* command is atomic, but no sequence of commands is.  One step of the     *)
(* model is one command together with the local code that runs on its      *)
(* reply, reading the clock included.  The functions that only write       *)
(* (lock_board, end_session, ...) are data: the sequence of the writes     *)
(* they make.  A process that calls one gets that sequence as its script   *)
(* and performs it write by write, interleaved with everybody else, before *)
(* it does anything else.                                                  *)
(*                                                                         *)
(* The pools are sets here: which of its boards a pool hands out is the    *)
(* subject of ZPopMin.tla, and so is that handing one out is atomic.       *)
(***************************************************************************)
EXTENDS Naturals, Sequences

CONSTANTS Boards,       \* boards of the class
          Users,        \* VLAB users
          Procs,        \* processes that write the keys
          MaxLockTime,  \* MAX_LOCK_TIME
          TestTTL,      \* TEST_TTL, the time to live of hwtest:testing
          Nil,          \* the reply for a key that is not there
          In,           \* the reply for a board that is in a pool
          Fail          \* the hwtest:status "fail"

ASSUME StoreAssumption == /\ Nil \notin Users \cup Nat \cup {In, Fail}
                          /\ MaxLockTime \in Nat
                          /\ TestTTL \in Nat

VARIABLES db,        \* db[key][b]: the value of that key of board b, or Nil
          locking,   \* vlab:boardclass:<bc>:locking and whether it has a time to live
          script,    \* writes each process has still to make
          now        \* the time, in units the limits are given in

storeVars == <<db, locking, script, now>>

\* Membership of the two pools, vlab:board:<b>:lock:*, vlab:board:<b>:session:*,
\* vlab:board:<b>:hwtest:status (where only "fail" matters) and
\* vlab:board:<b>:hwtest:testing (the time it was set at), with their values.
PoolKeys == {"available", "unlocked"}
UserKeys == {"lockUser", "sessUser"}
TimeKeys == {"lockTime", "sessStart", "sessPing", "testing"}
Keys     == PoolKeys \cup UserKeys \cup TimeKeys \cup {"hwStatus"}

KeyType(k) == {Nil} \cup CASE k \in PoolKeys -> {In}
                          [] k \in UserKeys -> Users
                          [] k \in TimeKeys -> Nat
                          [] OTHER -> {Fail}

\* One SET or ZADD, and one DEL or ZREM.
Put(k, b, v) == [key |-> k, board |-> b, val |-> v]
Del(k, b)    == Put(k, b, Nil)

Values == {Nil, In, Fail} \cup Users \cup Nat

Writes == {w \in [key : Keys, board : Boards, val : Values] :
                w.val \in KeyType(w.key)}

StoreTypeOK ==
    /\ db \in [Keys -> [Boards -> Values]]
    /\ \A k \in Keys, b \in Boards : db[k][b] \in KeyType(k)
    /\ locking \in {"absent", "forever", "ttl"}
    /\ script \in [Procs -> Seq(Writes)]
    /\ now \in Nat

\* A healthy board starts in both pools (boardattach.py), a board that failed
\* its hardware test in none (testboards.py).
StoreInit ==
    \E broken \in SUBSET Boards :
        /\ db = [k \in Keys |-> [b \in Boards |->
                    CASE k \in PoolKeys /\ b \notin broken -> In
                      [] k = "hwStatus" /\ b \in broken -> Fail
                      [] OTHER -> Nil]]
        /\ locking = "absent"
        /\ script = [p \in Procs |-> <<>>]
        /\ now = 0

-----------------------------------------------------------------------------
\* The writing functions of vlabredis.py.

\* Slips: user and time exchanged; the board left in the unlocked pool.
LockSwapped(b, u, t) ==
    <<Del("unlocked", b), Put("lockUser", b, t), Put("lockTime", b, u)>>

LockListed(b, u, t) == <<Put("lockUser", b, u), Put("lockTime", b, t)>>

lock_board(b, u, t) ==
    <<Del("unlocked", b), Put("lockUser", b, u), Put("lockTime", b, t)>>

unlock_board(b) ==
    <<Del("lockUser", b), Del("lockTime", b), Put("unlocked", b, In)>>

start_session(b, u, t) ==
    lock_board(b, u, t) \o
    <<Del("available", b), Put("sessUser", b, u), Put("sessStart", b, t),
      Put("sessPing", b, t)>>

end_session(b) ==
    <<Del("sessUser", b), Del("sessStart", b), Del("sessPing", b),
      Put("available", b, In)>>

ping_session(b, t) == <<Put("sessPing", b, t)>>

\* A slip: the flag has no time to live.
Flagged(b) == db["testing"][b] # Nil

\* The flag hwtest:testing of b is there: Redis deletes it after TestTTL.
UnderTest(b) == db["testing"][b] # Nil /\ now - db["testing"][b] < TestTTL

\* p has no write left to make: it may go on with its program.
Ready(p) == script[p] = <<>>

\* p calls a writing function, or two in a row.
Run(p, seq) == script' = [script EXCEPT ![p] = seq]

\* p makes its next write.
Exec(p) == /\ ~Ready(p)
           /\ LET w == Head(script[p])
              IN  db' = [db EXCEPT ![w.key][w.board] = w.val]
           /\ Run(p, Tail(script[p]))
           /\ UNCHANGED <<locking, now>>

-----------------------------------------------------------------------------
\* The key "locking": a plain SET gives it no time to live and removes the one
\* it had, EXPIRE gives it one, and Redis deletes it when that is over.
SetLocking    == locking' = "forever"
DeleteLocking == locking' = "absent"
TimeLocking   == locking' = IF locking = "absent" THEN "absent" ELSE "ttl"

LockingExpires == /\ locking = "ttl"
                  /\ DeleteLocking
                  /\ UNCHANGED <<db, script, now>>
====
