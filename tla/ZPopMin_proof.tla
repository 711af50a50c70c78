---- MODULE ZPopMin_proof ----
(***************************************************************************)
(* Proofs about ZPopMin for any number of clients, boards and scores.  The *)
(* inductive invariant is TypeOK /\ ReadStillFirst.                        *)
(***************************************************************************)
EXTENDS ZPopMin, TLAPS

\* Removing a board, and adding one, make a pool of a pool.
LEMMA WithoutType ==
    ASSUME NEW z \in Pools, NEW m
    PROVE  Without(z, m) \in Pools
<1>1. PICK S \in SUBSET Members : z \in [S -> Scores]
  BY DEF Pools
<1>2. S \ {m} \in SUBSET Members /\ Without(z, m) \in [S \ {m} -> Scores]
  BY <1>1 DEF Without
<1> QED
  BY <1>2 DEF Pools

LEMMA WithType ==
    ASSUME NEW z \in Pools, NEW m \in Members, NEW s \in Scores
    PROVE  With(z, m, s) \in Pools
<1>1. PICK S \in SUBSET Members : z \in [S -> Scores]
  BY DEF Pools
<1>2. S \cup {m} \in SUBSET Members /\ With(z, m, s) \in [S \cup {m} -> Scores]
  BY <1>1 DEF With
<1> QED
  BY <1>2 DEF Pools

\* The state predicate TypeOK holds in every reachable state.
THEOREM TypeCorrect == Spec => []TypeOK
<1>1. Init => TypeOK
  BY ZPopMinAssumption DEF Init, TypeOK, PC
<1>2. TypeOK /\ [Next]_vars => TypeOK'
  <2> SUFFICES ASSUME TypeOK, [Next]_vars PROVE TypeOK'
    OBVIOUS
  <2> USE ZPopMinAssumption DEF TypeOK, PC
  <2>1. CASE UNCHANGED vars
    BY <2>1 DEF vars
  <2>2. ASSUME NEW c \in Clients, Call(c) PROVE TypeOK'
    BY <2>2 DEF Call
  <2>3. ASSUME NEW c \in Clients, Watch(c) PROVE TypeOK'
    BY <2>3 DEF Watch
  <2>4. ASSUME NEW c \in Clients, Range(c) PROVE TypeOK'
    BY <2>4 DEF Range
  <2>5. ASSUME NEW c \in Clients, Commit(c) PROVE TypeOK'
    <3>1. zset' \in Pools
      BY <2>5, WithoutType DEF Commit, Touch
    <3> QED
      BY <2>5, <3>1 DEF Commit, Touch
  <2>6. ASSUME NEW c \in Clients, Retry(c) PROVE TypeOK'
    BY <2>6 DEF Retry
  <2>7. ASSUME NEW c \in Clients, Refuse(c) \/ Kill(c) PROVE TypeOK'
    BY <2>7 DEF Refuse, Kill
  <2>8. ASSUME NEW m \in Members, NEW s \in Scores, ZAdd(m, s) PROVE TypeOK'
    <3>1. zset' \in Pools
      BY <2>8, WithType DEF ZAdd, Touch
    <3> QED
      BY <2>8, <3>1 DEF ZAdd, Touch
  <2>9. ASSUME NEW m \in Members, ZRem(m) PROVE TypeOK'
    <3>1. zset' \in Pools
      BY <2>9, WithoutType DEF ZRem, Touch
    <3> QED
      BY <2>9, <3>1 DEF ZRem, Touch
  <2> QED
    BY <2>1, <2>2, <2>3, <2>4, <2>5, <2>6, <2>7, <2>8, <2>9 DEF Next, Step
<1> QED
  BY <1>1, <1>2, PTL DEF Spec

\* Every change of the set that a watching connection is not marked for is no
\* change at all.
LEMMA TouchMarks ==
    ASSUME TypeOK, NEW z, Touch(z), NEW c \in Clients,
           pc[c] \in {"range", "exec"}, ~dirty'[c]
    PROVE  zset' = zset /\ ~dirty[c]
BY DEF TypeOK, Touch, Watching

LEMMA ReadStep == TypeOK /\ ReadStillFirst /\ [Next]_vars => ReadStillFirst'
<1> SUFFICES ASSUME TypeOK, ReadStillFirst, [Next]_vars, NEW d \in Clients,
                    pc'[d] = "exec", ~dirty'[d]
             PROVE  \/ element'[d] = None /\ DOMAIN zset' = {}
                    \/ IsFirst(zset', element'[d])
  BY DEF ReadStillFirst
<1> USE DEF TypeOK
<1>1. CASE UNCHANGED vars
  BY <1>1 DEF vars, ReadStillFirst
<1>2. ASSUME NEW c \in Clients, Call(c) \/ Watch(c) \/ Retry(c) \/ Refuse(c) \/ Kill(c)
      PROVE  /\ pc[d] = "exec" /\ ~dirty[d]
             /\ zset' = zset /\ element' = element
  BY <1>2 DEF Call, Watch, Retry, Refuse, Kill, PC
<1>3. ASSUME NEW c \in Clients, Range(c)
      PROVE  \/ element'[d] = None /\ DOMAIN zset' = {}
             \/ IsFirst(zset', element'[d])
  <2>1. CASE c = d
    BY <1>3, <2>1 DEF Range
  <2>2. CASE c # d
    BY <1>3, <2>2 DEF Range, ReadStillFirst
  <2> QED
    BY <2>1, <2>2
<1>4. ASSUME NEW c \in Clients, Commit(c)
      PROVE  /\ pc[d] = "exec" /\ ~dirty[d]
             /\ zset' = zset /\ element' = element
  <2>1. pc[d] = "exec" /\ element' = element
    BY <1>4 DEF Commit
  <2> QED
    BY <1>4, <2>1, TouchMarks DEF Commit
<1>5. ASSUME NEW m \in Members, (\E s \in Scores : ZAdd(m, s)) \/ ZRem(m)
      PROVE  /\ pc[d] = "exec" /\ ~dirty[d]
             /\ zset' = zset /\ element' = element
  <2>1. pc[d] = "exec" /\ element' = element
    BY <1>5 DEF ZAdd, ZRem
  <2> QED
    BY <1>5, <2>1, TouchMarks DEF ZAdd, ZRem
<1>6. \/ pc[d] = "exec" /\ ~dirty[d] /\ zset' = zset /\ element' = element
      \/ element'[d] = None /\ DOMAIN zset' = {}
      \/ IsFirst(zset', element'[d])
      \/ UNCHANGED vars
  BY <1>2, <1>3, <1>4, <1>5 DEF Next, Step
<1> QED
  BY <1>1, <1>6 DEF ReadStillFirst

\* What ZRANGE answered is the head of the set when EXEC succeeds.
THEOREM ReadCorrect == Spec => []ReadStillFirst
<1>1. Init => ReadStillFirst
  BY DEF Init, ReadStillFirst
<1> QED
  BY <1>1, ReadStep, TypeCorrect, PTL DEF Spec

\* A board that a call returns leaves the set in that very step, whatever the
\* other clients and the other writers of the set do.
THEOREM NeverHandedOutTwice == Spec => HandedOutOnce
<1> DEFINE Taken == \A c \in Clients :
                       popped'[c] \notin {popped[c], None} =>
                           popped'[c] \in DOMAIN zset \ DOMAIN zset'
<1>1. TypeOK /\ ReadStillFirst /\ [Next]_vars => Taken
  <2> SUFFICES ASSUME TypeOK, ReadStillFirst, [Next]_vars, NEW c \in Clients,
                      popped'[c] \notin {popped[c], None}
               PROVE  popped'[c] \in DOMAIN zset \ DOMAIN zset'
    OBVIOUS
  <2>1. Commit(c)
    BY DEF TypeOK, Next, Step, vars, Call, Watch, Range, Commit, Retry, Refuse,
           Kill, ZAdd, ZRem
  <2>2. popped'[c] = element[c] /\ element[c] \in DOMAIN zset
    BY <2>1 DEF Commit, TypeOK, ReadStillFirst, IsFirst
  <2> QED
    BY <2>1, <2>2 DEF Commit, Touch, Without
<1>2. TypeOK /\ ReadStillFirst /\ [Next]_vars => [Taken]_vars
  BY <1>1
<1> QED
  BY <1>2, TypeCorrect, ReadCorrect, PTL DEF Spec, HandedOutOnce

\* The transaction implements the indivisible pop: Commit is Take, and every
\* other command of a client is invisible to the callers.
THEOREM PopIsAtomic == Spec => AtomicSpec
<1> USE SortedSetAssumption DEF Atomic!poolVars
<1>1. Init => Atomic!PoolInit
  BY DEF Init, Atomic!PoolInit, Pools, Atomic!Pools
<1>2. TypeOK /\ ReadStillFirst /\ [Next]_vars => [Atomic!PoolNext]_(Atomic!poolVars)
  <2> SUFFICES ASSUME TypeOK, ReadStillFirst, [Next]_vars
               PROVE  [Atomic!PoolNext]_(Atomic!poolVars)
    OBVIOUS
  <2> USE DEF TypeOK
  <2>1. CASE UNCHANGED vars
    BY <2>1 DEF vars
  <2>2. ASSUME NEW c \in Clients, Call(c) PROVE Atomic!Ask(c)
    BY <2>2 DEF Call, Atomic!Ask
  <2>3. ASSUME NEW c \in Clients, Watch(c) \/ Range(c) \/ Retry(c)
        PROVE  UNCHANGED Atomic!poolVars
    BY <2>3 DEF Watch, Range, Retry
  <2>4. ASSUME NEW c \in Clients, Commit(c) PROVE Atomic!Take(c)
    <3>1. /\ c \in {d \in Clients : pc[d] # "idle"}
          /\ {d \in Clients : pc'[d] # "idle"} = {d \in Clients : pc[d] # "idle"} \ {c}
          /\ popped' = [popped EXCEPT ![c] = element[c]]
          /\ zset' = Without(zset, element[c])
      BY <2>4 DEF Commit, Touch
    <3>2. CASE element[c] = None /\ DOMAIN zset = {}
      <4>1. zset' = zset
        BY <3>1, <3>2 DEF Without, Pools
      <4> QED
        BY <3>1, <3>2, <4>1 DEF Atomic!Take
    <3>3. CASE IsFirst(zset, element[c])
      <4>1. element[c] \in Members
        BY <3>3 DEF IsFirst, Pools
      <4> QED
        BY <3>1, <3>3, <4>1 DEF Atomic!Take, Atomic!IsFirst, IsFirst,
                                Atomic!Without, Without
    <3> QED
      BY <2>4, <3>2, <3>3 DEF ReadStillFirst, Commit
  <2>5. ASSUME NEW c \in Clients, Refuse(c) \/ Kill(c) PROVE Atomic!Abandon(c)
    BY <2>5 DEF Refuse, Kill, Atomic!Abandon
  <2>6. ASSUME NEW m \in Members, NEW s \in Scores, ZAdd(m, s) PROVE Atomic!Put(m, s)
    BY <2>6 DEF ZAdd, Touch, Atomic!Put, Atomic!With, With
  <2>7. ASSUME NEW m \in Members, ZRem(m) PROVE Atomic!Withdraw(m)
    BY <2>7 DEF ZRem, Touch, Atomic!Withdraw, Atomic!Without, Without
  <2> QED
    BY <2>1, <2>2, <2>3, <2>4, <2>5, <2>6, <2>7 DEF Next, Step, Atomic!PoolNext
<1> QED
  BY <1>1, <1>2, TypeCorrect, ReadCorrect, PTL DEF Spec, AtomicSpec, Atomic!PoolSpec
====
