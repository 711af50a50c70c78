---- MODULE AtomicPool ----
(***************************************************************************)
(* What a caller of allocate_available_board_of_class and                  *)
(* allocate_unlocked_board_of_class (vlabcommon/vlabredis.py) relies on:   *)
(* a pool is a set of boards, each with the time it was put there, and a   *)
(* call takes, in one indivisible step, a board that has waited longest,   *)
(* or finds the pool empty.  ZPopMin.tla is the mechanism; this module     *)
(* says nothing of how the step is made indivisible.                       *)
(***************************************************************************)
EXTENDS SortedSet

CONSTANT Clients   \* connections to the Redis server that pop boards

VARIABLES pool,     \* the sorted set: a function from the boards in it to scores
          asked,    \* clients whose call has not returned
          answer    \* what a client's last call has returned; None until it returns

poolVars == <<pool, asked, answer>>

PoolInit == /\ pool \in Pools
            /\ asked = {}
            /\ answer = [c \in Clients |-> None]

Ask(c) == /\ c \notin asked
          /\ asked' = asked \cup {c}
          /\ answer' = [answer EXCEPT ![c] = None]
          /\ UNCHANGED pool

\* The call takes effect and returns.
Take(c) == /\ c \in asked
           /\ asked' = asked \ {c}
           /\ \/ /\ DOMAIN pool = {}
                 /\ answer' = [answer EXCEPT ![c] = None]
                 /\ UNCHANGED pool
              \/ \E m \in Members :
                    /\ IsFirst(pool, m)
                    /\ answer' = [answer EXCEPT ![c] = m]
                    /\ pool' = Without(pool, m)

\* The caller is killed before its call takes effect.
Abandon(c) == /\ c \in asked
              /\ asked' = asked \ {c}
              /\ UNCHANGED <<pool, answer>>

\* Anybody may put a board in the pool or remove one by name.
Put(m, s) == /\ pool' = With(pool, m, s)
             /\ UNCHANGED <<asked, answer>>

Withdraw(m) == /\ pool' = Without(pool, m)
               /\ UNCHANGED <<asked, answer>>

PoolNext == \/ \E c \in Clients : Ask(c) \/ Take(c) \/ Abandon(c)
            \/ \E m \in Members, s \in Scores : Put(m, s)
            \/ \E m \in Members : Withdraw(m)

PoolSpec == PoolInit /\ [][PoolNext]_poolVars
====
