---- MODULE SortedSet ----
(***************************************************************************)
(* The Redis sorted set, as the pools of boards use it: a partial function *)
(* from boards to the times they were put in the pool.                     *)
(***************************************************************************)
EXTENDS Naturals

CONSTANTS Members,  \* boards
          Scores,   \* the times a board may be put in the pool at
          None      \* the answer of a call that finds the pool empty

ASSUME SortedSetAssumption == /\ None \notin Members
                              /\ Scores \subseteq Nat

\* Every pool there can be.
Pools == UNION {[S -> Scores] : S \in SUBSET Members}

\* m is at rank 0 of the sorted set z.  Which of two boards with equal scores
\* comes first is left open.
IsFirst(z, m) == /\ m \in DOMAIN z
                 /\ \A n \in DOMAIN z : z[m] =< z[n]

\* z without m: ZREM, which does nothing when m is not there.
Without(z, m) == [n \in DOMAIN z \ {m} |-> z[n]]

\* z with m at score s: ZADD, which moves m when it is there already.
With(z, m, s) == [n \in DOMAIN z \cup {m} |-> IF n = m THEN s ELSE z[n]]
====
