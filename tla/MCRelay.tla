---- MODULE MCRelay ----
(* Instances of the relay for model checking. *)
EXTENDS Relay, TLC

CONSTANTS s1, s2, k1, k2, t1, t2, u1, u2

TwoUsers == [s \in Shells |-> IF s = s1 THEN u1 ELSE u2]
OneUser  == [s \in Shells |-> u1]

\* Two connections of two users can be exchanged, with their users.
Swap == {[x \in Shells \cup Users |->
            IF x \in Shells THEN q[x]
            ELSE IF q[s1] = s1 THEN x ELSE CHOOSE u \in Users : u # x] :
         q \in Permutations(Shells)}
====
