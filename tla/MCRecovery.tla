---- MODULE MCRecovery ----
(* Instances of the relay, with what checkboards.py has settled, for TLC. *)
EXTENDS Recovery

CONSTANTS s1, k1, u1

OneUser == [s \in Shells |-> u1]
====
