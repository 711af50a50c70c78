---- MODULE MCHotPlug ----
(* Instances of the relay with boards that come and go, for model checking. *)
EXTENDS HotPlug, TLC

CONSTANTS s1, s2, k1, k2, u1, u2

TwoUsers == [s \in Shells |-> IF s = s1 THEN u1 ELSE u2]
OneUser  == [s \in Shells |-> u1]
====
