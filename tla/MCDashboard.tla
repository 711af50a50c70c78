---- MODULE MCDashboard ----
(* Instances of the dashboard for model checking. *)
EXTENDS Dashboard, TLC

CONSTANTS s1, s2, k1, k2, t1, t2, u1, u2

TwoUsers == [s \in Shells |-> IF s = s1 THEN u1 ELSE u2]
OneUser  == [s \in Shells |-> u1]
====
