---- MODULE MCTunnel ----
(* Instances of the tunnels for model checking. *)
EXTENDS Tunnel

CONSTANTS c1, c2, c3

OneShared == [c \in Clients |-> IF c = c3 THEN 2 ELSE 1]
====
