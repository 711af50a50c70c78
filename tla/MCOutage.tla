---- MODULE MCOutage ----
(* Instances of the board hosts and a relay that is restarted, for model checking. *)
EXTENDS Outage, TLC

CONSTANTS h1, h2, p1, p2, r1, r2
====
