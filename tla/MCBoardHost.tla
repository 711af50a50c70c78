---- MODULE MCBoardHost ----
(* Instances of the board hosts for model checking. *)
EXTENDS BoardHost

CONSTANTS h1, h2, p1, p2, r1, r2
====
