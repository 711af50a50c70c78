---- MODULE MCZPopMin ----
(* Two clients and two boards; a tie in the scores is possible. *)
EXTENDS ZPopMin

MCScores == 1..2
====
