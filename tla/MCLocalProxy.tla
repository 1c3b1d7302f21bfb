---------------------------- MODULE MCLocalProxy ----------------------------
(* Three calls of the IDE over a clock of a few ticks: the skew and the    *)
(* timeout are one tick, a token lives two or three.                       *)
EXTENDS LocalProxy, TLC

Symmetry == Permutations(Requests)
=============================================================================
