------------------------------ MODULE MCEvents ------------------------------
(***************************************************************************)
(* Constants for TLC: an event the connection's session may see, being     *)
(* public or its own, and one of another session.                          *)
(***************************************************************************)
EXTENDS Events, TLC

CONSTANTS own, foreign

MCAudiences == {own, foreign}
MCMine == {own}
Symmetry == Permutations(Subs)
=============================================================================
