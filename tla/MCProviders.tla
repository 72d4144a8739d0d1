----------------------------- MODULE MCProviders ----------------------------
(***************************************************************************)
(* What the daemon does by itself, for TLC.                                *)
(***************************************************************************)
EXTENDS Providers

\* Connections but the first differ in nothing but their numbers; they are used in
\* the order of these.
InOrder == \A c, d \in Conns : c < d /\ pc'[d] # "unborn" => pc'[c] # "unborn"

MCNext == DaemonNext /\ InOrder
MCSpec == Init /\ [][MCNext]_vars /\ Fairness
=============================================================================
