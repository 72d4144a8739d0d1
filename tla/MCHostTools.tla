----------------------------- MODULE MCHostTools ----------------------------
(* Drivers that run one-shot tools and jobs, and drivers that hold sessions. *)
EXTENDS HostTools

MCRepertoires == {{"execute", "start", "status", "cancel"}, {"open", "use", "close"}}
=============================================================================
