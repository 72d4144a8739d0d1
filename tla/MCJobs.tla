------------------------------- MODULE MCJobs -------------------------------
(* Model values and symmetry for the model-checking runs of Jobs. *)
EXTENDS Jobs, TLC

Symmetry == Permutations(Jobs) \cup Permutations(Sessions)
=============================================================================
