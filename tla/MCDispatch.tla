----------------------------- MODULE MCDispatch -----------------------------
(* Executions of which two may be attempts of one recipe step: mutations,    *)
(* plain reads and reads the operator confirms (secret access).              *)
EXTENDS Dispatch

Mutation == [mutates |-> TRUE, confirms |-> FALSE]
Read     == [mutates |-> FALSE, confirms |-> FALSE]
Secret   == [mutates |-> FALSE, confirms |-> TRUE]

MCKinds == {Mutation, Read, Secret}

=============================================================================
