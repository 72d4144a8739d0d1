----------------------------- MODULE MCCommits ------------------------------
(***************************************************************************)
(* Three places where something is checked, prepared while others go on,   *)
(* and then entered: the catalogue of providers (Providers), the document  *)
(* of the native SDK's file profile (OperationJournal), and the tables of  *)
(* what a driver asks of its host (HostTools).  They share no variable and *)
(* no code, so a behaviour is one of one of them: part says which, and the *)
(* others stay as they began.                                              *)
(***************************************************************************)
EXTENDS Providers, OperationJournal, MCHostTools

VARIABLE part

\* Only jobs ask whose session they belong to (OwnJob), so drivers that hold sessions of
\* their own begin with one home for each parent.
MCInit == /\ part \in {"catalogue", "document", "tools"}
          /\ Init /\ JournalInit /\ ToolsInit
          /\ part # "tools" => "open" \in repertoire
          /\ "open" \in repertoire => home = [p \in Parents |-> p]

\* No step of the catalogue looks at a process, only at the tokens that stand for it; so
\* here a process changes only together with one of these.
ByItsTokens == process' # process => closed' # closed \/ pc' # pc

MCNext ==
  \/ part = "catalogue" /\ Next /\ ByItsTokens /\ UNCHANGED <<part, journalVars, toolsVars>>
  \/ part = "document" /\ JournalNext /\ UNCHANGED <<part, vars, toolsVars>>
  \/ part = "tools" /\ ToolsNext /\ UNCHANGED <<part, vars, journalVars>>

MCSpec == MCInit /\ [][MCNext]_<<part, vars, journalVars, toolsVars>>
=============================================================================
