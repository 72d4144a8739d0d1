------------------------------ MODULE MCEndings -----------------------------
(***************************************************************************)
(* An execution from the broker's side of the provider (Dispatch) and from *)
(* the driver's (DriverLink).  They share no state: each lets the other do *)
(* anything at the call between them.  So a behaviour is one of the one or *)
(* of the other, and the other one stays as it began.                      *)
(***************************************************************************)
EXTENDS MCDispatch, DriverLink

CONSTANTS FirstExec, FirstExecute   \* the executions whose names come first

VARIABLE part

both == <<part, vars, linkVars>>

\* Executions have no order; here they get one, so that fewer behaviours differ only in
\* their names: by their kinds, and by which of them begins.
Rank(k)     == CHOOSE n \in 1..3 : <<Mutation, Secret, Read>>[n] = k
InKindOrder == \A e \in Execs : Rank(kind[FirstExec]) <= Rank(kind[e])
InOrder     == \A e \in Executes : call'[e] # "idle" => call'[FirstExecute] # "idle"

MCInit == /\ part \in {"dispatch", "link"}
          /\ Init /\ LinkInit
          /\ part = "dispatch" => ~cooperative /\ ~budgeted
          /\ part = "link" => \A e \in Execs : kind[e] = Read
          /\ InKindOrder

InDispatch(A) == part = "dispatch" /\ A /\ UNCHANGED <<part, linkVars>>
InLink(A)     == part = "link" /\ A /\ UNCHANGED <<part, vars>>

MCNext == InDispatch(Next) \/ InLink(LinkNext /\ InOrder)

\* What Fairness and LinkFairness assume of each execution, here only of some: no execution
\* goes on for ever, so it comes to the same.
FairStep ==
  \/ InDispatch(\/ \E e \in Execs : \/ Choose(e) \/ Enter(e) \/ LeaveQueue(e) \/ Decline(e)
                                     \/ Refuse(e) \/ Dispatch(e) \/ Interrupt(e) \/ Trail(e)
                \/ \E r \in Recipes : StepAnswered(r))
  \/ InLink((\E e \in Executes : CallStep(e)) \/ ReadFrame \/ Drain \/ Kill \/ NoticeExit)

MCFairness == WF_both(FairStep)

MCSpec == MCInit /\ [][MCNext]_both /\ MCFairness
=============================================================================
