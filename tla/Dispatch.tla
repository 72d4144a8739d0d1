------------------------------ MODULE Dispatch ------------------------------
(***************************************************************************)
(* How the broker executes a command (Broker::execute_inner and perform,   *)
(* crates/core/src/lib.rs): the audit scope around it, the execution gate, *)
(* the operator's approval, the second check of everything that may have   *)
(* gone stale meanwhile, the provider call that a timeout, a cancellation  *)
(* or an invalidated provider interrupts, and the recipe step that retries *)
(* it (crates/recipes/src/lib.rs).                                         *)
(*                                                                         *)
(* A command names a reference and pins a provider generation; one without *)
(* a reference is one whose reference is never revoked.  Dry runs, which   *)
(* end behind the gate, and jobs.* commands, which end before it (see      *)
(* Jobs), never reach a provider and are left out.                         *)
(***************************************************************************)
EXTENDS Integers, Sequences

CONSTANTS Execs,           \* executions, each used once
          Recipes,         \* runs of a recipe of one step
          Client,          \* the origin of an execution that is no recipe's step
          Kinds,           \* [mutates, confirms]: risks under the policy
          MaxAttempts      \* retry.attempts of the step

ASSUME KindAssumption    == Kinds \subseteq [mutates : BOOLEAN, confirms : BOOLEAN]
ASSUME OriginAssumption  == Client \notin Recipes
ASSUME AttemptAssumption == MaxAttempts \in Nat \ {0}

VARIABLES pc,         \* where each execution is
          kind,       \* the command's kind
          origin,     \* the recipe whose step it is, or Client
          cancelled,  \* executions under way whose token is cancelled
          revoked,    \*    ... whose reference left the store
          stale,      \*    ... whose pinned provider generation is over
          queue,      \* executions waiting for execution_gate, in order
          work,       \* "none", "running" or "ended": the call in the provider
          effect,     \* executions whose command took effect
          journal,    \* "none", "start" or "finish": the audit records written
          answer,     \* [code, known] once answered
          step        \* per recipe: [now, tries, current]

command == <<kind, origin>>
doomed  == <<cancelled, revoked, stale>>
vars    == <<pc, command, doomed, queue, work, effect, journal, answer, step>>

\* BackendFailed stands for Internal and ResourceExhausted too; Other for the
\* codes that neither perform nor a recipe treats apart, InvalidArgument among them.
Codes == {"Ok", "Unavailable", "BackendFailed", "Other"}
Pending == [code |-> "Ok", known |-> FALSE]

Holding == {"prompt", "validating", "acting"}
Ended   == {"answered", "dropped"}
Steps   == {"idle", "choosing", "queued"} \cup Holding \cup Ended

\* exclusive: a mutation, secret access or any command the operator confirms.
\* Secret access is always confirmed, so the kind has no field for it.
MutatesOnly(e) == kind[e].mutates      \* faulty: prompts under the shared gate
Exclusive(e)   == kind[e].mutates \/ kind[e].confirms

Holders == {e \in Execs : pc[e] \in Holding}
Free(e) == IF Exclusive(e) THEN Holders = {} ELSE \A f \in Holders : ~Exclusive(f)

UnderWay == {e \in Execs : pc[e] \notin {"idle"} \cup Ended}

Init == /\ pc = [e \in Execs |-> "idle"]
        /\ kind \in [Execs -> Kinds]
        /\ origin = [e \in Execs |-> Client]
        /\ cancelled = {} /\ revoked = {} /\ stale = {}
        /\ queue = <<>>
        /\ work = [e \in Execs |-> "none"]
        /\ effect = {}
        /\ journal = [e \in Execs |-> "none"]
        /\ answer = [e \in Execs |-> Pending]
        /\ step = [r \in Recipes |-> [now |-> "idle", tries |-> 0, current |-> Client]]

-----------------------------------------------------------------------------
(* Answers.  A finish record that cannot be written turns any answer into  *)
(* an uncertain one (the dropped scope may still write "abandoned").       *)

\* Token, reference and lease are dropped with the execution.
Drop(e) == /\ cancelled' = cancelled \ {e}
           /\ revoked' = revoked \ {e}
           /\ stale' = stale \ {e}

\* faulty: ignores that the finish record could not be written
AnswerAnyway(e, code, known) ==
  /\ pc' = [pc EXCEPT ![e] = "answered"]
  /\ Drop(e)
  /\ \E last \in {"start", "finish"} : journal' = [journal EXCEPT ![e] = last]
  /\ answer' = [answer EXCEPT ![e] = [code |-> code, known |-> known]]

Answer(e, code, known) ==
  /\ pc' = [pc EXCEPT ![e] = "answered"]
  /\ Drop(e)
  /\ \/ /\ journal' = [journal EXCEPT ![e] = "finish"]
        /\ answer' = [answer EXCEPT ![e] = [code |-> code, known |-> known]]
     \/ /\ answer' = [answer EXCEPT ![e] = [code |-> "Other", known |-> FALSE]]
        /\ journal' = [journal EXCEPT ![e] = "start"]

\* What an error of the action becomes at the end of perform.
AsReported(e, code, known)   == known      \* faulty: a broken contract is a known failure
OutcomeKnown(e, code, known) == known /\ ~(kind[e].mutates /\ code = "BackendFailed")

-----------------------------------------------------------------------------
(* Up to the gate.                                                         *)

\* Everything before choose is synchronous: the start record, the schema, the
\* cancellation, the reference and the policy.  An invocation in the catalogue is
\* pinned before.
NoStartRecord(e) ==
  /\ pc' = [pc EXCEPT ![e] = "answered"]
  /\ answer' = [answer EXCEPT ![e] = [code |-> "BackendFailed", known |-> TRUE]]
  /\ UNCHANGED <<doomed, journal>>

Begin(e) ==
  /\ pc[e] = "idle"
  /\ \/ NoStartRecord(e)
     \/ \E code \in {"Unavailable", "Other"} : Answer(e, code, TRUE)
     \/ /\ pc' = [pc EXCEPT ![e] = "choosing"]
        /\ journal' = [journal EXCEPT ![e] = "start"]
        /\ UNCHANGED <<doomed, answer>>
  /\ UNCHANGED <<queue, work, effect>>

Receive(e) == Begin(e) /\ UNCHANGED <<command, step>>

\* A command of a dynamic provider keeps the lease its invocation pinned, which
\* must be active; one of a built-in provider takes the lease it finds now.
Choose(e) ==
  /\ pc[e] = "choosing"
  /\ \/ /\ \E code \in {"Unavailable", "Other"} : Answer(e, code, TRUE)
        /\ UNCHANGED queue
     \/ /\ stale' = stale \ {e}
        /\ pc' = [pc EXCEPT ![e] = "queued"]
        /\ queue' = Append(queue, e)
        /\ UNCHANGED <<cancelled, revoked, journal, answer>>
  /\ UNCHANGED <<command, work, effect, step>>

Leave(e) == \E i \in 1..Len(queue) :
              /\ queue[i] = e
              /\ queue' = [j \in 1..(Len(queue) - 1) |-> queue[IF j < i THEN j ELSE j + 1]]

\* Behind the gate, and after the operator's approval, the reference is looked up
\* again.
Trust(e) ==                                \* faulty: the first look-up is kept
  /\ pc' = [pc EXCEPT ![e] = "validating"]
  /\ UNCHANGED <<doomed, journal, answer>>
Reresolve(e) ==
  \/ /\ e \notin revoked
     /\ pc' = [pc EXCEPT ![e] = "validating"]
     /\ UNCHANGED <<doomed, journal, answer>>
  \/ e \in revoked /\ Answer(e, "Other", TRUE)

\* The gate is a fair read-write lock: whoever waits first enters first.
Enter(e) ==
  /\ queue # <<>> /\ Head(queue) = e
  /\ Free(e) /\ e \notin stale \cup cancelled
  /\ queue' = Tail(queue)
  /\ IF kind[e].confirms THEN pc' = [pc EXCEPT ![e] = "prompt"] /\ UNCHANGED <<doomed, journal, answer>>
                         ELSE Reresolve(e)
  /\ UNCHANGED <<command, work, effect, step>>

LeaveQueue(e) ==
  /\ pc[e] = "queued"
  /\ \/ e \in stale /\ Answer(e, "Unavailable", TRUE)
     \/ e \in cancelled /\ Answer(e, "Other", TRUE)
  /\ Leave(e)
  /\ UNCHANGED <<command, work, effect, step>>

-----------------------------------------------------------------------------
(* Behind the gate.                                                        *)

Approve(e) == /\ pc[e] = "prompt"
              /\ Reresolve(e)
              /\ UNCHANGED <<command, queue, work, effect, step>>

\* Declined, expired after 120 s, cancelled, or the terminal failed (which is
\* Unavailable if it was closed).
OnlyCancelled(e) == e \in cancelled        \* faulty: waits for the operator
MayEnd(e)        == TRUE
Decline(e) == /\ pc[e] = "prompt" /\ MayEnd(e)
              /\ \E code \in Codes \ {"Ok"} : Answer(e, code, TRUE)
              /\ UNCHANGED <<command, queue, work, effect, step>>

\* The backend's validation of the target (at most 3 s), the last cancellation
\* check, and the first poll of the action, which may find the epoch cancelled
\* (reported as uncertain) or the lease inactive.
Refuse(e) ==
  /\ pc[e] = "validating"
  /\ \/ \E code \in Codes \ {"Ok"} : Answer(e, code, TRUE)
     \/ e \in stale /\ Answer(e, "Unavailable", FALSE)
  /\ UNCHANGED <<command, queue, work, effect, step>>

Dispatch(e) ==
  /\ pc[e] = "validating" /\ e \notin cancelled \cup stale
  /\ pc' = [pc EXCEPT ![e] = "acting"]
  /\ work' = [work EXCEPT ![e] = "running"]
  /\ UNCHANGED <<command, doomed, queue, effect, journal, answer, step>>

Act(e) ==
  /\ work[e] = "running" /\ kind[e].mutates /\ e \notin effect
  /\ effect' = effect \cup {e}
  /\ UNCHANGED <<pc, command, doomed, queue, work, journal, answer, step>>

\* The action returns.  What a provider reports as a known failure had no effect,
\* and a mutation it reports as done had one.  The broker refuses a result after
\* the fact: one that breaks its contract or its budget is BackendFailed; a
\* reference marker that holds no target is a JSON error, InvalidArgument.
Result(e, code, known) ==
  /\ code = "Ok" => known /\ (kind[e].mutates => e \in effect)
  /\ code = "Unavailable" /\ known => e \notin effect

Return(e) ==
  /\ pc[e] = "acting"
  /\ work' = [work EXCEPT ![e] = "ended"]
  /\ \E code \in Codes, known \in BOOLEAN :
       Result(e, code, known) /\ Answer(e, code, OutcomeKnown(e, code, known))
  /\ UNCHANGED <<command, queue, effect, step>>

\* The epoch, the token or the deadline, after 250 ms of grace: the call is
\* dropped, and the provider may not have noticed yet.
Interrupt(e) ==
  /\ pc[e] = "acting"
  /\ \E code \in {"Other", "Unavailable"} : Answer(e, code, FALSE)
  /\ \E w \in {"running", "ended"} : work' = [work EXCEPT ![e] = w]
  /\ UNCHANGED <<command, queue, effect, step>>

\* A provider that lost its caller comes to an end.
Trail(e) ==
  /\ pc[e] \in Ended /\ work[e] = "running"
  /\ work' = [work EXCEPT ![e] = "ended"]
  /\ UNCHANGED <<pc, command, doomed, queue, effect, journal, answer, step>>

-----------------------------------------------------------------------------
(* The step of a recipe.                                                   *)

\* Each attempt is an execution of its own, of the same command.
Attempt(r, e) ==
  /\ step[r].now \in {"idle", "backoff"}
  /\ pc[e] = "idle" /\ origin[e] = Client
  /\ \A f \in Execs : origin[f] = r => kind[f] = kind[e]
  /\ origin' = [origin EXCEPT ![e] = r]
  /\ step' = [step EXCEPT ![r] = [now |-> "waiting", tries |-> @.tries + 1, current |-> e]]
  /\ Begin(e)
  /\ UNCHANGED kind

Retryable(a) == a.known /\ a.code \in {"BackendFailed", "Unavailable"}

StepAnswered(r) ==
  LET e == step[r].current
  IN /\ step[r].now = "waiting" /\ pc[e] = "answered"
     /\ step' = [step EXCEPT ![r].now =
                   IF step[r].tries < MaxAttempts /\ Retryable(answer[e]) THEN "backoff" ELSE "over"]
     /\ UNCHANGED <<pc, command, doomed, queue, work, effect, journal, answer>>

\* A cancelled or timed-out step drops its execution wherever it is.
StepDropped(r) ==
  LET e == step[r].current
  IN /\ step[r].now = "waiting" /\ pc[e] \notin Ended
     /\ pc' = [pc EXCEPT ![e] = "dropped"]
     /\ Drop(e)
     /\ IF pc[e] = "queued" THEN Leave(e) ELSE UNCHANGED queue
     /\ step' = [step EXCEPT ![r].now = "over"]
     /\ UNCHANGED <<command, work, effect, journal, answer>>

\* Cancelled before the next attempt.
GiveUp(r) ==
  /\ step[r].now = "backoff"
  /\ step' = [step EXCEPT ![r].now = "over"]
  /\ UNCHANGED <<pc, command, doomed, queue, work, effect, journal, answer>>

-----------------------------------------------------------------------------
(* Everybody else.                                                         *)

\* The client, its connection, its job or the recipe's caller.
Cancel(e) == /\ cancelled' = cancelled \cup {e}
             /\ UNCHANGED <<revoked, stale>>

\* The reference expires, or its session or its backend loses its references.
Revoke(e) == /\ revoked' = revoked \cup {e}
             /\ UNCHANGED <<cancelled, stale>>

\* The pinned provider is invalidated, refreshed under a new generation, removed
\* or closed.
Invalidate(e) == /\ stale' = stale \cup {e}
                 /\ UNCHANGED <<cancelled, revoked>>

Doom(e) == /\ e \in UnderWay
           /\ Cancel(e) \/ Revoke(e) \/ Invalidate(e)
           /\ UNCHANGED <<pc, command, queue, work, effect, journal, answer, step>>

Execution(e) == \/ Receive(e) \/ Choose(e) \/ Enter(e) \/ LeaveQueue(e) \/ Approve(e) \/ Decline(e)
                \/ Refuse(e) \/ Dispatch(e) \/ Act(e) \/ Return(e) \/ Interrupt(e) \/ Trail(e)
Recipe(r) == (\E e \in Execs : Attempt(r, e)) \/ StepAnswered(r) \/ StepDropped(r) \/ GiveUp(r)

Next == \/ \E e \in Execs : Execution(e) \/ Doom(e)
        \/ \E r \in Recipes : Recipe(r)

\* The prompt expires, a validation, a provider call and a step time out, and
\* the gate wakes its first waiter: the code bounds each of them by a timer or
\* the runtime schedules it.  Nothing makes the operator, a client, a provider or
\* a reference's expiry act.
Fairness == /\ \A e \in Execs : /\ WF_vars(Choose(e)) /\ WF_vars(Enter(e)) /\ WF_vars(LeaveQueue(e))
                               /\ WF_vars(Decline(e)) /\ WF_vars(Refuse(e) \/ Dispatch(e))
                               /\ WF_vars(Interrupt(e)) /\ WF_vars(Trail(e))
            /\ \A r \in Recipes : WF_vars(StepAnswered(r))

Safety == Init /\ [][Next]_vars
Spec   == Safety /\ Fairness

-----------------------------------------------------------------------------
\* Types; the queue of the gate holds each execution that waits for it, once.
TypeOK ==
  /\ pc \in [Execs -> Steps]
  /\ kind \in [Execs -> Kinds] /\ origin \in [Execs -> Recipes \cup {Client}]
  /\ cancelled \cup revoked \cup stale \subseteq UnderWay
  /\ queue \in Seq(Execs)
  /\ \A i, j \in 1..Len(queue) : queue[i] = queue[j] => i = j
  /\ \A e \in Execs : pc[e] = "queued" <=> \E i \in 1..Len(queue) : queue[i] = e
  /\ work \in [Execs -> {"none", "running", "ended"}]
  /\ effect \subseteq Execs
  /\ journal \in [Execs -> {"none", "start", "finish"}]
  /\ answer \in [Execs -> [code : Codes, known : BOOLEAN]]
  /\ step \in [Recipes -> [now : {"idle", "waiting", "backoff", "over"},
                          tries : 0..MaxAttempts, current : Execs \cup {Client}]]

\* While the operator is asked, and while a mutation is validated or under way,
\* no other command is past the gate (lib.rs: "All broker I/O is blocked during
\* an operator prompt").  Calls the broker has given up on are not counted.
GateHoldersAreAlone ==
  \A e, f \in Holders : e # f => pc[e] # "prompt" /\ ~kind[e].mutates

\* What went stale while it waited: a command whose reference was revoked before it
\* passed the gate and the operator, and one whose provider was invalidated before its call.
WentStale(e) == \/ pc[e] \in {"queued", "prompt"} /\ e \in revoked
                \/ pc[e] \in {"queued", "prompt", "validating"} /\ e \in stale

\* Whatever the operator approved and the gate admits meanwhile, what went stale while it
\* waited never acts (lib.rs: the second look-up of the reference and of the lease).
StaleWorkNeverStarts == [](\A e \in Execs : WentStale(e) => [](pc[e] # "acting"))

\* Whatever a recipe's step retries, its mutation takes effect at most once
\* (docs/security.md: "A mutation with uncertain completion is not retried").
StepsTakeEffectOnce ==
  \A e, f \in effect : origin[e] # Client /\ origin[e] = origin[f] => e = f

\* No effect without a start record, and whoever is told a known outcome of a
\* command that took effect finds the matching finish record in the journal.
EffectsAreOnRecord ==
  \A e \in effect : /\ journal[e] # "none"
                    /\ pc[e] = "answered" /\ answer[e].known => journal[e] = "finish"

\* A mutating command answered with a failure whose outcome is known had no
\* effect (docs/native-sdk/API.md: a malformed reply after a mutation "must not
\* be rewritten into a known rejection").
KnownFailuresHadNoEffect ==
  \A e \in Execs : pc[e] = "answered" /\ answer[e].known /\ answer[e].code # "Ok" => e \notin effect

\* Every execution is answered or dropped, whatever its neighbours, the operator
\* and the providers do: nothing waits behind the gate for ever.
EveryExecutionEnds == [](\A e \in Execs : pc[e] # "idle" => <>(pc[e] \in Ended))

=============================================================================
