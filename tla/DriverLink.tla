----------------------------- MODULE DriverLink -----------------------------
(***************************************************************************)
(* One driver process and the host's end of the pipe to it (protocol v2    *)
(* and later): DriverProvider, its table of requests, the reader and       *)
(* monitor tasks (crates/driver-host), and the serving loop that every     *)
(* driver runs (crates/driver-sdk).                                        *)
(*                                                                         *)
(* A request of any kind is entered in the table, written to the pipe, and *)
(* answered by a frame with its identity.  An execution that ends in any   *)
(* other way than by its own answer tells the monitor to kill the process; *)
(* so does an answer nobody waits for.  The broker may also drop the       *)
(* future of an execution, wherever it is suspended.                       *)
(***************************************************************************)
EXTENDS Naturals, Sequences, FiniteSets

CONSTANTS
  Executes,     \* identities of Execute requests
  Checks,       \* identities of Validate and Capabilities requests
  Nobody,       \* the gate or the driver's lock is free
  MaxPending,   \* entries of the table (256 in the code)
  MaxBegun      \* bound: executions, checks and shutdowns ever begun

ASSUME LinkAssumption ==
  /\ Executes \cap Checks = {} /\ Nobody \notin Executes \cup Checks
  /\ MaxPending \in Nat \ {0} /\ MaxBegun \in Nat

VARIABLES
  cooperative,  \* manifest: the driver negotiated cooperative cancellation
  budgeted,     \* manifest: executions have a CPU budget of their own
  call,         \* [Executes -> place in DriverProvider::execute]
  returned,     \* [Executes -> what execute returned]
  stop,         \* executions whose context is cancelled
  check,        \* [Checks -> place of a validation or refresh]
  closing,      \* place of the provider's shutdown
  requests,     \* requests in the table
  inbox,        \* what a request's channel holds: [Ids -> Answers]
  gate,         \* the execution that holds operation_cpu_gate
  terminate,    \* the token that asks the monitor to kill
  disconnected, \* the token `closed`
  reader,       \* place of the reader task
  toDriver,     \* the child's standard input
  toHost,       \* the child's standard output
  child,        \* the process
  job,          \* [Executes \cup Checks -> the child's task for it]
  lock          \* the task that holds the child's Mutex<Driver>

linkVars == <<cooperative, budgeted, call, returned, stop, check, closing, requests, inbox,
              gate, terminate, disconnected, reader, toDriver, toHost, child, job, lock>>
manifest == <<cooperative, budgeted>>
host     == <<call, returned, stop, check, closing, gate>>
table    == <<requests, inbox>>
fate     == <<terminate, disconnected, reader>>
process  == <<child, job, lock>>

Cancelling(e) == <<"cancel", e>>      \* the identity of the Cancel request for e
Bye           == <<"shutdown">>       \* the identity of the Shutdown request
Ids           == Executes \cup Checks \cup {Cancelling(e) : e \in Executes} \cup {Bye}

\* Every request has an identity of its own.
ASSUME IdsAssumption == /\ Bye \notin Executes \cup Checks
                        /\ \A e \in Executes : Cancelling(e) \notin Executes \cup Checks

Frame(k, i)   == [kind |-> k, id |-> i]
Torn          == Frame("torn", Bye)   \* the part of a frame whose writer was dropped

InFlight == {"waiting", "cancelling", "draining"}
Live     == {"checked", "ready", "entered"} \cup InFlight

LinkInit ==
  /\ cooperative \in BOOLEAN /\ budgeted \in BOOLEAN
  /\ call = [e \in Executes |-> "idle"] /\ returned = [e \in Executes |-> "none"] /\ stop = {}
  /\ check = [v \in Checks |-> "idle"] /\ closing = "no"
  /\ requests = {} /\ inbox = [i \in Ids |-> "none"] /\ gate = Nobody
  /\ terminate = FALSE /\ disconnected = FALSE /\ reader = "reading"
  /\ toDriver = <<>> /\ toHost = <<>>
  /\ child = "running" /\ job = [i \in Executes \cup Checks |-> "none"] /\ lock = Nobody

\* The bound MaxBegun.
MayBegin == Cardinality({e \in Executes : call[e] # "idle"} \cup {v \in Checks : check[v] # "idle"})
              + (IF closing = "no" THEN 0 ELSE 1) < MaxBegun

------------------------------------------------------------------------------
(* The host: one execution, from DriverProvider::execute to its verdict.    *)

\* What a call changes of itself, and of nobody else.
own  == <<call, returned, stop, inbox, gate, terminate>>
rest == <<manifest, check, closing, disconnected, reader, toHost, process>>

\* The execution goes on.
Goes(e, place) ==
  /\ call' = [call EXCEPT ![e] = place]
  /\ UNCHANGED <<returned, stop, inbox, gate, terminate>>

\* Faulty: the permit is not given back.
OverWithThePermit(e, place) ==
  /\ call' = [call EXCEPT ![e] = place]
  /\ stop' = stop \ {e}
  /\ inbox' = [inbox EXCEPT ![e] = "none", ![Cancelling(e)] = "none"]
  /\ UNCHANGED gate

\* Its future is over: the gate is free again, its channels and its context are gone.
Over(e, place) ==
  /\ call' = [call EXCEPT ![e] = place]
  /\ stop' = stop \ {e}
  /\ inbox' = [inbox EXCEPT ![e] = "none", ![Cancelling(e)] = "none"]
  /\ gate' = IF gate = e THEN Nobody ELSE gate

Returns(e, v) == /\ Over(e, "over")
                 /\ returned' = [returned EXCEPT ![e] = v]
                 /\ UNCHANGED terminate

\* Faulty: the outcome is open, and the process goes on.
GivesUpQuietly(e) == /\ Over(e, "over")
                     /\ returned' = [returned EXCEPT ![e] = "unknown"]
                     /\ UNCHANGED terminate

\* Any error after the first step kills the process and leaves the outcome open.
GivesUp(e) == /\ Over(e, "over")
              /\ returned' = [returned EXCEPT ![e] = "unknown"]
              /\ terminate' = TRUE

Start(e) ==
  /\ call[e] = "idle" /\ MayBegin
  /\ IF disconnected THEN Returns(e, "refused")
                     ELSE Goes(e, IF budgeted THEN "checked" ELSE "ready")
  /\ UNCHANGED <<requests, toDriver, rest>>

EnterGate(e) ==
  /\ call[e] = "checked"
  /\ \/ /\ gate = Nobody
        /\ gate' = e
        /\ call' = [call EXCEPT ![e] = "ready"]
        /\ UNCHANGED <<returned, stop, inbox, terminate>>
     \/ e \in stop /\ Returns(e, "refused")
  /\ UNCHANGED <<requests, toDriver, rest>>

TableHasRoom == Cardinality(requests) < MaxPending

\* V2Io::begin, which enters the request first and writes it then.
EnterTable(e) ==
  /\ call[e] = "ready"
  /\ IF TableHasRoom
     THEN requests' = requests \cup {e} /\ Goes(e, "entered")
     ELSE GivesUp(e) /\ UNCHANGED requests
  /\ UNCHANGED <<toDriver, rest>>

\* The pipe breaks with the process.
Write(e) ==
  /\ call[e] = "entered"
  /\ IF child # "dead"
     THEN /\ toDriver' = Append(toDriver, Frame("execute", e))
          /\ Goes(e, "waiting")
          /\ UNCHANGED requests
     ELSE /\ requests' = requests \ {e}
          /\ GivesUp(e)
          /\ UNCHANGED toDriver
  /\ UNCHANGED rest

\* Faulty: the end of the connection is taken for an answer.
ConcludeAnyhow(e) ==
  /\ call[e] \in {"waiting", "draining"}
  /\ \/ inbox[e] = "result" /\ Returns(e, "ok")
     \/ inbox[e] \in {"failure", "closed"} /\ Returns(e, "failed")
  /\ UNCHANGED <<requests, toDriver, rest>>

\* execution_result: a value, or a failure whose outcome stays open.
Conclude(e) ==
  /\ call[e] \in {"waiting", "draining"}
  /\ \/ inbox[e] = "result" /\ Returns(e, "ok")
     \/ inbox[e] = "failure" /\ Returns(e, "failed")
     \/ inbox[e] = "closed" /\ GivesUp(e)
  /\ UNCHANGED <<requests, toDriver, rest>>

\* The deadline of the command, or its CPU budget.
Overdue(e) ==
  /\ \/ call[e] \in {"waiting", "draining"} /\ inbox[e] = "none"
     \/ call[e] \in {"entered"} \cup InFlight /\ budgeted
  /\ requests' = requests \ {e}
  /\ GivesUp(e)
  /\ UNCHANGED <<toDriver, rest>>

\* V2Io::begin for a request other than an execution.
Ask(i, k) ==
  /\ TableHasRoom /\ child # "dead"
  /\ requests' = requests \cup {i}
  /\ toDriver' = Append(toDriver, Frame(k, i))

\* Without the contract, cancellation is the death of the process; with it, the
\* driver is asked first.  The table keeps the entry in both cases.
HearCancel(e) ==
  /\ call[e] = "waiting" /\ e \in stop
  /\ \/ cooperative /\ Ask(Cancelling(e), "cancel") /\ Goes(e, "cancelling")
     \/ /\ cooperative => ~TableHasRoom \/ child = "dead"
        /\ GivesUp(e) /\ UNCHANGED <<requests, toDriver>>
  /\ UNCHANGED rest

\* The acknowledgement, or its absence: the channel was closed, or two seconds passed.
HearAcknowledgement(e) ==
  /\ call[e] = "cancelling"
  /\ \/ inbox[Cancelling(e)] = "cancelled" /\ Goes(e, "draining") /\ UNCHANGED requests
     \/ /\ inbox[Cancelling(e)] # "cancelled"
        /\ requests' = requests \ {Cancelling(e)}
        /\ GivesUp(e)
  /\ UNCHANGED <<toDriver, rest>>

\* The driver acknowledged, but its answer did not come within three seconds.
PatienceEnds(e) ==
  /\ call[e] = "draining" /\ inbox[e] = "none"
  /\ GivesUp(e)
  /\ UNCHANGED <<requests, toDriver, rest>>

\* Faulty: the entry goes with the future, and the answer is one that nobody asked for.
ForgottenWith(e) == requests \ {e}

\* What the table keeps when the future of an execution is dropped.
KeptWithout(e) == requests

\* The broker drops the future, 250 ms after it cancelled the context, or with the
\* task it belongs to.  Dropped while it writes, it may leave a part of its frame.
DropCall(e) ==
  /\ call[e] \in Live
  /\ Over(e, "dropped")
  /\ requests' = KeptWithout(e)
  /\ \/ UNCHANGED toDriver
     \/ call[e] = "entered" /\ child # "dead" /\ toDriver' = Append(toDriver, Torn)
  /\ UNCHANGED <<returned, terminate, rest>>

CancelContext(e) ==
  /\ call[e] \in {"checked", "waiting"} /\ e \notin stop
  /\ stop' = stop \cup {e}
  /\ UNCHANGED <<call, returned, inbox, gate, terminate, requests, toDriver, rest>>

------------------------------------------------------------------------------
(* The host: validations and refreshes, and the provider's shutdown.       *)

BeginCheck(v) ==
  /\ check[v] = "idle" /\ MayBegin
  /\ \/ Ask(v, "check") /\ check' = [check EXCEPT ![v] = "waiting"]
     \/ /\ ~TableHasRoom \/ child = "dead"
        /\ check' = [check EXCEPT ![v] = "failed"]
        /\ UNCHANGED <<requests, toDriver>>
  /\ UNCHANGED <<manifest, call, returned, stop, closing, gate, inbox, fate, toHost, process>>

\* An answer, the end of the connection, the request's own timeout, which forgets
\* the request, or the end of the broker's patience, which does not.
EndCheck(v) ==
  /\ check[v] = "waiting"
  /\ \/ inbox[v] = "checked" /\ check' = [check EXCEPT ![v] = "answered"] /\ UNCHANGED requests
     \/ inbox[v] = "closed" /\ check' = [check EXCEPT ![v] = "failed"] /\ UNCHANGED requests
     \/ /\ inbox[v] = "none"
        /\ check' = [check EXCEPT ![v] = "forgotten"]
        /\ requests' = requests \ {v}
     \/ inbox[v] = "none" /\ check' = [check EXCEPT ![v] = "dropped"] /\ UNCHANGED requests
  /\ UNCHANGED <<manifest, call, returned, stop, closing, gate, inbox, fate,
                 toDriver, toHost, process>>

BeginShutdown ==
  /\ closing = "no" /\ MayBegin /\ ~disconnected
  /\ \/ Ask(Bye, "shutdown") /\ closing' = "asked"
     \/ /\ ~TableHasRoom \/ child = "dead"
        /\ closing' = "failed" /\ UNCHANGED <<requests, toDriver>>
  /\ UNCHANGED <<manifest, call, returned, stop, check, gate, inbox, fate, toHost, process>>

\* After the acknowledgement the process has three seconds to end.
EndShutdown ==
  /\ \/ /\ closing = "asked" /\ inbox[Bye] = "shutdown"
        /\ closing' = "leaving" /\ UNCHANGED <<requests, terminate>>
     \/ /\ closing = "asked" /\ inbox[Bye] # "shutdown"
        /\ closing' = "failed" /\ requests' = requests \ {Bye} /\ UNCHANGED terminate
     \/ /\ closing = "leaving" /\ disconnected
        /\ closing' = "done" /\ UNCHANGED <<requests, terminate>>
     \/ /\ closing = "leaving" /\ ~disconnected
        /\ closing' = "failed" /\ terminate' = TRUE /\ UNCHANGED requests
  /\ UNCHANGED <<manifest, call, returned, stop, check, gate, inbox, disconnected, reader,
                 toDriver, toHost, process>>

\* The last reference to the provider goes away.
DropProvider ==
  /\ closing \in {"failed", "done"} /\ \A e \in Executes : call[e] \notin Live
  /\ closing' = "gone" /\ terminate' = TRUE
  /\ UNCHANGED <<manifest, call, returned, stop, check, gate, table, disconnected, reader,
                 toDriver, toHost, process>>

------------------------------------------------------------------------------
(* The host: the reader and the monitor.                                   *)

\* What is unread stays unread.
ReaderBreaks == reader' = "broken" /\ toHost' = <<>> /\ terminate' = TRUE /\ disconnected' = TRUE

\* The receiver of a request's channel is alive.
Listens(i) == \/ \E e \in Executes : i \in {e, Cancelling(e)} /\ call[e] \in Live
              \/ i \in Checks /\ check[i] = "waiting"
              \/ i = Bye /\ closing = "asked"

\* An answer for a request in the table goes to its channel; any other one, and
\* the end of the stream, ends the connection.
ReadFrame ==
  /\ reader = "reading"
  /\ \/ /\ toHost # <<>>
        /\ LET f == Head(toHost)
           IN  IF f.id \in requests
               THEN /\ requests' = requests \ {f.id}
                    /\ inbox' = [inbox EXCEPT ![f.id] = IF Listens(f.id) THEN f.kind ELSE "none"]
                    /\ toHost' = Tail(toHost)
                    /\ UNCHANGED fate
               ELSE ReaderBreaks /\ UNCHANGED table
     \/ /\ toHost = <<>> /\ child = "dead"
        /\ ReaderBreaks
        /\ UNCHANGED table
  /\ UNCHANGED <<manifest, host, toDriver, process>>

Drained == requests

Drain ==
  /\ reader = "broken"
  /\ reader' = "over"
  /\ requests' = requests \ Drained
  /\ inbox' = [i \in Ids |-> IF i \in Drained /\ Listens(i) THEN "closed" ELSE inbox[i]]
  /\ UNCHANGED <<manifest, host, terminate, disconnected, toDriver, toHost, process>>

JobsAborted ==
  [i \in DOMAIN job |-> IF job[i] \in {"queued", "running"} THEN "aborted" ELSE job[i]]

\* The tasks of the child end with it, and what it had not read is lost.
Dies ==
  /\ child' = "dead"
  /\ toDriver' = <<>>
  /\ job' = JobsAborted
  /\ lock' = Nobody

Kill ==
  /\ terminate /\ child # "dead"
  /\ Dies
  /\ UNCHANGED <<manifest, host, table, fate, toHost>>

NoticeExit ==
  /\ child = "dead" /\ ~disconnected
  /\ disconnected' = TRUE
  /\ UNCHANGED <<manifest, host, table, terminate, reader, toDriver, toHost, process>>

------------------------------------------------------------------------------
(* The child: serve_v2.                                                    *)

Say(k, i) == toHost' = Append(toHost, Frame(k, i))

\* The serving loop takes the next frame.  What follows a torn frame completes it
\* to something that is no request, and the loop ends with an error.
Serve ==
  /\ child = "running" /\ toDriver # <<>>
  /\ LET f == Head(toDriver)
     IN \/ /\ f.kind \in {"execute", "check"}
           /\ job' = [job EXCEPT ![f.id] = "queued"]
           /\ toDriver' = Tail(toDriver)
           /\ UNCHANGED <<toHost, child, lock>>
        \/ /\ f.kind = "cancel"
           /\ Say("cancelled", f.id)
           /\ toDriver' = Tail(toDriver)
           /\ UNCHANGED <<job, child, lock>>
        \/ /\ f.kind = "shutdown"
           /\ job' = JobsAborted
           /\ lock' = Nobody
           /\ Say("shutdown", f.id)
           /\ child' = "leaving"
           /\ toDriver' = Tail(toDriver)
        \/ /\ f.kind = "torn" /\ Len(toDriver) > 1
           /\ Dies
           /\ UNCHANGED toHost
  /\ UNCHANGED <<manifest, host, table, fate>>

\* Executions and checks take turns at the driver.
BeginJob(i) ==
  /\ job[i] = "queued" /\ lock = Nobody
  /\ lock' = i
  /\ job' = [job EXCEPT ![i] = "running"]
  /\ UNCHANGED <<manifest, host, table, fate, toDriver, toHost, child>>

\* The driver returns, with or without regard to its token.
EndJob(i) ==
  /\ job[i] = "running"
  /\ lock' = Nobody
  /\ \/ /\ job' = [job EXCEPT ![i] = "done"]
        /\ Say(IF i \in Executes THEN "result" ELSE "checked", i)
     \/ /\ i \in Executes
        /\ job' = [job EXCEPT ![i] = "erred"]
        /\ Say("failure", i)
  /\ UNCHANGED <<manifest, host, table, fate, toDriver, child>>

Exit ==
  /\ child # "dead"
  /\ Dies
  /\ UNCHANGED <<manifest, host, table, fate, toHost>>

------------------------------------------------------------------------------
CallStep(e) ==
  \/ Start(e) \/ EnterGate(e) \/ EnterTable(e) \/ Write(e) \/ Conclude(e)
  \/ Overdue(e) \/ HearCancel(e) \/ HearAcknowledgement(e) \/ PatienceEnds(e)

HostStep ==
  \/ \E v \in Checks : BeginCheck(v) \/ EndCheck(v)
  \/ BeginShutdown \/ EndShutdown \/ DropProvider
  \/ ReadFrame \/ Drain \/ Kill \/ NoticeExit

DriverStep ==
  Serve \/ Exit \/ \E i \in Executes \cup Checks : BeginJob(i) \/ EndJob(i)

LinkNext ==
  \/ \E e \in Executes : CallStep(e) \/ DropCall(e) \/ CancelContext(e)
  \/ HostStep
  \/ DriverStep

\* The host's tasks run, deadlines included; nothing is assumed of the driver.
LinkFairness ==
  /\ \A e \in Executes : WF_linkVars(CallStep(e))
  /\ WF_linkVars(ReadFrame \/ Drain)
  /\ WF_linkVars(Kill) /\ WF_linkVars(NoticeExit)

LinkSafety == LinkInit /\ [][LinkNext]_linkVars
LinkSpec   == LinkSafety /\ LinkFairness

------------------------------------------------------------------------------
(* Correctness. *)

\* A frame in a pipe.
InPipe(f, pipe) == \E n \in DOMAIN pipe : pipe[n] = f

\* The driver has, or may still get, work to do for e.
AtWork(e) == \/ InPipe(Frame("execute", e), toDriver) /\ child = "running"
             \/ job[e] \in {"queued", "running"}

\* What execute returns is true of the process at the other end: a value is what the
\* driver returned for this request, a known failure means the driver never got it.
VerdictsAreTrue ==
  \A e \in Executes :
    /\ returned[e] = "ok" => job[e] = "done"
    /\ returned[e] = "failed" => job[e] = "erred"
    /\ returned[e] = "refused" => job[e] = "none" /\ ~AtWork(e)

\* No execution outlives its call: once execute has returned, whatever the reason, the
\* driver is not working on the command, or it has been told to die.
NoRunawayExecution ==
  \A e \in Executes : call[e] = "over" => ~AtWork(e) \/ terminate

\* A driver that behaves is killed for a reason: an execution without a known end, a
\* request the host has forgotten, or the shutdown.  In particular no answer meets a table
\* that has no entry for it yet, or not any more, unless a deadline removed it.
KilledForAReason ==
  terminate => \/ \E e \in Executes : returned[e] = "unknown"
               \/ \E v \in Checks : check[v] = "forgotten"
               \/ closing # "no"
               \/ child = "dead"

\* Every execution returns, unless its future is dropped, however the driver behaves.
CallsReturn == [](\A e \in Executes : call[e] \in Live => <>(call[e] \in {"over", "dropped"}))
=============================================================================
