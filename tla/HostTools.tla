------------------------------ MODULE HostTools ------------------------------
(***************************************************************************)
(* The tools that a driver runs through its host (protocol v4 to v8): one- *)
(* shot executions, detached jobs and persistent sessions.  The host's     *)
(* half is the reader task of crates/driver-host, with one task per call;  *)
(* the driver's half is DriverExecutionContext in crates/driver-sdk.       *)
(*                                                                         *)
(* A call belongs to an execution, its parent, which the host knows until  *)
(* it has read the parent's result.  A parent has one call at a time; the  *)
(* host answers a second one by ending the driver.  Jobs and sessions are  *)
(* named after the call that started them.                                 *)
(***************************************************************************)
EXTENDS Naturals, Sequences, FiniteSets

CONSTANTS
  MaxParents,    \* bound: executions of the driver, numbered as they begin
  NoCall,        \* no call
  CallLimit,     \* MAX_HOST_TOOL_CALLS
  JobLimit,      \* MAX_HOST_TOOL_JOBS
  SessionLimit,  \* MAX_HOST_TOOL_SESSIONS
  Repertoires,   \* bound: sets of kinds of calls, of which a driver uses one
  MaxMade,       \* bound: calls ever made
  MaxLost        \* bound: executions that give up waiting for a call

Cleanup   == {"cancel", "close"}            \* calls that a cancelled parent may still make
Opening  == {"start", "open"}
OnJob     == {"status", "cancel"}
OnSession == {"use", "close"}
Kinds     == {"execute"} \cup Opening \cup OnJob \cup OnSession

ASSUME ToolsAssumption ==
  /\ NoCall \notin Nat /\ MaxParents \in Nat /\ Repertoires \subseteq SUBSET Kinds
  /\ CallLimit \in Nat \ {0} /\ JobLimit \in Nat /\ SessionLimit \in Nat
  /\ MaxMade \in Nat /\ MaxLost \in Nat

VARIABLES
  repertoire, \* the kinds of calls this driver makes
  home,       \* [Parents -> the broker session it runs for]
  turn,       \* [Parents -> place of its task in the driver]
  tokens,      \* parents whose tokens is cancelled in the driver
  awaits,     \* [Parents -> the call it waits for, or NoCall]
  lost,       \* parents that gave up waiting for a call
  handles,    \* jobs and sessions the driver was told of
  learned,    \* jobs and sessions the driver was told are over
  wire,       \* what the driver has written: calls, and results of parents
  up,         \* the driver process runs
  known,      \* the host's table of pending requests: parents without a result
  made,       \* the calls, in the order they were made
  stage,      \* [Calls -> where the host is with it]
  outcome,    \* [Calls -> what the host will answer]
  registered, \* calls in tool_calls, whose parents are in tool_parents
  jobs,       \* the keys of host_tool_jobs
  sessions,   \* the keys of host_tool_sessions
  proc,       \* [Calls -> the process it started]
  loop,       \* stage of the reader
  refused     \* the call the host ended the driver for, or NoCall

driverVars == <<turn, tokens, awaits, lost, handles, learned>>
callVars   == <<stage, outcome, registered>>
ownedVars  == <<jobs, sessions, proc>>
loopVars   == <<loop, refused>>
toolsVars  == <<repertoire, home, driverVars, wire, up, known, made, callVars, ownedVars, loopVars>>

Parents  == 1 .. MaxParents
Calls    == 1 .. MaxMade
\* A session is named after the first execution it has.
Homes    == {h \in [Parents -> Parents] : \A p \in Parents : h[p] <= p /\ h[h[p]] = h[p]}

Parent(c)  == made[c].parent
Kind(c)    == made[c].kind
Subject(c) == made[c].subject
Home(c)    == home[Parent(c)]
Is(c, k, where) == c \in DOMAIN made /\ Kind(c) = k /\ stage[c] = where

Call(c)   == [call |-> c]       \* what the wire carries
Result(p) == [result |-> p]

ToolsInit ==
  /\ repertoire \in Repertoires /\ home \in Homes
  /\ turn = [p \in Parents |-> "idle"] /\ tokens = {} /\ awaits = [p \in Parents |-> NoCall]
  /\ lost = {} /\ handles = {} /\ learned = {}
  /\ wire = <<>> /\ up = TRUE /\ known = {} /\ made = <<>>
  /\ stage = [c \in Calls |-> "none"] /\ outcome = [c \in Calls |-> "none"] /\ registered = {}
  /\ jobs = {} /\ sessions = {} /\ proc = [c \in Calls |-> "none"]
  /\ loop = "reading" /\ refused = NoCall

------------------------------------------------------------------------------
(* The driver. *)

\* The host has entered the request and written it before the driver reads it, and
\* executions take turns at the driver.
BeginParent(p) ==
  /\ up /\ loop = "reading" /\ turn[p] = "idle"
  /\ \A q \in Parents : (q < p => turn[q] # "idle") /\ turn[q] # "running"
  /\ known' = known \cup {p}
  /\ turn' = [turn EXCEPT ![p] = "running"]
  /\ UNCHANGED <<repertoire, home, tokens, awaits, lost, handles, learned, wire, up, made,
                 callVars, ownedVars, loopVars>>

\* The host forwards the cancellation of an execution.
CancelParent(p) ==
  /\ turn[p] = "running" /\ p \notin tokens
  /\ tokens' = tokens \cup {p}
  /\ UNCHANGED <<repertoire, home, turn, awaits, lost, handles, learned, wire, up, known, made,
                 callVars, ownedVars, loopVars>>

MayCall(p, k) == p \in tokens => k \in Cleanup

MakeCall(p, k, s) ==
  /\ turn[p] = "running" /\ awaits[p] = NoCall /\ MayCall(p, k) /\ Len(made) < MaxMade
  /\ s \in IF k \in OnJob \cup OnSession THEN handles ELSE {NoCall}
  /\ k \in OnJob => Kind(s) = "start"
  /\ k \in OnSession => Kind(s) = "open"
  /\ LET c == Len(made) + 1
     IN  /\ made' = Append(made, [kind |-> k, parent |-> p, subject |-> s])
         /\ awaits' = [awaits EXCEPT ![p] = c]
         /\ wire' = Append(wire, Call(c))
  /\ UNCHANGED <<repertoire, home, turn, tokens, lost, handles, learned, up, known, callVars,
                 ownedVars, loopVars>>

\* The wait ends early: cancelled, unless it is a cleanup call, or overdue.
GiveUpCall(p) ==
  /\ awaits[p] # NoCall /\ turn[p] = "running"
  /\ Cardinality(lost \cup {p}) <= MaxLost
  /\ awaits' = [awaits EXCEPT ![p] = NoCall]
  /\ lost' = lost \cup {p}
  /\ UNCHANGED <<repertoire, home, turn, tokens, handles, learned, wire, up, known, made,
                 callVars, ownedVars, loopVars>>

EndParent(p) ==
  /\ turn[p] = "running" /\ awaits[p] = NoCall
  /\ turn' = [turn EXCEPT ![p] = "over"]
  /\ wire' = Append(wire, Result(p))
  /\ UNCHANGED <<repertoire, home, tokens, awaits, lost, handles, learned, up, known, made,
                 callVars, ownedVars, loopVars>>

\* All it knew is gone, and so is what the host has not read: what it reads in spite of
\* that, it may as well have read before.
DriverGoes ==
  /\ up' = FALSE /\ wire' = <<>>
  /\ turn' = [p \in Parents |-> "over"] /\ awaits' = [p \in Parents |-> NoCall]
  /\ handles' = {}

DriverDies ==
  /\ up /\ DriverGoes /\ tokens' = {}
  /\ UNCHANGED <<repertoire, home, lost, learned, known, made, callVars, ownedVars, loopVars>>

------------------------------------------------------------------------------
(* The host's reader. *)

\* host_tool_parent and register_host_tool_call.
AdmitsCall(c) ==
  /\ Parent(c) \in known
  /\ Cardinality(registered) < CallLimit
  /\ \A d \in registered : Parent(d) # Parent(c)

\* The driver hears the answer, if it still waits for it.
Hears(c, o) ==
  IF awaits[Parent(c)] = c
  THEN /\ awaits' = [awaits EXCEPT ![Parent(c)] = NoCall]
       /\ handles' = IF o = "started" THEN handles \cup {c} ELSE handles
       /\ learned' = IF o = "ended" THEN learned \cup {Subject(c)} ELSE learned
       /\ UNCHANGED <<turn, tokens, lost>>
  ELSE UNCHANGED driverVars

\* The reader answers by itself.
Replies(c, o) ==
  /\ stage' = [stage EXCEPT ![c] = "over"]
  /\ Hears(c, o)
  /\ UNCHANGED <<outcome, registered>>

OwnJob(c) == Subject(c) \in jobs /\ Home(Subject(c)) = Home(c)

\* A job that is over is collected with the answer that says so.
Collect(c) ==
  /\ Replies(c, "ended")
  /\ jobs' = jobs \ {Subject(c)}
  /\ UNCHANGED <<sessions, proc, loop>>

AnswerStatus(c) ==
  \/ OwnJob(c) /\ proc[Subject(c)] = "ended" /\ Collect(c)
  \/ /\ ~OwnJob(c) \/ proc[Subject(c)] # "ended"
     /\ Replies(c, "other")
     /\ UNCHANGED <<ownedVars, loop>>

AnswerCancel(c) ==
  \/ OwnJob(c) /\ proc[Subject(c)] = "ended" /\ Collect(c)
  \/ /\ OwnJob(c) /\ proc[Subject(c)] # "ended"
     /\ proc' = [proc EXCEPT ![Subject(c)] = "told"]
     /\ Replies(c, "other")
     /\ UNCHANGED <<jobs, sessions, loop>>
  \/ /\ ~OwnJob(c)
     /\ Replies(c, "other")
     /\ UNCHANGED <<ownedVars, loop>>

\* Faulty: the last reference is dropped, and the process goes on.
Abandoned(s) == proc

\* What removing a session from the table does to its process.
Reaped(s) == IF s \in sessions THEN [proc EXCEPT ![s] = "told"] ELSE proc

\* The reader itself waits for the process of a session it closes.
AnswerClose(c) ==
  IF Subject(c) \in sessions
  THEN /\ sessions' = sessions \ {Subject(c)}
       /\ proc' = Reaped(Subject(c))
       /\ loop' = "closing"
       /\ stage' = [stage EXCEPT ![c] = "closing"]
       /\ registered' = registered \cup {c}
       /\ UNCHANGED <<jobs, outcome, driverVars>>
  ELSE Replies(c, "other") /\ UNCHANGED <<ownedVars, loop>>

FinishClose(c) ==
  /\ Is(c, "close", "closing") /\ proc[Subject(c)] = "ended"
  /\ registered' = registered \ {c}
  /\ stage' = [stage EXCEPT ![c] = "over"]
  /\ Hears(c, "ended")
  /\ loop' = "reading"
  /\ UNCHANGED <<repertoire, home, wire, up, known, made, outcome, ownedVars, refused>>

\* Any other call gets a task of its own.
Spawn(c) ==
  /\ registered' = registered \cup {c}
  /\ stage' = [stage EXCEPT ![c] = "working"]
  /\ UNCHANGED <<outcome, driverVars, ownedVars, loop>>

TakeCall(c) ==
  IF AdmitsCall(c)
  THEN /\ \/ Kind(c) = "status" /\ AnswerStatus(c)
          \/ Kind(c) = "cancel" /\ AnswerCancel(c)
          \/ Kind(c) = "close" /\ AnswerClose(c)
          \/ Kind(c) \in {"execute", "start", "open", "use"} /\ Spawn(c)
       /\ wire' = Tail(wire)
       /\ UNCHANGED <<up, refused>>
  ELSE /\ loop' = "broken" /\ refused' = c
       /\ stage' = [stage EXCEPT ![c] = "over"]
       /\ DriverGoes
       /\ UNCHANGED <<tokens, lost, learned, outcome, registered, ownedVars>>

ReadWire ==
  /\ loop = "reading" /\ wire # <<>>
  /\ LET m == Head(wire)
     IN  \/ "call" \in DOMAIN m /\ TakeCall(m.call) /\ UNCHANGED known
         \/ /\ "result" \in DOMAIN m
            /\ known' = known \ {m.result} /\ wire' = Tail(wire)
            /\ UNCHANGED <<driverVars, up, callVars, ownedVars, loopVars>>
  /\ UNCHANGED <<repertoire, home, made>>

ReadEnd ==
  /\ loop = "reading" /\ ~up /\ wire = <<>>
  /\ loop' = "broken"
  /\ UNCHANGED <<repertoire, home, driverVars, wire, up, known, made, callVars, ownedVars, refused>>

\* Faulty: a job that is being started still finds its parent, and stays.
JobsFirst == <<"jobs", "parents", "sessions">>

\* First the parents, then the jobs, then the sessions.
DrainOrder == <<"parents", "jobs", "sessions">>

After(l) == CASE l = "broken" -> DrainOrder[1]
              [] l = DrainOrder[1] -> DrainOrder[2]
              [] l = DrainOrder[2] -> "over"

\* The table the reader empties next.
Draining == CASE loop = "broken" -> DrainOrder[1]
              [] loop = DrainOrder[1] -> DrainOrder[2]
              [] loop = DrainOrder[2] -> DrainOrder[3]

Stopped(set) == [c \in Calls |-> IF c \in set /\ proc[c] = "running" THEN "told" ELSE proc[c]]

DrainNext ==
  /\ loop \in {"broken", DrainOrder[1], DrainOrder[2]}
  /\ loop' = After(loop)
  /\ known' = IF Draining = "parents" THEN {} ELSE known
  /\ jobs' = IF Draining = "jobs" THEN {} ELSE jobs
  /\ sessions' = IF Draining = "sessions" THEN {} ELSE sessions
  /\ proc' = CASE Draining = "jobs" -> Stopped(jobs)
               [] Draining = "sessions" -> Stopped(sessions)
               [] Draining = "parents" -> proc
  /\ UNCHANGED <<repertoire, home, driverVars, wire, up, made, callVars, refused>>

------------------------------------------------------------------------------
(* The host's task for one call.                                           *)

\* Faulty: the call stays registered.
FinishesRegistered(c, o) == /\ stage' = [stage EXCEPT ![c] = "answering"]
                            /\ outcome' = [outcome EXCEPT ![c] = o]
                            /\ UNCHANGED registered

\* Both entries of the call go before the answer is written.
Finishes(c, o) == /\ stage' = [stage EXCEPT ![c] = "answering"]
                  /\ outcome' = [outcome EXCEPT ![c] = o]
                  /\ registered' = registered \ {c}

hostRest == <<repertoire, home, driverVars, wire, up, known, made, loopVars>>

\* A one-shot tool ends by itself or is killed: the task waits for it in either case.
EndTool(c) ==
  /\ Is(c, "execute", "working")
  /\ Finishes(c, "other")
  /\ UNCHANGED <<hostRest, ownedVars>>

StartJob(c) ==
  /\ Is(c, "start", "working")
  /\ IF Cardinality(jobs) < JobLimit
     THEN /\ jobs' = jobs \cup {c}
          /\ proc' = [proc EXCEPT ![c] = "running"]
          /\ Finishes(c, "started")
     ELSE Finishes(c, "other") /\ UNCHANGED <<jobs, proc>>
  /\ UNCHANGED <<hostRest, sessions>>

\* The room is looked up before the process is started and again when it is.
LaunchSession(c) ==
  /\ Is(c, "open", "working")
  /\ \/ /\ Cardinality(sessions) < SessionLimit
        /\ proc' = [proc EXCEPT ![c] = "running"]
        /\ stage' = [stage EXCEPT ![c] = "launched"]
        /\ UNCHANGED <<outcome, registered>>
     \/ Finishes(c, "other") /\ UNCHANGED proc
  /\ UNCHANGED <<hostRest, jobs, sessions>>

\* Faulty: the room is looked up once.
RoomForSessionBefore == TRUE

RoomForSession == Cardinality(sessions) < SessionLimit

EnterSession(c) ==
  /\ Is(c, "open", "launched")
  /\ IF RoomForSession
     THEN sessions' = sessions \cup {c} /\ Finishes(c, "started") /\ UNCHANGED proc
     ELSE Finishes(c, "other") /\ proc' = [proc EXCEPT ![c] = "ended"] /\ UNCHANGED sessions
  /\ UNCHANGED <<hostRest, jobs>>

\* The task that holds the state of a session, with its pipes.
Holder(s) == {d \in DOMAIN made : Is(d, "use", "exchanging") /\ Subject(d) = s}

UseSession(c) ==
  /\ Is(c, "use", "working")
  /\ \/ /\ Subject(c) \in sessions /\ Holder(Subject(c)) = {}
        /\ stage' = [stage EXCEPT ![c] = "exchanging"]
        /\ UNCHANGED <<outcome, registered>>
     \/ Subject(c) \notin sessions /\ Finishes(c, "other")
  /\ UNCHANGED <<hostRest, ownedVars>>

\* A frame; or a failure, a deadline or the parent's end, which cost the session.
EndUse(c) ==
  /\ Is(c, "use", "exchanging")
  /\ \/ /\ Parent(c) \in known
        /\ Finishes(c, "other")
        /\ UNCHANGED ownedVars
     \/ /\ Subject(c) \in sessions
        /\ sessions' = sessions \ {Subject(c)}
        /\ proc' = Reaped(Subject(c))
        /\ stage' = [stage EXCEPT ![c] = "reaping"]
        /\ UNCHANGED <<jobs, outcome, registered>>
     \/ Subject(c) \notin sessions /\ Finishes(c, "other") /\ UNCHANGED ownedVars
  /\ UNCHANGED hostRest

EndReaping(c) ==
  /\ Is(c, "use", "reaping") /\ proc[Subject(c)] = "ended"
  /\ Finishes(c, "other")
  /\ UNCHANGED <<hostRest, ownedVars>>

\* A job or session that nobody will hear of is taken back.  The answer of "use" is
\* written without a look at the parent.
AnswerCall(c) ==
  /\ c \in DOMAIN made /\ stage[c] = "answering"
  /\ stage' = [stage EXCEPT ![c] = "over"]
  /\ outcome' = [outcome EXCEPT ![c] = "none"]
  /\ IF Parent(c) \in known \/ Kind(c) = "use"
     THEN Hears(c, outcome[c]) /\ UNCHANGED ownedVars
     ELSE /\ jobs' = jobs \ {c} /\ sessions' = sessions \ {c}
          /\ proc' = Stopped({c} \cap (jobs \cup sessions))
          /\ UNCHANGED driverVars
  /\ UNCHANGED <<repertoire, home, wire, up, known, made, registered, loopVars>>

\* A job ends by itself, or because its token is cancelled.
EndJobProcess(c) ==
  /\ c \in DOMAIN made /\ Kind(c) = "start" /\ proc[c] \in {"running", "told"}
  /\ proc' = [proc EXCEPT ![c] = "ended"]
  /\ UNCHANGED <<hostRest, callVars, jobs, sessions>>

\* kill and wait, once the state of the session is free.
Reap(c) ==
  /\ c \in DOMAIN made /\ Kind(c) = "open" /\ proc[c] = "told" /\ Holder(c) = {}
  /\ proc' = [proc EXCEPT ![c] = "ended"]
  /\ UNCHANGED <<hostRest, callVars, jobs, sessions>>

\* The lifetime of a session.
ExpireSession(c) ==
  /\ c \in sessions
  /\ sessions' = sessions \ {c}
  /\ proc' = Reaped(c)
  /\ UNCHANGED <<hostRest, callVars, jobs>>

------------------------------------------------------------------------------
ParentStep(p) ==
  \/ BeginParent(p) \/ CancelParent(p) \/ GiveUpCall(p) \/ EndParent(p)
  \/ \E k \in repertoire, s \in handles \cup {NoCall} : MakeCall(p, k, s)

\* What the host's tasks do without anybody's leave.
ToolTask(c) ==
  \/ EndTool(c) \/ StartJob(c) \/ LaunchSession(c) \/ EnterSession(c) \/ UseSession(c)
  \/ EndUse(c) \/ EndReaping(c) \/ AnswerCall(c) \/ FinishClose(c) \/ Reap(c)

Reader == ReadWire \/ ReadEnd \/ DrainNext

ToolsNext ==
  \/ \E p \in Parents : ParentStep(p)
  \/ DriverDies
  \/ Reader
  \/ \E c \in Calls : ToolTask(c) \/ EndJobProcess(c) \/ ExpireSession(c)

ToolsSafety == ToolsInit /\ [][ToolsNext]_toolsVars

------------------------------------------------------------------------------
(* Correctness. *)

ToolsTypeOK ==
  /\ repertoire \in Repertoires /\ home \in Homes
  /\ turn \in [Parents -> {"idle", "running", "over"}]
  /\ tokens \subseteq Parents /\ lost \subseteq Parents /\ known \subseteq Parents
  /\ awaits \in [Parents -> Calls \cup {NoCall}]
  /\ handles \subseteq Calls /\ learned \subseteq Calls
  /\ up \in BOOLEAN
  /\ made \in Seq([kind : Kinds, parent : Parents, subject : Calls \cup {NoCall}])
  /\ Len(made) <= MaxMade
  /\ stage \in [Calls -> {"none", "working", "launched", "exchanging", "reaping",
                          "closing", "answering", "over"}]
  /\ outcome \in [Calls -> {"none", "other", "started"}]
  /\ registered \subseteq Calls
  /\ jobs \subseteq Calls /\ sessions \subseteq Calls
  /\ proc \in [Calls -> {"none", "running", "told", "ended"}]
  /\ loop \in {"reading", "closing", "broken", "over", "parents", "jobs"}
  /\ refused \in Calls \cup {NoCall}

\* A driver that makes one call after the other is not ended for it, unless the parent gave
\* up waiting for one, or as many parents did as the host has room for calls: a call is
\* unregistered when its answer arrives.
RefusedOnlyAfterGivingUp ==
  refused # NoCall => Parent(refused) \in lost \/ Cardinality(lost) >= CallLimit

\* lib.rs:2338 of the SDK and docs/runtime-tools.md:23: a session can be closed, and a job
\* cancelled, by a parent that was cancelled.
CleanupStaysAvailable ==
  refused # NoCall /\ Parent(refused) \in tokens => Kind(refused) \notin Cleanup

\* Everything stays in its type, and no table grows past its limit, although a session is
\* started before it is entered.
TablesStayWithinLimits == /\ ToolsTypeOK
                          /\ Cardinality(registered) <= CallLimit
                          /\ Cardinality(jobs) <= JobLimit
                          /\ Cardinality(sessions) <= SessionLimit

\* What the driver was told is over is over: a job has ended before a status or a
\* cancellation says so, a session's process before its closing is acknowledged.
WhatIsOverHasEnded == \A c \in learned : proc[c] = "ended" /\ c \notin jobs \cup sessions

\* The host can still stop every process it started for the driver: the process is in a
\* table, or its task has yet to enter it or to take it back.
NoProcessIsForgotten ==
  \A c \in Calls : proc[c] = "running" =>
    c \in jobs \cup sessions \/ stage[c] = "launched"

\* lib.rs reap_host_tool_session and the tables: what the host says is over is over, and
\* what it does not say is over it can still end.
ProcessesAreAccountedFor == WhatIsOverHasEnded /\ NoProcessIsForgotten

\* Once the reader is over, and the starts under way with it, nothing runs: every job was
\* cancelled and every session reaped.
NothingOutlivesTheLink ==
  loop = "over" => \A c \in Calls : proc[c] = "running" => stage[c] \notin {"none", "over"}
=============================================================================
