------------------------------ MODULE MCSessions -----------------------------
(***************************************************************************)
(* What the daemon does for its clients, for TLC: the requests of their    *)
(* connections (Sessions), and beside them what becomes of the Subscribe   *)
(* frames (Events) and of the jobs (Jobs) in the end.  The three share no  *)
(* state, so a behaviour is one of one of them, and the others stay as     *)
(* they began; all need their fairness, so the run declares no symmetry.   *)
(***************************************************************************)
EXTENDS Sessions

CONSTANTS own, foreign, Subs, Capacity, QueueSize, MaxEvents, MaxRestarts

CONSTANTS Jobs, Owners, MaxJobs, MaxSessionJobs, MaxActivePerSession,
          FirstJob, FirstOwner     \* the job and the owner whose names come first

VARIABLES part,
          state, place, owner, requested, token, work, parent, verdict, told, notices,
          pending, forgotten, stopping,
          log, oldest, restarts, step, after, position, hand, last, base, aborted, out, cursor

Stream == INSTANCE Events WITH Audiences <- {own, foreign}, Mine <- {own}

Store == INSTANCE Jobs WITH Sessions <- Owners, task <- work, revoked <- forgotten

store  == <<state, place, owner, requested, token, work, parent, verdict, told, notices,
            pending, forgotten, stopping>>
stream == <<log, oldest, restarts, step, after, position, hand, last, base, aborted, out, cursor>>
both   == <<part, vars, stream, store>>

InSessions(A) == part = "sessions" /\ A /\ UNCHANGED <<part, stream, store>>
InStream(A)   == part = "stream" /\ A /\ UNCHANGED <<part, vars, store>>
InStore(A)    == part = "jobs" /\ A /\ UNCHANGED <<part, vars, stream>>

MCInit == part \in {"sessions", "stream", "jobs"} /\ Init /\ Stream!Init /\ Store!Init

\* Tickets and connections have no order; the one they get here is the order of their use,
\* so that no two behaviours differ only in the names of the sessions and connections.
InOrder == /\ \A t, u \in Tickets : t < u /\ entry'[u] # "unused" => entry'[t] # "unused"
           /\ \A c, d \in Conns : c < d /\ conn'[d] # "new" => conn'[c] # "new"

\* Nor have the owners of jobs: one of them is that of the first job.
OwnerInOrder == owner'[FirstJob] \in {None, FirstOwner}

MCNext == \/ InSessions(Next /\ InOrder) \/ InStream(Stream!Next)
          \/ InStore(Store!Next /\ OwnerInOrder)

\* Of the fairness of Sessions, Events and Jobs only this: some connection, request,
\* subscription or task goes on.  None of them goes on for ever, so it comes to the same.
FairStep == \/ InSessions(\/ \E c \in Conns : ConnStep(c)
                          \/ \E k \in Keys : Return(k) \/ Finish(k)
                          \/ Shutdown)
            \/ InStream(\/ \E s \in Subs : Stream!SubStep(s)
                        \/ Stream!Write
                        \/ out # <<>> /\ Stream!Disconnect)
            \/ InStore(\E j \in Jobs : Store!TaskStep(j))

MCFairness == WF_both(FairStep)

MCSpec == MCInit /\ [][MCNext]_both /\ MCFairness

\* No subscription is left behind for ever (Events, server.rs).
EventsArriveOrTheFeedEnds == Stream!EventsArriveOrTheFeedEnds

\* Every job ends or is forgotten, and shutdown drains the tasks (Jobs, lib.rs).
JobsEnd == Store!JobsEnd
=============================================================================
