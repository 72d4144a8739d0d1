-------------------------------- MODULE Jobs --------------------------------
(***************************************************************************)
(* The broker's job store (crates/core/src/jobs.rs), the task start_job    *)
(* spawns for each job, and everyone that touches the store concurrently:  *)
(* clients, recipe steps of other jobs, session revocation and shutdown.   *)
(* Progress reports (update_progress) are left out.                        *)
(*                                                                         *)
(* The store is behind one mutex: a store operation is one action.  What   *)
(* the code does after unlocking is another: publishing the event of an    *)
(* operation is always separate from the operation.                        *)
(*                                                                         *)
(* Result bodies and time stamps are abstracted away.                      *)
(***************************************************************************)
EXTENDS Integers, FiniteSets

CONSTANTS Jobs,                 \* identifiers unique_id() may hand out
          Sessions,             \* session tickets
          None,
          MaxJobs,              \* MAX_JOBS
          MaxSessionJobs,       \* MAX_SESSION_JOBS
          MaxActivePerSession   \* MAX_ACTIVE_PER_SESSION

ASSUME LimitsAssumption == /\ MaxJobs \in Nat
                           /\ MaxSessionJobs \in Nat
                           /\ MaxActivePerSession \in Nat
ASSUME JobsAssumption   == IsFiniteSet(Jobs)
ASSUME NoneAssumption   == None \notin Jobs \cup Sessions

VARIABLES state,      \* snapshot.state of each entry, "absent" without an entry
          place,      \* position of each entry in the queue `order`, else 0
          owner,      \* the session a job was requested in
          requested,  \* snapshot.cancellation_requested
          token,      \* the job's cancellation token is cancelled
          task,       \* where start_job and the spawned task are
          parent,     \* the job whose recipe step is inside start_job, or None
          verdict,    \* what the returned envelope makes of the job, or None
          told,       \* the last lifecycle event published for the job
          notices,    \* how many job.cancel_requested events were published
          pending,    \* cancellations that unlocked and have not published yet
          revoked,    \* sessions the broker was told to revoke
          stopping    \* runtime_stop is cancelled

entry  == <<state, place, owner, requested>>
events == <<told, notices, pending>>
broker == <<revoked, stopping>>
vars   == <<entry, token, task, parent, verdict, events, broker>>

Verdicts == {"succeeded", "cancelled", "failed"}
Entries  == {j \in Jobs : state[j] # "absent"}
Terminal == {j \in Jobs : state[j] \in Verdicts}
OwnedBy(s) == {j \in Entries : owner[j] = s}

Init == /\ state = [j \in Jobs |-> "absent"]
        /\ place = [j \in Jobs |-> 0]
        /\ owner = [j \in Jobs |-> None]
        /\ requested = [j \in Jobs |-> FALSE]
        /\ token = [j \in Jobs |-> FALSE]
        /\ task = [j \in Jobs |-> "new"]
        /\ parent = [j \in Jobs |-> None]
        /\ verdict = [j \in Jobs |-> None]
        /\ told = [j \in Jobs |-> "nothing"]
        /\ notices = [j \in Jobs |-> 0]
        /\ pending = {}
        /\ revoked = {}
        /\ stopping = FALSE

-----------------------------------------------------------------------------
(* start_job: the checks before the store is locked. *)

\* The synchronous stretch of perform and start_job from the cancellation check
\* to the publication of job.queued; the requester waits for it.
Starting(j) == task[j] \in {"checked", "reserved"}

Check(s, p, j) == /\ task[j] = "new"
                  /\ ~stopping
                  /\ task' = [task EXCEPT ![j] = "checked"]
                  /\ owner' = [owner EXCEPT ![j] = s]
                  /\ parent' = [parent EXCEPT ![j] = p]
                  /\ UNCHANGED <<state, place, requested, token, verdict, events,
                                 broker>>

\* jobs.start sent by a client: its session is live while the request is.
ClientStart(s, j) == s \notin revoked /\ Check(s, None, j)

\* jobs.start as a step of a recipe that job p runs; perform has just seen p's
\* token not cancelled.
StepStart(p, j) == /\ task[p] = "executing"
                   /\ ~token[p]
                   /\ \A i \in Jobs : parent[i] # p
                   /\ Check(owner[p], p, j)

-----------------------------------------------------------------------------
(* JobStore::reserve *)

\* The n oldest members of S.
Newest(S, n) == {j \in S : Cardinality({i \in S : place[i] > place[j]}) < n}  \* faulty
Oldest(S, n) == {j \in S : Cardinality({i \in S : place[i] < place[j]}) < n}

\* How many of S a retention limit wants gone before one more may be inserted.
Excess(S, limit) == IF Cardinality(S) < limit THEN 0
                    ELSE Cardinality(S) - limit + 1

EvictedForSession(s) ==
  Oldest(OwnedBy(s) \cap Terminal, Excess(OwnedBy(s), MaxSessionJobs))

SessionHasRoom(s) ==
  Cardinality(OwnedBy(s) \ EvictedForSession(s)) < MaxSessionJobs

EvictedForBroker(s) ==
  LET kept == Entries \ EvictedForSession(s)
  IN  Oldest(kept \cap Terminal, Excess(kept, MaxJobs))

\* What the two eviction loops have removed when reserve returns: the second is
\* not reached when the first gives up, and a later refusal restores nothing.
Evicted(s) == IF SessionHasRoom(s)
              THEN EvictedForSession(s) \cup EvictedForBroker(s)
              ELSE EvictedForSession(s)

MayRunOneMore(s) == Cardinality(OwnedBy(s) \ Terminal) < MaxActivePerSession

Admits(s) == /\ SessionHasRoom(s)
             /\ Cardinality(Entries \ Evicted(s)) < MaxJobs
             /\ MayRunOneMore(s)

\* entries and order without some jobs.
StatesWithout(gone) == [j \in Jobs |-> IF j \in gone THEN "absent" ELSE state[j]]
RequestsWithout(gone) == [j \in Jobs |-> requested[j] /\ j \notin gone]

PlacesKept(gone) == place   \* faulty: order is not retained
PlacesWithout(gone) ==
  [j \in Jobs |-> IF j \in gone \/ j \notin Entries THEN 0
                  ELSE place[j] - Cardinality({i \in gone : place[i] < place[j]})]

Reserve(j) ==
  /\ task[j] = "checked"
  /\ Admits(owner[j])
  /\ LET gone == Evicted(owner[j])
     IN  /\ state' = [StatesWithout(gone) EXCEPT ![j] = "queued"]
         /\ place' = [PlacesWithout(gone) EXCEPT
                        ![j] = 1 + Cardinality(Entries \ gone)]
         /\ requested' = RequestsWithout(gone)
  /\ token' = [token EXCEPT ![j] = stopping]
  /\ task' = [task EXCEPT ![j] = "reserved"]
  /\ UNCHANGED <<owner, parent, verdict, events, broker>>

Refuse(j) ==
  /\ task[j] = "checked"
  /\ ~Admits(owner[j])
  /\ state' = StatesWithout(Evicted(owner[j]))
  /\ place' = PlacesWithout(Evicted(owner[j]))
  /\ requested' = RequestsWithout(Evicted(owner[j]))
  /\ task' = [task EXCEPT ![j] = "refused"]
  /\ parent' = [parent EXCEPT ![j] = None]
  /\ UNCHANGED <<owner, token, verdict, events, broker>>

-----------------------------------------------------------------------------
(* The rest of start_job and the spawned task. *)

Tell(j, kind) == /\ told' = [told EXCEPT ![j] = kind]
                 /\ UNCHANGED <<notices, pending>>

\* job.queued is published before the task exists.
AnnounceQueued(j) ==
  /\ task[j] = "reserved"
  /\ Tell(j, "queued")
  /\ task' = [task EXCEPT ![j] = "spawned"]
  /\ parent' = [parent EXCEPT ![j] = None]
  /\ UNCHANGED <<entry, token, verdict, broker>>

\* mark_running; a job revoked meanwhile is executed all the same, unannounced.
StuckWhenForgotten(j) == IF j \in Entries THEN "marked" ELSE "spawned"   \* faulty
AfterMarking(j) == IF j \in Entries THEN "marked" ELSE "ready"

MarkRunning(j) ==
  /\ task[j] = "spawned"
  /\ state' = [state EXCEPT ![j] = IF @ = "queued" THEN "running" ELSE @]
  /\ task' = [task EXCEPT ![j] = AfterMarking(j)]
  /\ UNCHANGED <<place, owner, requested, token, parent, verdict, events, broker>>

AnnounceStarted(j) ==
  /\ task[j] = "marked"
  /\ Tell(j, "started")
  /\ task' = [task EXCEPT ![j] = "ready"]
  /\ UNCHANGED <<entry, token, parent, verdict, broker>>

\* The nested request reaches perform's first cancellation check and passes it.
Authorize(j) ==
  /\ task[j] = "ready"
  /\ ~token[j]
  /\ task' = [task EXCEPT ![j] = "executing"]
  /\ UNCHANGED <<entry, token, parent, verdict, events, broker>>

\* It does not: cancelled before authorization, or refused even earlier (the
\* command disappeared, the arguments are invalid, the audit is not writable).
TurnAway(j) ==
  /\ task[j] = "ready"
  /\ \E v \in {"cancelled", "failed"} :
       /\ v = "cancelled" => token[j]
       /\ verdict' = [verdict EXCEPT ![j] = v]
  /\ task' = [task EXCEPT ![j] = "returned"]
  /\ UNCHANGED <<entry, token, parent, events, broker>>

\* The execution returns any envelope, also an unrequested Cancelled from a
\* provider and a success that won the race against a cancellation.
Return(j) ==
  /\ task[j] = "executing"
  /\ \A i \in Jobs : parent[i] # j
  /\ \E v \in Verdicts : verdict' = [verdict EXCEPT ![j] = v]
  /\ task' = [task EXCEPT ![j] = "returned"]
  /\ UNCHANGED <<entry, token, parent, events, broker>>

\* JobStore::finish
ConcludedAsRequested(j) ==   \* faulty: trusts the request, not the envelope
  [state EXCEPT ![j] = IF requested[j] THEN "cancelled" ELSE verdict[j]]
Concluded(j) == [state EXCEPT ![j] = verdict[j]]

Finish(j) ==
  /\ task[j] = "returned"
  /\ \/ /\ j \in Entries
        /\ state' = Concluded(j)
        /\ task' = [task EXCEPT ![j] = "closing"]
        /\ UNCHANGED verdict
     \/ /\ j \notin Entries
        /\ task' = [task EXCEPT ![j] = "done"]
        /\ verdict' = [verdict EXCEPT ![j] = None]
        /\ UNCHANGED state
  /\ UNCHANGED <<place, owner, requested, token, parent, events, broker>>

\* The task publishes the snapshot finish returned, not the current entry.
SnapshotState(j) == verdict[j]

AnnounceVerdict(j) ==
  /\ task[j] = "closing"
  /\ Tell(j, SnapshotState(j))
  /\ task' = [task EXCEPT ![j] = "done"]
  /\ verdict' = [verdict EXCEPT ![j] = None]
  /\ UNCHANGED <<entry, token, parent, broker>>

-----------------------------------------------------------------------------
(* Operations of others on the store. *)

\* jobs.cancel: only the owner's, only an active job; repeating it changes
\* nothing more.
LeftToTheTask(j)  == state
TokenCancelled(j) == [token EXCEPT ![j] = TRUE]
FirstNotice(j)    == IF requested[j] THEN pending ELSE pending \cup {j}

Cancel(s, j) ==
  /\ s \notin revoked
  /\ j \in OwnedBy(s) \ Terminal
  /\ requested' = [requested EXCEPT ![j] = TRUE]
  /\ state' = LeftToTheTask(j)
  /\ token' = TokenCancelled(j)
  /\ pending' = FirstNotice(j)
  /\ UNCHANGED <<place, owner, task, parent, verdict, told, notices, broker>>

\* cancel_job publishes after unlocking; the job may have ended by now.
AnnounceCancel(j) ==
  /\ j \in pending
  /\ pending' = pending \ {j}
  /\ notices' = [notices EXCEPT ![j] = @ + 1]
  /\ UNCHANGED <<entry, token, task, parent, verdict, told, broker>>

\* Broker::revoke_session, called for a session with no request in flight.
ActiveJobsOf(s) == OwnedBy(s) \ Terminal   \* faulty: keeps the finished ones
JobsOf(s)   == OwnedBy(s)
TokensOf(s) == [j \in Jobs |-> token[j] \/ j \in OwnedBy(s)]

Revoke(s) ==
  /\ s \notin revoked
  /\ \A j \in Jobs : ~(Starting(j) /\ parent[j] = None /\ owner[j] = s)
  /\ revoked' = revoked \cup {s}
  /\ state' = StatesWithout(JobsOf(s))
  /\ place' = PlacesWithout(JobsOf(s))
  /\ requested' = RequestsWithout(JobsOf(s))
  /\ token' = TokensOf(s)
  /\ UNCHANGED <<owner, task, parent, verdict, events, stopping>>

\* Broker::shutdown cancels runtime_stop, the parent of every job token.
Stop == /\ ~stopping
        /\ stopping' = TRUE
        /\ token' = [j \in Jobs |-> token[j] \/ task[j] \notin {"new", "checked",
                                                               "refused"}]
        /\ UNCHANGED <<entry, task, parent, verdict, events, revoked>>

-----------------------------------------------------------------------------
TaskStep(j) == \/ Reserve(j) \/ Refuse(j) \/ AnnounceQueued(j) \/ MarkRunning(j)
               \/ AnnounceStarted(j) \/ Authorize(j) \/ TurnAway(j) \/ Return(j)
               \/ Finish(j) \/ AnnounceVerdict(j)

Next == \/ \E j \in Jobs : \/ TaskStep(j)
                           \/ \E s \in Sessions : ClientStart(s, j) \/ Cancel(s, j)
                           \/ \E p \in Jobs : StepStart(p, j)
                           \/ AnnounceCancel(j)
        \/ \E s \in Sessions : Revoke(s)
        \/ Stop

\* Tokio polls a spawned task while it can make progress, and every await of the
\* execution is bounded by a timeout, so each task step eventually happens.
Fairness == \A j \in Jobs : WF_vars(TaskStep(j))

Safety == Init /\ [][Next]_vars
Spec   == Safety /\ Fairness

-----------------------------------------------------------------------------
(* Correctness. *)

States  == {"absent", "queued", "running"} \cup Verdicts
Tasks   == {"new", "checked", "refused", "reserved", "spawned", "marked", "ready",
            "executing", "returned", "closing", "done"}
Stories == {"nothing", "queued", "started"} \cup Verdicts

\* The variables hold what their declarations say.
TypeOK == /\ state \in [Jobs -> States]
          /\ place \in [Jobs -> Int]
          /\ owner \in [Jobs -> Sessions \cup {None}]
          /\ requested \in [Jobs -> BOOLEAN]
          /\ token \in [Jobs -> BOOLEAN]
          /\ task \in [Jobs -> Tasks]
          /\ parent \in [Jobs -> Jobs \cup {None}]
          /\ verdict \in [Jobs -> Verdicts \cup {None}]
          /\ told \in [Jobs -> Stories]
          /\ notices \in [Jobs -> Nat]
          /\ pending \in SUBSET Jobs
          /\ revoked \in SUBSET Sessions
          /\ stopping \in BOOLEAN

\* The three limits of the store hold at every moment, whichever sessions and
\* recipe steps reserve at the same time (jobs.rs reserve).
RetentionBounds ==
  /\ Cardinality(Entries) <= MaxJobs
  /\ \A s \in Sessions : /\ Cardinality(OwnedBy(s)) <= MaxSessionJobs
                         /\ Cardinality(OwnedBy(s) \ Terminal) <= MaxActivePerSession

\* The queue `order` holds exactly the entries, each once, through insertion,
\* both kinds of eviction and revocation (jobs.rs order.retain).
OrderMatchesEntries ==
  {place[j] : j \in Entries} = 1..Cardinality(Entries)

\* Three checks before one insertion, two eviction loops and revocation leave a
\* store within its limits whose queue is in step with it (jobs.rs reserve).
StoreIsSound == RetentionBounds /\ OrderMatchesEntries

\* A job whose cancellation was acknowledged has its token cancelled, so the
\* provider that executes it can see it (jobs.rs cancel).
AcknowledgedCancelReachesTheTask == \A j \in Jobs : requested[j] => token[j]

\* The broker never tells an owner a verdict that jobs.get contradicts, although
\* the event is published after the store was unlocked (jobs.rs start_job).
AnnouncedVerdictIsTheStoredOne ==
  \A j \in Entries : told[j] \in Verdicts => state[j] = told[j]

\* A repeated jobs.cancel is announced once, also when the repetitions race
\* with each other and with the end of the job (jobs.rs cancel_job).
CancellationAnnouncedOnce ==
  \A j \in Jobs : notices[j] + (IF j \in pending THEN 1 ELSE 0) <= 1

\* What a session is told of its jobs, by an answer or by an event, agrees with
\* what was done, whoever published last (jobs.rs start_job, cancel_job).
OwnerIsToldTheTruth == /\ AcknowledgedCancelReachesTheTask
                       /\ AnnouncedVerdictIsTheStoredOne
                       /\ CancellationAnnouncedOnce

\* An active job leaves the store only when its session is revoked: the
\* retention limits take finished jobs only (jobs.rs remove_oldest_terminal).
OnlyFinishedJobsAreEvicted ==
  [][\A j \in Entries : j \notin Entries' =>
       j \in Terminal \/ owner[j] \in revoked' \ revoked]_vars

\* A session's reservation costs another session a retained result only when
\* the whole broker is full, and a result is never sacrificed while an older one
\* of the same session is kept (jobs.rs reserve).
EvictionIsOldestFirst ==
  [][revoked' = revoked =>
       \A j \in Entries \ Entries' :
         /\ \A i \in Jobs : /\ task[i] = "checked" /\ task'[i] # "checked"
                            /\ owner[i] # owner[j]
                            => Cardinality(Entries) >= MaxJobs
         /\ \A i \in Terminal : /\ i \in Entries' /\ owner[i] = owner[j]
                                => place[j] < place[i]]_vars

\* Evictions take what has ended, and of that the oldest first (jobs.rs reserve).
EvictionsAreFair == OnlyFinishedJobsAreEvicted /\ EvictionIsOldestFirst

\* A verdict is final: a finished job changes in no way but by being forgotten,
\* and nothing brings a forgotten job back (jobs.rs finish, revoke_session).
VerdictIsFinal ==
  [][\A j \in Jobs :
       /\ j \in Terminal => state'[j] \in {state[j], "absent"}
       /\ j \notin Entries /\ task[j] \notin {"new", "checked"}
            => state'[j] = "absent"]_vars

\* A job is cancelled by its owner, by the revocation of its owner's session or
\* by shutdown; never by what happens to another session (jobs.rs revoke_session).
CancellationIsScoped ==
  [][\A j \in Jobs : token'[j] # token[j] =>
       \/ stopping'
       \/ owner[j] \in revoked' \ revoked
       \/ requested'[j] /\ ~requested[j]]_vars

\* Once shutdown begins every job task ends, also one that start_job was about
\* to spawn (lib.rs shutdown waits for job_tasks).
ShutdownDrainsTheTasks ==
  stopping ~> \A j \in Jobs : task[j] \in {"new", "refused", "done"}

\* docs/events-jobs.md: "Session revocation cancels and forgets that session's
\* jobs".  A revoked session owns no job.
RevokedSessionKeepsNoJobs == \A s \in revoked : OwnedBy(s) = {}

-----------------------------------------------------------------------------
(* The store, its tasks and its events keep the promise. *)

Phase(j) == IF state[j] # "absent" THEN state[j]
            ELSE IF task[j] \in {"new", "checked", "refused"} THEN "none"
            ELSE "forgotten"

Promise == INSTANCE JobPromise
             WITH phase <- [j \in Jobs |-> Phase(j)],
                  owner <- [j \in Jobs |-> IF Phase(j) = "none" THEN None
                                           ELSE owner[j]]

\* Every step of the store, the tasks and the publications is a step of
\* JobPromise or leaves it unchanged.
KeepsThePromise == Promise!Safety

\* An accepted job concludes or is forgotten.
JobsSettle == Promise!Settles

\* Nobody waits for a job's end for ever, neither its owner nor shutdown
\* (lib.rs shutdown, jobs.rs start_job).
JobsEnd == JobsSettle /\ ShutdownDrainsTheTasks
=============================================================================
