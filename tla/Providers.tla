------------------------------ MODULE Providers -----------------------------
(***************************************************************************)
(* The lease of one dynamic provider (crates/core/src/providers.rs), and   *)
(* the supervisor that restarts its driver (crates/daemon/src/recovery.rs).*)
(* Registration, refresh and recovery read the catalogue, wait, and commit *)
(* only if nothing changed; watchers, the owner, calls, exits and commits  *)
(* about other providers interleave with them.                             *)
(***************************************************************************)
EXTENDS Integers, FiniteSets

CONSTANTS Conns,        \* connections of this provider, each a process
          First,        \* the connection mounted when the daemon started
          Owner,        \* whoever calls the broker's public operations
          Users,        \* executions that use the provider
          None,
          MaxRevision,  \* u64::MAX: the catalogue refuses to go on there
          MaxAttempts   \* RETRY_BACKOFF.len(), 3

ASSUME ConnsAssumption == First \in Conns /\ None \notin Conns /\ Owner \notin Conns
ASSUME BoundAssumption == MaxRevision \in Nat \ {0} /\ MaxAttempts \in Nat

VARIABLES revision, slot, lease, closed,   \* see Catalog
          process,    \* of each connection: "running", "doomed" (its terminate token is
                      \* cancelled, so its monitor kills it) or "ended"
          lifeOver,   \* connections whose lifetime token is cancelled
          epochOver,  \* generations whose epoch token is cancelled
          stopped,    \* runtime_stop, the parent of every lifetime
          pc,         \* what each connection's task, or the owner, is doing
          base,       \* the generation a refresh or replacement started from
          expected,   \* the revision of the candidate catalogue
          hard,       \* invalidate_previous_epoch
          by,         \* "owner" or "recovery": who launched the connection
          sup,        \* the supervisor: "supervising", "backoff", "launching",
                      \* "publishing" or "ended"
          current,    \* the connection it looks after
          attempts,   \* restarts it tried
          pin         \* the generation each call is pinned to, 0 if it is not running

catalogue  == <<revision, slot, lease>>
child      == <<closed, process>>
scopes     == <<lifeOver, epochOver, stopped>>
work       == <<pc, base, expected, hard, by>>
supervisor == <<sup, current, attempts>>
vars == <<catalogue, child, scopes, work, supervisor, pin>>

Workers     == Conns \cup {Owner}
Generations == 1 .. MaxRevision

LifeOver(c)  == c \in lifeOver \/ stopped
EpochOver(g) == g \in epochOver \/ LifeOver(lease[g])

\* ProviderLease::active
Alive(c)  == ~LifeOver(c) /\ c \notin closed
Active(g) == Alive(lease[g]) /\ g \notin epochOver

\* The slot holds a lease of this connection.
Holds(c) == slot # 0 /\ lease[slot] = c

Init == /\ revision = 1
        /\ slot = 1
        /\ lease = [g \in Generations |-> IF g = 1 THEN First ELSE None]
        /\ closed = {}
        /\ process = [c \in Conns |-> "running"]
        /\ lifeOver = {}
        /\ epochOver = {}
        /\ stopped = FALSE
        /\ pc = [w \in Workers |-> IF w \in {First, Owner} THEN "watching" ELSE "unborn"]
        /\ base = [w \in Workers |-> 0]
        /\ expected = [w \in Workers |-> 0]
        /\ hard = [w \in Workers |-> FALSE]
        /\ by = [c \in Conns |-> "owner"]
        /\ sup = "supervising"
        /\ current = First
        /\ attempts = 0
        /\ pin = [x \in Users |-> 0]

-----------------------------------------------------------------------------
(* Commits *)

\* The write lock is held and the catalogue is still the one that was read.
AnyLease(w)   == revision < MaxRevision                    \* faulty: last one wins
Unchanged(w)  == revision = expected[w] /\ slot = base[w]

Publish(c) == /\ revision' = revision + 1
              /\ slot' = revision + 1
              /\ lease' = [lease EXCEPT ![revision + 1] = c]

\* invalidate_connection: the revision moves, or nothing happens.

Invalidate(c) == IF Holds(c) /\ revision < MaxRevision
                 THEN /\ revision' = revision + 1
                      /\ epochOver' = epochOver \cup {slot}
                 ELSE UNCHANGED <<revision, epochOver>>

\* A commit that does not concern this provider.
OtherCommit == /\ revision < MaxRevision
               /\ revision' = revision + 1
               /\ UNCHANGED <<slot, lease, child, scopes, work, supervisor, pin>>

-----------------------------------------------------------------------------
(* DriverProvider: the process, and the tokens that stand for it.  What becomes of *)
(* the close token of a connection that was dropped nobody sees.                   *)

Doomed(c) == process' = [process EXCEPT ![c] = IF @ = "running" THEN "doomed" ELSE @]

\* The process ends by itself, or because it is killed.
Exit(c) == /\ pc[c] # "unborn"
           /\ process' = [process EXCEPT ![c] = "ended"]
           /\ UNCHANGED <<catalogue, closed, scopes, work, supervisor, pin>>

\* The host gives the process up: an execution failed or was cancelled, a shutdown was
\* not obeyed, or nobody holds the provider any more.
Condemn(c) == /\ pc[c] # "unborn"
              /\ Doomed(c)
              /\ UNCHANGED <<catalogue, closed, scopes, work, supervisor, pin>>

\* The reader meets the end of the pipe or a frame it does not accept, and cancels
\* both tokens; or the monitor is through, whether its kill succeeded or not.
Close(c) == /\ pc[c] \notin {"unborn", "dropped"}
            /\ closed' = closed \cup {c}
            /\ Doomed(c)
            /\ UNCHANGED <<catalogue, scopes, work, supervisor, pin>>

-----------------------------------------------------------------------------
(* refresh_connection, by the connection's watcher or by the owner *)

Target(w) == lease[base[w]]

\* A task forgets its locals when it leaves an operation.
Rest(w, state) == /\ pc' = [pc EXCEPT ![w] = state]
                  /\ base' = [base EXCEPT ![w] = 0]
                  /\ expected' = [expected EXCEPT ![w] = 0]
                  /\ hard' = [hard EXCEPT ![w] = FALSE]

\* The provider has a lease, and it is active.
Reachable  == slot # 0 /\ Alive(lease[slot])     \* faulty: forgets the epoch
Refreshable == slot # 0 /\ Active(slot)

\* A watcher is told that the capabilities changed, or (hard) that events were
\* lost or the backend invalidated itself: recover_signal_loss.
BeginRefresh(w, h) ==
  /\ pc[w] = "watching"
  /\ w = Owner => ~h
  /\ Refreshable
  /\ w # Owner => Holds(w)
  /\ pc' = [pc EXCEPT ![w] = "enumerating"]
  /\ base' = [base EXCEPT ![w] = slot]
  /\ hard' = [hard EXCEPT ![w] = h]
  /\ UNCHANGED <<catalogue, child, scopes, expected, by, supervisor, pin>>

\* A watcher invalidates after a soft refresh failed, whatever the error was.
\* Its select is biased: it takes a signal only while the connection is alive.
AfterFailure(w) == IF w = Owner \/ hard[w] THEN "watching" ELSE "failed"

RefusedRefresh(c) ==
  /\ pc[c] = "watching"
  /\ Alive(c)
  /\ ~(Holds(c) /\ Active(slot))
  /\ pc' = [pc EXCEPT ![c] = "failed"]
  /\ UNCHANGED <<catalogue, child, scopes, base, expected, hard, by, supervisor, pin>>

\* The enumeration fails or times out, or the candidate catalogue is invalid.
BadRefresh(w) ==
  /\ pc[w] \in {"enumerating", "validating"}
  /\ Invalidate(Target(w))
  /\ Rest(w, AfterFailure(w))
  /\ UNCHANGED <<slot, lease, child, lifeOver, stopped, by, supervisor, pin>>

\* The candidate is a copy of the catalogue as it is after the enumeration.
Candidate(w) ==
  /\ pc[w] = "enumerating"
  /\ slot = base[w]
  /\ pc' = [pc EXCEPT ![w] = "validating"]
  /\ expected' = [expected EXCEPT ![w] = revision]
  /\ UNCHANGED <<catalogue, child, scopes, base, hard, by, supervisor, pin>>

Validated(w) ==
  /\ pc[w] = "validating"
  /\ expected[w] < MaxRevision
  /\ Alive(Target(w))
  /\ pc' = [pc EXCEPT ![w] = "checked"]
  /\ UNCHANGED <<catalogue, child, scopes, base, expected, hard, by, supervisor, pin>>

CommitRefresh(w) ==
  /\ pc[w] = "checked"
  /\ Unchanged(w)
  /\ Publish(Target(w))
  /\ epochOver' = IF hard[w] THEN epochOver \cup {base[w]} ELSE epochOver
  /\ Rest(w, "watching")
  /\ UNCHANGED <<child, lifeOver, stopped, by, supervisor, pin>>

\* Conflict, or the provider is no longer connected.
LostRefresh(w) ==
  /\ \/ pc[w] = "enumerating" /\ slot # base[w]
     \/ pc[w] = "validating" /\ ~Alive(Target(w))
     \/ pc[w] = "checked" /\ ~Unchanged(w)
  /\ Rest(w, AfterFailure(w))
  /\ UNCHANGED <<catalogue, child, scopes, by, supervisor, pin>>

-----------------------------------------------------------------------------
(* watch_provider *)

WatcherInvalidates(c) ==
  /\ pc[c] = "failed"
  /\ Invalidate(c)
  /\ pc' = [pc EXCEPT ![c] = "watching"]
  /\ UNCHANGED <<slot, lease, child, lifeOver, stopped, base, expected, hard, by, supervisor,
                 pin>>

\* The lifetime ended: the loop breaks, and a refresh that waits is dropped.
WatcherStops(c) ==
  /\ pc[c] \in {"watching", "enumerating", "validating"}
  /\ LifeOver(c)
  /\ Rest(c, "ended")
  /\ UNCHANGED <<catalogue, child, scopes, by, supervisor, pin>>

\* The connection closed, or its signals ended: terminate_connection ends the
\* lifetime, and then invalidates.
EpochOnly(c)  == lifeOver                  \* faulty: the other generations live on
Terminated(c) == lifeOver \cup {c}

Terminate(c) ==
  /\ pc[c] = "watching"
  /\ ~LifeOver(c)
  /\ IF Holds(c)
     THEN lifeOver' = Terminated(c) /\ pc' = [pc EXCEPT ![c] = "terminating"]
     ELSE pc' = [pc EXCEPT ![c] = "ended"] /\ UNCHANGED lifeOver
  /\ UNCHANGED <<catalogue, child, epochOver, stopped, base, expected, hard, by, supervisor,
                 pin>>

FinishTermination(c) ==
  /\ pc[c] = "terminating"
  /\ Invalidate(c)
  /\ pc' = [pc EXCEPT ![c] = "ended"]
  /\ UNCHANGED <<slot, lease, child, lifeOver, stopped, base, expected, hard, by, supervisor,
                 pin>>

-----------------------------------------------------------------------------
(* The owner: mount_provider, invalidate_provider, remove_provider, shutdown *)

Mount(c) ==
  /\ pc[c] = "unborn"
  /\ ~stopped
  /\ pc' = [pc EXCEPT ![c] = "joining"]
  /\ by' = [by EXCEPT ![c] = "owner"]
  /\ UNCHANGED <<catalogue, child, scopes, base, expected, hard, supervisor, pin>>

OwnerInvalidates ==
  /\ slot # 0
  /\ Invalidate(lease[slot])
  /\ UNCHANGED <<slot, lease, child, lifeOver, stopped, work, supervisor, pin>>

Remove ==
  /\ slot # 0
  /\ revision < MaxRevision
  /\ revision' = revision + 1
  /\ slot' = 0
  /\ lifeOver' = lifeOver \cup {lease[slot]}
  /\ UNCHANGED <<lease, child, epochOver, stopped, work, supervisor, pin>>

Stop == /\ stopped' = TRUE
        /\ UNCHANGED <<catalogue, child, lifeOver, epochOver, work, supervisor, pin>>

-----------------------------------------------------------------------------
(* The supervisor *)

\* The close token of the process it looks after.
Unreachable == ~Active(slot)                       \* faulty: the lease, not the process
Closed      == current \in closed

Eligible == /\ ~stopped
            /\ Closed
            /\ Holds(current)
            /\ ~Active(slot)

\* The next attempt, if the budget allows one.
EndlessRetry == sup' = "backoff" /\ UNCHANGED attempts            \* faulty
Retry == IF attempts < MaxAttempts
         THEN sup' = "backoff" /\ attempts' = attempts + 1
         ELSE sup' = "ended" /\ UNCHANGED attempts

GiveUp == sup' = "ended" /\ UNCHANGED attempts

SeeExit == /\ sup = "supervising"
           /\ Closed
           /\ IF Eligible THEN Retry ELSE GiveUp
           /\ UNCHANGED <<catalogue, child, scopes, work, current, pin>>

BackoffEnds == /\ sup = "backoff"
               /\ IF Eligible
                  THEN sup' = "launching" /\ UNCHANGED attempts
                  ELSE GiveUp
               /\ UNCHANGED <<catalogue, child, scopes, work, current, pin>>

LaunchFails == /\ sup = "launching"
               /\ Retry \/ GiveUp
               /\ UNCHANGED <<catalogue, child, scopes, work, current, pin>>

Launched(c) == /\ sup = "launching"
               /\ ~stopped
               /\ pc[c] = "unborn"
               /\ sup' = "publishing"
               /\ pc' = [pc EXCEPT ![c] = "joining"]
               /\ by' = [by EXCEPT ![c] = "recovery"]
               /\ UNCHANGED <<catalogue, child, scopes, base, expected, hard, current, attempts,
                              pin>>

SupervisorStops == /\ stopped
                   /\ sup \in {"supervising", "backoff", "launching"}
                   /\ GiveUp
                   /\ UNCHANGED <<catalogue, child, scopes, work, current, pin>>

-----------------------------------------------------------------------------
(* Publication of a new connection, by mount_provider for the owner or by       *)
(* replace_disconnected_provider for the supervisor                             *)

\* What the slot must hold when the candidate is built.
Vacant(c) == IF by[c] = "owner" THEN slot = 0 ELSE Closed /\ Holds(current) /\ ~Active(slot)

Prepare(c) ==
  /\ pc[c] = "joining"
  /\ Vacant(c)
  /\ revision < MaxRevision
  /\ pc' = [pc EXCEPT ![c] = "prepared"]
  /\ base' = [base EXCEPT ![c] = slot]
  /\ expected' = [expected EXCEPT ![c] = revision]
  /\ UNCHANGED <<catalogue, child, scopes, hard, by, supervisor, pin>>

Ready(c) ==
  /\ pc[c] = "prepared"
  /\ Alive(c)
  /\ pc' = [pc EXCEPT ![c] = "ready"]
  /\ UNCHANGED <<catalogue, child, scopes, base, expected, hard, by, supervisor, pin>>

\* Recovery checks once more that the old lease is down and the new one is up.
Admissible(c) == Unchanged(c) /\ (by[c] = "recovery" => ~Active(slot) /\ Alive(c))

Join(c) ==
  /\ pc[c] = "ready"
  /\ Admissible(c)
  /\ Publish(c)
  /\ Rest(c, "watching")
  /\ IF by[c] = "recovery"
     THEN /\ epochOver' = epochOver \cup {base[c]}
          /\ lifeOver' = lifeOver \cup {lease[base[c]]}
          /\ sup' = "supervising"
          /\ current' = c
     ELSE UNCHANGED <<epochOver, lifeOver, sup, current>>
  /\ UNCHANGED <<child, stopped, by, attempts, pin>>

\* The last reference to the new connection goes, which dooms its process.
Dropped(c) == /\ Rest(c, "dropped")
              /\ Doomed(c)
              /\ UNCHANGED <<catalogue, closed, scopes, current, pin>>

\* The launch fails when there is a process already, or the broker stopped meanwhile.
LaunchDropped(c) == /\ sup = "launching"
                    /\ pc[c] = "unborn"
                    /\ Dropped(c)
                    /\ by' = [by EXCEPT ![c] = "recovery"]
                    /\ Retry \/ GiveUp

\* Its enumeration or its candidate fails, or it exits too early.
RejectJoin(c) ==
  /\ pc[c] \in {"joining", "prepared"}
  /\ Dropped(c) /\ UNCHANGED by
  /\ IF by[c] = "recovery" THEN Retry \/ GiveUp
                           ELSE UNCHANGED <<sup, attempts>>

LoseJoin(c) ==
  /\ \/ pc[c] = "joining" /\ ~Vacant(c)
     \/ pc[c] = "ready" /\ ~Admissible(c)
  /\ Dropped(c) /\ UNCHANGED by
  /\ IF by[c] = "recovery" THEN GiveUp
                           ELSE UNCHANGED <<sup, attempts>>

-----------------------------------------------------------------------------
(* Broker::perform *)

Resolve(x) == /\ pin[x] = 0
              /\ slot # 0 /\ Active(slot)
              /\ pin' = [pin EXCEPT ![x] = slot]
              /\ UNCHANGED <<catalogue, child, scopes, work, supervisor>>

Ended(x) == /\ pin' = [pin EXCEPT ![x] = 0]
            /\ UNCHANGED <<catalogue, child, scopes, work, supervisor>>

\* The provider may answer or fail; at the latest provider_stop, the epoch of its
\* lease, ends it, whether it waits for the gate or was dispatched.
Return(x) == pin[x] # 0 /\ Ended(x)
Revoke(x) == pin[x] # 0 /\ EpochOver(pin[x]) /\ Ended(x)

-----------------------------------------------------------------------------
WorkerStep(w) == BadRefresh(w) \/ Candidate(w) \/ Validated(w) \/ CommitRefresh(w)
                 \/ LostRefresh(w)
WatcherStep(c) == \/ WorkerStep(c) \/ WatcherInvalidates(c) \/ WatcherStops(c)
                  \/ FinishTermination(c) \/ (c \in closed /\ Terminate(c))
JoinStep(c) == Prepare(c) \/ Ready(c) \/ Join(c) \/ RejectJoin(c) \/ LoseJoin(c)
SupStep == SeeExit \/ BackoffEnds \/ LaunchFails \/ SupervisorStops
           \/ \E c \in Conns : Launched(c) \/ LaunchDropped(c)

\* What the daemon's own tasks do; Owner stands for the broker's public operations,
\* which it does not call after startup.
DaemonNext ==
  \/ \E c \in Conns :
       \/ WatcherStep(c) \/ RefusedRefresh(c) \/ Terminate(c) \/ JoinStep(c)
       \/ Exit(c) \/ Condemn(c) \/ Close(c)
       \/ \E h \in BOOLEAN : BeginRefresh(c, h)
  \/ Stop
  \/ OtherCommit
  \/ SupStep
  \/ \E x \in Users : Resolve(x) \/ Return(x) \/ Revoke(x)

OwnerNext == \/ WorkerStep(Owner) \/ BeginRefresh(Owner, FALSE)
             \/ OwnerInvalidates \/ Remove
             \/ \E c \in Conns : Mount(c)

Next == DaemonNext \/ OwnerNext

\* Enumerations time out after ten seconds; validation, launches and backoffs end;
\* a task whose token is cancelled is woken, and the monitor sees a process end.  That
\* a process which is to be killed does end is not assumed.
Fairness == /\ \A c \in Conns : /\ WF_vars(WatcherStep(c)) /\ WF_vars(JoinStep(c))
                                /\ WF_vars(process[c] = "ended" /\ Close(c))
            /\ WF_vars(SupStep)
            /\ \A x \in Users : WF_vars(Revoke(x))

Safety == Init /\ [][Next]_vars
Daemon == Init /\ [][DaemonNext]_vars
Spec   == Daemon /\ Fairness

-----------------------------------------------------------------------------
(* Correctness. *)

TypeOK ==
  /\ revision \in Generations
  /\ slot \in 0 .. revision
  /\ lease \in [Generations -> Conns \cup {None}]
  /\ slot # 0 => lease[slot] # None
  /\ closed \in SUBSET Conns
  /\ process \in [Conns -> {"running", "doomed", "ended"}]
  /\ lifeOver \in SUBSET Conns
  /\ epochOver \in SUBSET Generations
  /\ stopped \in BOOLEAN
  /\ pc \in [Workers -> {"unborn", "joining", "prepared", "ready", "watching", "enumerating",
                        "validating", "checked", "failed", "terminating", "ended", "dropped"}]
  /\ base \in [Workers -> 0 .. MaxRevision]
  /\ expected \in [Workers -> 0 .. MaxRevision]
  /\ hard \in [Workers -> BOOLEAN]
  /\ by \in [Conns -> {"owner", "recovery"}]
  /\ sup \in {"supervising", "backoff", "launching", "publishing", "ended"}
  /\ current \in Conns
  /\ attempts \in 0 .. MaxAttempts
  /\ pin \in [Users -> 0 .. MaxRevision]

\* "The registry and provider leases commit together": registrations, refreshes
\* and restarts that waited for a provider still change the slot one at a time, from
\* the state they read; nothing returns after its removal, and recovery replaces
\* only a lease whose connection closed (GENERIC_PROVIDER_RECOVERY.md, Contract).
Serial == INSTANCE Catalog
CommitsAreSerial == Serial!Spec

\* Of the driver processes that were started one for another, all but one have ended or
\* are to be killed: none is left behind when its successor is launched or refused.
Supervised == {First} \cup {c \in Conns : by[c] = "recovery"}
OneIsKept == \A c, d \in Supervised : c # d => process[c] # "running" \/ process[d] # "running"

\* "At most three restart attempts during a broker lifetime", also when restarts
\* succeed in between.
BoundedRecovery == Cardinality({c \in Conns : by[c] = "recovery"}) <= MaxAttempts

\* Failed launches, refused publications, exits and closed pipes, in any order, neither
\* leave a second process alive that nobody ends nor start more than the budget allows
\* (recovery.rs supervise, driver-host lib.rs Drop and spawn_v2_reader).
RestartsAreOrderly == OneIsKept /\ BoundedRecovery

\* recovery.rs: "Only a terminated child can trigger a new launch."  The supervisor waits
\* for the close token, which the reader cancels before the monitor has killed the child.
OnlyTheTerminatedAreReplaced ==
  sup \in {"launching", "publishing"} => process[current] = "ended"

\* mcp-federation.md: an invalid catalogue "revokes that provider generation
\* fail-closed", and "a terminal transport disconnect ... prevents refresh from
\* resurrecting that connection".  In the daemon, a connection that went down
\* stays down, whatever its watcher still does.
DownStaysDown ==
  [][slot # 0 /\ slot' # 0 /\ ~Active(slot) /\ Active(slot)'
       => lease'[slot'] # lease[slot]]_vars

\* mcp-federation.md: a refresh does not cancel "a call that was already dispatched";
\* providers.rs: "a catalog change is not a transport cancellation".  The daemon
\* revokes a generation only if its connection died, if an enumeration of its
\* capabilities was bad, or if its events were lost.
Leaves(w, states) == pc[w] \in states /\ pc'[w] \notin {pc[w], "checked"}

RevokedForCause ==
  [][\A g \in epochOver' \ epochOver :
       \/ lease[g] \in closed \/ LifeOver(lease[g])'
       \/ Leaves(lease[g], {"enumerating", "validating"})
       \/ hard[lease[g]]]_vars

\* Every call on a connection that closed or whose process ended is ended by the broker,
\* whatever generation it is pinned to, and even if the provider never answers it.
Lost(c) == c \in closed \/ process[c] = "ended"
CallsOfTheDeadEnd == \A x \in Users : (pin[x] # 0 /\ Lost(lease[pin[x]])) ~> pin[x] = 0

\* A driver that is lost is replaced, or its supervisor ends and says why.
RecoveryEnds == (sup # "ended" /\ Lost(current)) ~> (sup = "ended" \/ ~Lost(current))
=============================================================================
