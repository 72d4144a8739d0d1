# Verification of the semwright broker

This directory holds TLA+ models of semwright, the TLC configurations that
check them on small instances, and proofs that TLAPS checks for every instance.
Paths are relative to the repository; `core` is `crates/core/src` and so on.

## 1. The system

semwright is a local broker. Clients (CLI, MCP server, TUI) connect to a
per-user daemon over a socket and ask it to find, describe and execute *commands*
that built-in backends, driver processes, plug-ins and federated brokers provide.
The parts, their state and how they meet:

| Part | State it keeps | Operations |
|---|---|---|
| **Job store** `core/jobs.rs` | entries with a snapshot and a cancellation token, insertion queue `order`, behind one mutex | reserve (evicts), mark_running, finish, update_progress, cancel, revoke_session, list/get; `start_job` spawns a task per job |
| **Event log** `core/lib.rs` (`publish_event`, `replay_visible`) | sequence number, last 256 events, a broadcast channel of 256 | publish under a lock, replay from a cursor, subscribe |
| **Broker** `core/lib.rs` | references, registry, one `execution_gate` (a fair read-write lock), browser, jobs, events, audit, `runtime_stop` | find/describe, `execute` (resolve, choose a provider, gate, approve, re-resolve, audit, dispatch, time out), revoke_session, shutdown |
| **Provider leases** `core/providers.rs` | registry snapshot (revisioned), lease per provider: identity, generation, connection, lifetime, epoch | mount, replace, refresh, invalidate, terminate, remove, watch |
| **Recovery** `daemon/recovery.rs` | attempts left, backoff | restart a failed provider at most three times and publish it |
| **Daemon connections** `daemon/server.rs` | sessions by ticket (identity, capability set, last touch, request ids seen, active tokens), connections | handshake, execute/cancel/ping/subscribe frames, disconnect, shutdown |
| **Audit log** `core/audit.rs` | live file and retired files, byte count, sequence, hash of the last record, behind one mutex | begin/finish/drop a scope, append (sync, shift, rename, reopen, write, sync), open (verify) |
| **Reference store** `types/lib.rs` | references with session, backend, expiry | insert (prune, cap), get, revoke_session, invalidate_backend |
| **Recipes** `recipes/lib.rs` | none between runs | validate, run steps with retries and conditions |
| **Semantic composition** `semantic-composition` | plan vault: issued plans, their state and reconciliation | issue, begin, finish, begin/finish reconciliation, record observation, revoke, reap |
| **Native SDK** `native-sdk/file_profile` | a document with its receipts, a journal file per operation key, exports, forked workspaces; a lock file | apply (reserve, edit or export, record), fork, operation_get, open |
| **Driver host** `driver-host/lib.rs` | child process, table of pending requests, tables of running tools, jobs and sessions, CPU gate, tokens `terminate` and `closed` | execute, validate, refresh, shutdown, drop; reader and monitor tasks; runtime tools started for the driver |
| **Driver SDK** `driver-sdk/lib.rs` | tasks of the serving loop, one lock around the driver, pending tool calls | serve requests, cancel, shut down; call tools, jobs and sessions of the host |
| **Figma bridge** `driver-figma` (`bridge.rs`, `plugin/src`) | table of sessions with pending and expired requests, resume credential; in the editor a window with a socket, a thread with a document | resume, execute with a revision guard, time out, answer, disconnect, reload |
| **Driver registry, plug-in host, federation** | installed packages, sandboxes, upstream connections | install, verify, launch, proxy |
| **Project graph, workflow store, skills** | graph snapshots, recorded traces and proposals, bundles on disk | rebuild, query, watch; mine, compile, store |
| **Policy, registry, protocol, mcp, cli, tui** | configuration and catalogs | validate, encode, render |
| **Applications and domains** `driver-*` binaries, `audio-*`, `video-*`, `motion-*`, `platform-*` | application documents, OS handles | application specific |

Interactions that matter for correctness:

* A connection calls `Broker::execute` on a task; the request owns a
  cancellation token that the connection, the session, the timeout and the
  broker's `runtime_stop` may cancel at any time.
* `jobs.start` turns the rest of an execution into a task of its own that
  outlives the request. Its events go to the event log *after* the job store
  was unlocked.
* A recipe executes its steps as nested requests of the same session, so a
  recipe running in a job may start further jobs.
* Session revocation is called by the daemon when an idle session expires; it
  runs concurrently with everything the session's jobs still do.
* A provider's catalogue and lifetime change under running executions:
  dispatch re-resolves after it was approved, and its lease's epoch token stops
  calls of an invalidated connection.
* A provider that is a driver turns an execution into a request over a pipe:
  the host's table, its reader task, its monitor and the child's own tasks share
  the life of the request, and the broker may drop the future that waits for it.
* The pipe works both ways: while the driver executes, it may ask the host for tools, jobs
  and long-lived sessions, which belong to the execution that asked for them.
* The dispatch of an execution is bracketed by two records of the audit log; a
  command whose start cannot be recorded does not run.
* A native application opens a document with the file profile, one process after the other;
  a client that lost an answer asks `operation_get` what became of its operation key.
* The Figma driver serves a socket to a plugin in the editor. The plugin reconnects with a
  credential, so that two connections of one session may live at once, and a request may be
  answered after its timeout or over another connection.

What is hard: races between publication and state, tokens that have to reach
whoever is executing, catalogues that change between a look-up and its use,
bounded tables at their limits, a call that is abandoned while its effect may
still come, an answer that nobody waits for any more, processes that have to be found and
ended whoever dropped them, connections that replace one another, a crash or a
failing call between any two writes of the audit log or of a document, and tasks
that must end at shutdown. `PROJECT.json` lists these hazards line by line, with
the properties that cover each.

What makes each part correct:

| Part | Correct means |
|---|---|
| Job store | verdicts are final and announced as stored; an acknowledged cancellation reaches the task; limits hold and evict only finished jobs, oldest first; every task ends |
| Event log | a subscription is an ordered run without gaps or duplicates of exactly what its session may see, or it ends |
| Broker execution | one mutation or prompt at a time; nothing stale is dispatched after an approval; every effect and known outcome is on record; a failure that is called known had no effect; every execution is answered |
| Provider leases | the catalogue changes by serial commits; what went down does not come back; calls on a dead lease end |
| Recovery | no process is left behind beside its replacement without being told to end, a bounded number of restarts, and recovery itself ends |
| Connections and sessions | a request identifier runs at most once; no request outlives its connection or its session uncancelled; budgets hold; shutdown completes |
| Audit log | what one process acknowledged is a chain, across files and failures; the next process accepts the log unless a write broke it; only the oldest records are dropped |
| Reference store | a reference is seen by its session only, and not after its backend was invalidated |
| File profile | an operation key takes effect once, whatever fails or crashes; what was answered is true, and is answered again |
| Plan vault | a plan is applied once, and after a lost answer it is reconciled |
| Driver host and SDK | an execution's verdict is what the driver did, and without one the driver is killed, and only for a reason; every call returns; no tool, job or session outlives the link, and tables keep their limits |
| Figma bridge | the session's entry is the connection that the plugin has open; the hub never trusts a later revision than the plugin's; a late answer does not end a healthy connection |
| Project graph, workflow store | a rebuild misses no change that was seen; what is promoted was verified |

## 2. Modules

Each detailed module is one component; what it promises its users is either an
abstract module it is shown to implement or a list of properties at its end.
`MC*.tla` and `*.cfg` instantiate for TLC, `*Proofs.tla` hold the theorems.

| Component | Abstract specification | Detailed module | TLC | Proofs |
|---|---|---|---|---|
| Job store and job tasks | `JobPromise` | `Jobs` | `MCJobs`, `MCSessions` | `JobsProofs` |
| Event log, subscriptions | `EventFeed` | `Events` | `MCEvents`, `MCRecords`, `MCSessions` | `LogProofs` |
| Connections, sessions | | `Sessions` | `MCSessions` | `SessionsProofs` |
| Provider leases, recovery | `Catalog` | `Providers` | `MCProviders`, `MCCommits` | `ProvidersProofs` |
| Execution path | | `Dispatch` | `MCDispatch`, `MCEndings` | `DispatchProofs` |
| Driver host and SDK: executions | | `DriverLink` | `MCEndings` | `DriverProofs` |
| Driver host and SDK: tools, jobs, sessions | | `HostTools` | `MCHostTools`, `MCCommits` | `DriverProofs` |
| Audit log | | `Audit` | `MCRecords` | `LogProofs` |
| Native SDK, file profile | | `OperationJournal` | `MCCommits` | `JournalProofs` |
| Figma bridge | | `FigmaBridge` | `MCRecords` | `FigmaBridgeProofs` |

`MCEndings` checks two modules that share no variable, `MCCommits`,
`MCRecords` and `MCSessions` three each. A variable `part`, which never changes, chooses at
the start which of them moves, and the others stay as they began, so the states
of such a run are the sum of the parts, not their product; every property is about one
part, and in the behaviours of the other it is about an initial state. `MCJobs`, `MCEvents`,
`MCProviders`, `MCDispatch` and `MCHostTools` have one module alone.

A critical section of the code (a `Mutex` or `RwLock` held without an await) is
one action; every await, unlock or publication ends an action. Error texts,
payloads, identifiers and timestamps are not modelled. Time is: a deadline is an
action that may happen whenever the timer could have expired.

### Jobs: the job store

`core/jobs.rs` together with the task `start_job` spawns and everyone who touches
the store: clients that start and cancel, recipe steps that start jobs from
inside a job, the revocation of a session, and shutdown.

* `state`, `place`, `owner`, `requested` are the fields of `JobEntry` that the
  properties tell apart; `place` is the position in `order`.
* `token` is the job's `CancellationToken`, `task` the program counter of
  `start_job` and of the spawned task, `parent` the job whose recipe step waits
  in `start_job`.
* `told`, `notices`, `pending` remember which events were published; `pending`
  is a `cancel_job` that unlocked the store and has not published yet.

Every operation under the store's mutex is one action (`Reserve` includes both
eviction loops and the refusals that follow them); every publication is an
action of its own because `job_event` runs after the mutex is released.
`JobPromise` is what the owner of a job may rely on: a job is queued, runs,
ends with one verdict, is forgotten, and its events never contradict it.

### Events: the event log and the subscriptions of a connection

`publish_event` appends and broadcasts under one mutex, so it is one action. A
`Subscribe` frame takes a broadcast receiver (`Subscribe`), then reads the
history (`Refuse`, `Accept`), then a task of its own hands out the replay and
the live events (`Send`, `Receive`, `Lag`, `Vanish`). A second frame aborts the first
task, which may still finish the step it is in: `aborted` is apart from `step`.
`out` is the writer's bounded queue, `cursor` what the client kept from a
process that has been restarted since. `EventFeed` is the promise:
each subscription hands out the visible events from its base on, in order,
without a gap, until it ends.

### Sessions: the daemon's connections

The session table (`entry`, `idle`, `seen`, `active`) is behind one mutex:
`Hello`/`Resume` are the handshake with its purge of idle sessions, `Start` is
the registration of an Execute frame, `Finish` is the drop of `Running`, and
`Cancel`, `Disconnect`, `Stop` and `Shutdown` are the ways tokens are cancelled.
Between registration and the answer a request is `inside` the broker, then
`sending`. `dispatched` is a ghost that counts how often an identifier entered
the broker.

### Catalog and Providers: leases and recovery

`Catalog` is the serial catalogue: whole commits, each under a new revision,
nothing comes back after removal, and a provider is replaced only by its owner or
after its connection closed. `Providers` is one dynamic provider's life in
`core/providers.rs`: registration, refresh and replacement read, wait for the
provider, validate a candidate on another thread and commit only if the revision
is the one they started from; watchers, invalidations, removals and commits about
other providers (`OtherCommit`) interleave. `sup`, `current`, `attempts` are
`supervise` in `daemon/recovery.rs`. The provider's connection is `c`. What the broker and
the supervisor know of its process is the close token (`closed`); what becomes of the process
itself is `process`. The two go separate ways: `Close` is the driver host's reader, which cancels
the close token together with the terminate token, or the monitor, which does so when
it is through; `Condemn` and `Dropped` cancel the terminate token alone; `Exit` is
the end of the process, by itself or because the monitor kills it. A cancelled terminate token
makes the process "doomed", and it may stay so for ever, since the monitor ignores the error of
its kill. `Calls` are executions pinned to a generation
whose epoch and lifetime tokens end them. `DaemonNext` is what the daemon does by
itself; `Next` adds the public operations of the owner.

### Dispatch: the execution path

From the start record of the audit scope to the answer: choice of a provider, the
wait for `execution_gate` (a fair read-write lock: `queue`), the operator's
prompt, the second look-up of everything that may have become stale
meanwhile, the provider call and the ways it is interrupted, the effect that
may still come after the call was abandoned, the mapping of errors to known and
uncertain outcomes, and the finish record that may fail. Around it a recipe step
makes several attempts under one deadline (`Attempt`, `StepAnswered`,
`StepDropped`, `GiveUp`). `Doom` is everything that happens to an execution while it
waits: cancelled, its reference revoked, its generation over.

### DriverLink: an execution on its way through a driver

`DriverProvider` of `driver-host/lib.rs` from connect to drop, and the child's
`serve_v2` of `driver-sdk/lib.rs`. On the host `call` is the place in `execute`
(CPU gate, entry in the table, write, wait, cancellation with and without the
cooperative contract), `check` a validation or refresh, `closing` the shutdown;
`requests` is the table, `inbox` the one-shot channels, `reader` and the tokens
`terminate` and `disconnected` (`closed` in the code) the reader and monitor
tasks. `toDriver` and `toHost` are the pipes, `child`, `job` and `lock` the process, its
tasks and its `Mutex<Driver>`. `DropCall` is the broker's drop of a future, at any
await, also in the middle of a frame (`Torn`). `Ask` enters and writes in one action where
nothing else depends on the moment in between.

### HostTools: what a driver asks of the host

The other direction of the pipe: the waits of `DriverExecutionContext` (`awaits`,
`GiveUpCall`), the reader of the host that takes calls, answers status,
cancel and close by itself and gives a task to the rest (`TakeCall`), the tables of parents
(`known`), running calls (`registered`), `jobs` and `sessions`, the processes
themselves (`proc`) and the drain of the tables when the link breaks. `handles` and
`learned` are what the driver was told; `lost` which parents ever gave up waiting.
Whether a session's state lock is held is `Holder`.

### Audit: the log on disk

An `append` runs under one mutex, but each of its system calls is an action, may
fail (`CallFails`, `WriteLineFails`, `SyncDataFails`), and the process may end
between any two (`Crash`). `content` is indexed by inode and `name` maps the live
name (0) and the retired ones to inodes, so that a rename moves a name and not a
file. `OpenAudit` is what the next process does with what it finds. A record is its
number, what it follows and the append that made it, which stands for the hash;
`acks` is a ghost: the records whose append succeeded.

### OperationJournal: the file profile of the native SDK

`apply` and `fork_document` of `native-sdk/file_profile`, system call by system
call, with `Fail`, `Crash` and `LosePower` between any two. `disk` is what a
process reads, `stable` what a loss of power leaves; synchronizing a directory
copies its part. `Answer` is `operation_get`, which is also what `apply`
looks at before it reserves a key. The document's lock makes calls
exclusive, so one `call` is enough. `effects` and `told` are ghosts: the
requests whose effect began, and the answers with a known outcome.
### FigmaBridge: the plugin's connections

`BridgeHub::execute`, `serve_connection` and the plugin's window (`ui.html`) and thread
(`code.ts`), for one session that was paired before. `place` is where a connection's
task is, from the resume handshake to the drop of its queue; `gen`, `listed` and `credential`
are the generations that order the connections of the session. `seen`, `pending` and `tombs` are the
revision, the pending and the expired requests of a `SessionHandle`, `exec` the one
execution that the driver has in the hub. Timeouts take two actions, because the code unlocks
between forgetting a request (`Expire`) and remembering that it expired
(`Bury`). `toPlugin` and `toHub` are the socket; a message that nobody can read any
more is forgotten at once. `work` is what the plugin's thread still does for requests, which
`Finish` may end after a reconnection. An answer's `via` is a ghost: the connection
that its request came by.

## 3. What the runs check

`Safety` is without fairness, `Spec` with it, `Daemon` is `Safety` without the
owner's calls (in `Providers`, `Spec` is `Daemon` with fairness), and `MCSpec` the
specifications of the parts of a run that has two. No run checks for deadlock: in every
instance each job, connection, subscription, execution or key is used once, and
after shutdown nothing more happens, so the systems do come to rest. That
nothing comes to rest too early is what the liveness properties say.

| Run | Configuration | Specification | Distinct states | Instance | Shows |
|---|---|---|---|---|---|
| `endings` | `MCEndings.cfg` | `MCSpec`, fair | 190,223 | Dispatch: 2 executions, 1 recipe with 2 attempts, 3 kinds. DriverLink: 2 executions, 1 check, 3 entries; 2 of the requests, shutdown included | The gate, stale work, repeated effects, audit records; every execution ends. What `execute` returns is what the driver did, nothing runs on unnoticed, the driver is killed for a reason, every call returns |
| `retention` | `MCRetention.cfg` | `Safety` | 782,880 (symmetry) | 3 jobs, 2 sessions, limits 2/2/1 (total, per session, active per session) | A job and its announcements under eviction, refusal, cancellation, revocation and shutdown at every point; refinement of `JobPromise` |
| `jobs_revoked` | `MCJobsRevoked.cfg` | `Safety` | violation | 2 jobs, 1 session | A job reserved after its session was revoked |
| `records` | `MCRecords.cfg` | `MCSpec` | 1,507,721 (symmetry) | Events: 2 subscriptions, 2 audiences, capacity 2, queue 1, at most 4 events and restarts, of which 1 restart. Audit: 3 scopes, 2 retired files, 2 records a file, 7 appends, 2 failures, 1 crash. FigmaBridge: 2 connections and 2 executions, at most 3 of both together, 1 change, 1 reload | Refinement of `EventFeed`; acknowledged records form a chain in the live file, only the oldest are lost, the next process accepts the log; the session's entry is served, the hub is never ahead of the document, late answers are tolerated |
| `events_restart` | `MCEventsRestart.cfg` | `Safety` | violation | 2 subscriptions, 3 events, 1 restart | A cursor of a former process is accepted |
| `sessions` | `MCSessions.cfg` | `MCSpec`, fair | 170,601 | Sessions: 3 tickets, 2 sessions at a time, 2 connections, 2 identifiers, 1 request per connection. Events: 2 subscriptions, 2 audiences, capacity 1, queue 1, 2 events, no restart. Jobs: 2 jobs, 2 sessions, limits 2/2/2 | No replay, no orphan, exact table, scope of cancellation; shutdown completes. Every visible event arrives or the feed ends. Every job ends or is forgotten, and every task ends |
| `commits` | `MCCommits.cfg` | `MCSpec` | 946,966 | Providers: 2 connections, revision up to 3, 2 restarts. OperationJournal: 2 keys, 1 place, 2 processes, 2 writes of the document, 1 failure, 1 crash or loss of power. HostTools: 2 executions, 3 calls, 1 given up, limits 2/1/1 (calls, jobs, sessions) | Refinement of `Catalog`, with all that the owner may call. A key takes effect once, answers are true and are found again. Limits of the driver's tables, processes accounted for, nothing outlives the link |
| `providers_daemon` | `MCProvidersDaemon.cfg` | `Spec` | 130,514 | 3 connections, 1 call, revision up to 3, 1 restart | Of the processes started one for another all but one have ended or are to be killed; bounded restarts, no resurrection; calls and recovery end |
| `providers_child` | `MCProvidersChild.cfg` | `Daemon` | violation | 2 connections, 1 restart | A process is replaced before it has ended |
| `providers_cause` | `MCProvidersCause.cfg` | `Daemon` | violation | 2 connections | A healthy generation is revoked because of another provider |
| `dispatch_known` | `MCDispatchKnown.cfg` | `Safety` | violation | 2 executions, 1 recipe with 2 attempts, 3 kinds | A mutation that took effect is a known failure |
| `driver_cleanup` | `MCCleanup.cfg` | `ToolsSafety` | violation | as in `commits` | A cancelled execution closes its session and is killed for it |

The type invariants of all modules are theorems (section 4), so the runs do not
repeat them, and neither do they repeat `Budgets` of Sessions; that of HostTools is
a part of `TablesStayWithinLimits`.
Several properties have named parts: `OwnerIsToldTheTruth`
and `StoreIsSound` (Jobs), `EvictionsAreFair` (Jobs), `TableTracksRequests` (Sessions), `RestartsAreOrderly` (Providers) and `ProcessesAreAccountedFor` (HostTools).

### Bounds

* *Jobs.* Two jobs are enough for every race, because all interference is
  between a job and its parent's step, its session's revocation or the other
  job's place in the store; `sessions`, which asks whether they end, has these. `retention`
  has three jobs and a store of two, one active per session, so that the total limit, the
  session limit and the active limit each evict or refuse. It also refuses every job that a
  recipe of the same session starts from inside a job; in `sessions` such jobs run, and the
  theorems about `Jobs` hold for all limits. The limits in the code are 256, 64 and 8.
* *Events.* In `records`, capacity 2 (256) with four events makes the history and the channel drop
  events and makes the boundary cursors (0, just before the oldest, one earlier,
  ahead of the sequence) all occur; a writer's queue of one makes senders wait. `sessions`
  asks only whether the feeds go on, and two events into a capacity of one are enough for lag.
  The two subscriptions are the old and the new task of one connection.
* *Sessions.* `InOrder` leaves out the behaviours that differ from another only in the names of
  tickets and connections. Three tickets with two sessions at a time make a purge free a
  slot; two identifiers reach the limit on identifiers. `MaxConnections` and
  `MaxPerSession` do not bind in the run (two connections, one request each): the
  theorem `BudgetsHold` covers all values.
* *Providers.* `MaxRevision` 3 is two commits after the mount, and the edge
  (u64::MAX in the code) where commits are refused; one or two restart attempts of
  the three let the budget run out. `commits` has the owner's calls,
  `providers_daemon` a third process and a pinned call. No step of the catalogue looks at a
  process, so in `commits` one changes only together with its tokens (`ByItsTokens`).
* *Dispatch.* Two executions are either two clients' or two attempts of one step, of every
  risk class (reading, mutating, prompting), which makes each of the gate's conflicts happen.
  `InKindOrder` and `InOrder` (of *DriverLink* too) leave out behaviours that differ from
  another only in the names of executions; `OwnerInOrder` does the same for the owners of jobs in `sessions`.
* *DriverLink.* Two requests are enough for every race: the ones that
  share something (gate, table, pipe, lock, the fate of the process) do so
  pairwise. The table of three (256) is full when two executions and a `Cancel` are pending,
  so that a second cancellation finds no room; budgeted and unbudgeted, cooperative and
  plain drivers are all initial states.
* *HostTools.* Three calls make a job or a session, use it and give it back, or race a second
  start against the limit of one (8 jobs, 2 sessions in the code); two calls at once is the
  limit (8). One parent may give up a wait: with as many as `CallLimit` the driver
  can fill the table by itself, which `RefusedOnlyAfterGivingUp` excuses. Drivers use either
  jobs or sessions (`MCRepertoires`).
* *Audit.* Two records a file and two retired files make the third rotation
  drop the oldest file: the seventh append is the one that does it. Two failures
  let a rotation fail and the next one too, and a crash may come after either.
* *OperationJournal.* Two keys and two processes make a client of the second
  process repeat what the first was asked; one interruption is what a key has to
  survive before the next process looks, and `MaxWrites` 2 lets both keys write.

### Fairness

Only what the runtime or a timer guarantees is assumed, as weak fairness of the
step a task takes next. `MCSessions` and `MCEndings` have one weak
fairness instead, of any of these steps (`FairStep`). In their instances no behaviour changes
its state for ever (the graphs of states have no cycle), and then the two mean the same: when nothing
changes any more, none of the steps may still be possible.

* *Jobs*: the task of a job goes on (Tokio polls it; every await in an execution
  is bounded by a timeout). Clients, revocation and shutdown are not assumed to act.
* *Events*: streaming tasks are polled, and the writer either writes or ends the
  connection after ten seconds. Nobody has to publish or to read quickly. The number
  of events is bounded in the model, so "whenever the broker pauses" is "infinitely often".
* *Sessions*: a handshake ends within five seconds, a request within 300 and its result within
  five more; halted connections end; the server's shutdown, once begun, is polled.
* *Providers*: watchers, joins and the supervisor go on; enumerations time out
  after ten seconds; a call whose token is cancelled is woken; the monitor notices that a
  process has ended, and cancels the close token. A process need not end, not even one that
  is to be killed.
* *DriverLink*: the host's tasks are polled and their deadlines expire: an
  execution (`CallStep`), the reader, the monitor's kill and its notice of an exit. Nothing is assumed
  of the driver, which may stall, ignore its token or read nothing.
* *Dispatch*: the gate wakes its first waiter, the prompt expires after two
  minutes, validations, calls and recipe steps time out. The operator, a client and a provider
  need not do anything. One limit: writing the prompt (`daemon/console.rs:46`)
  has no timeout, so `EveryExecutionEnds` assumes a terminal that accepts output.

## 4. What is proved

Every theorem holds for all values of the constants under the modules' named
assumptions: any sets of jobs, sessions, connections or executions (finite
where the module says so), any limits, any number of events, restarts, failures and
attempts. In particular the bounds of the TLC instances are not used. Each
proof has the same outline: an inductive invariant, one lemma that Init
establishes it, lemmas that each action preserves its parts, a temporal theorem,
and for an action property or a refinement one step per action under the invariant.

* **JobsProofs.** `IInv` = types + `TaskInv` + `CancelInv` + `RetentionBounds`.
  The safety properties alone are not inductive: that an announced verdict is
  the stored one needs what the entry can hold at each place of its task
  (`TaskInv`; at every place it may also be missing, because of revocation),
  and that a cancellation is announced once needs to relate the acknowledgement,
  the pending publication and the count (`CancelInv`). The bounds need
  cardinalities of the sets the eviction loops leave. `TheStoreIsSound` adds `QueueInv`: the
  positions of the entries are 1 to their number, one each, which every eviction, revocation and
  reservation has to restore; `EvictionsAreJust` (the oldest finished job goes first, and only when a limit
  asks for it) rests on it. `StoreImplementsThePromise` maps each step to a step of `JobPromise` or
  a stutter. Proved too: `TypeCorrectness`, `OwnersAreToldTheTruth`,
  `StoreStaysWithinBounds`, `ActiveJobsStay`, `VerdictsAreFinal`, `CancellationsAreScoped`.
* **LogProofs** has the event log and the audit log. *Events:* `IInv` = types + `LogInv` (the
  ring holds the last `Capacity` events) + privacy + `StreamInv`: every visible event a task
  has not passed is in its hand, or comes after all it has in hand and will still come through its receiver.
  That is what makes subscribing before reading the history free of gaps and
  duplicates. `SubscriptionsAreFeeds` is the refinement of `EventFeed`;
  `Privacy` and `TypeCorrectness` are the other two.
  *Audit:* `AuditInv` = types + `LiveInv` (which file the writer has open, by the
  place of an append) + `ChainInv` (acknowledged records in the files, in order, each
  after its predecessor) + an intact log unless a write tore it. `AuditTypeCorrectness`,
  `AcknowledgedChain`, `LogIsAcceptedAgain` and `AcknowledgedInPlace` follow. `LossIsBounded` is
  about runs that nothing interrupts and needs `AgeInv` on top: the names of the files are in the order of
  their age also halfway through the renames of a rotation, every retired file is full, and
  the f-th file holds none but the first f * `MaxBytes` acknowledged records.
* **SessionsProofs.** `IInv` = types + `TableInv` + `TableKnowsTheTasks` +
  `ViaInv` + `LostRequestsAreCancelled`. `TypeCorrectness`, `NoReplay`, `NoOrphans`,
  `TableIsTrusted` and `CancellationScope` follow; `BudgetsHold` adds
  cardinality arguments for the four budgets.
* **ProvidersProofs.** `IInv` = types + `WorkInv` (what an operation remembers is not newer
  than the catalogue) + `NewInv` (a connection that has not joined is in no
  lease) + `SupInv` (a connection whose close token is cancelled, or that was dropped, has ended
  or is to be killed; past its wait the supervisor looks after a closed connection, and publishes
  at most one). `SerialCommits` is the refinement of `Catalog`; it is where the comparison of
  revisions earns its place. `TypeCorrectness`, `OrderlyRestarts` (of the processes started
  one for another all but one have ended or are to be killed, by `SupInv`, and with a
  counting invariant the budget) and `NoResurrection` (under `Daemon`: without the owner's
  calls) are the others.
* **DispatchProofs.** `IInv` = types + `QueueOK` + `StepOK` + `WorkInv` (which audit
  records and which provider call go with each place) + `GateInv` + `OnceInv` (every
  attempt but the current one is over, and will not take effect any more).
  `TypeCorrectness`, `GateExclusion`, `EffectsAreNotRepeated`, `EffectsAreAudited` and
  `NoStaleStart` follow.
* **JournalProofs.** `JournalInv` = types + `RoomInv` + `CallInv` + `EffectsInv` + `ToldInv`.
  That an effect is the first of its key needs what the journal holds at each place of the
  call, on the disk and on what a loss of power leaves of it (`CallInv`); that
  nobody uses the key later needs that it stays there (`EffectsInv`), and that answers stay true
  relates the record to what was told (`ToldInv`). `JournalTypeCorrectness`, `KeysAreExclusive`
  and `AnswersStayTrue` follow. `ResultsAreKept`, an action property, adds `LookupInv`: what a call may
  find at its key and in its document (`PlaceInv`), that a loss of power brings no result
  back that the disk has not (`StableInv`), and that a result names its request.
* **FigmaBridgeProofs.** `BridgeInv` has thirteen parts. That the entry is never taken away from a live
  connection rests on the order of generations (`GenInv`, `CredentialInv`), which rests
  on the plugin having one socket at a time (`SocketInv`) and on the handshake being
  spoken in order (`TalkInv`), and on an execution that waits being pending
  (`WaiterInv`), which rests on no answer preceding its request (`SentInv`).
  `BridgeTypeCorrectness`, `EntryIsServed` and `RevisionStaysBehind` follow. For
  `LateAnswersAreDropped` a request has to be in one place at a time, in a queue, on a socket, at work or
  answered, over all connections (`OnceInv`), and one that a connection carried and that
  has no answer yet has to be pending, expired, or just between the two (`MemoryInv`).
* **DriverProofs**, *executions:* `LinkInv` = types + `TrafficInv` (a request is unwritten, in a
  pipe, or with the driver; its cancellation does not overtake it) + `AnswerInv` (every frame, and what
  the host holds or returned, is what the driver did) + `ReasonInv`. The last one is where the
  hazard is: as long as nobody has a reason to kill the driver, everything
  that may still be answered has an entry in the table (`OwedInv`), so that no answer of a driver
  that behaves is taken for a foreign one. `VerdictsHold`, `NoExecutionRunsAway` and
  `KilledWithReason` follow. `IdsAssumption` says that the identities of cancellations and of the shutdown are
  nobody else's, which the host's counter sees to.
  *Tools:* `ToolsInv` has nine parts. A tool call is on the wire, with a task or over, and its parent
  awaits it unless it gave up (`CallInv`, `TurnInv`): so the calls in the table
  that nobody awaits belong to different parents that gave up, and a call can find the table full
  only if there are enough of those (`RefusalsAreDue`). A process that runs is in a table or with a task that will
  put it there or stop it (`ProcInv`), and a table that the reader has emptied
  is not filled again (`DrainInv`): `ProcessesStayAccountedFor` and `NothingIsLeftBehind`.
  `TablesAreBounded` counts what the tables hold when a task reserves its place (`LimitInv`).

Every invariant and every action property that a passing run checks is stated by a theorem. Only
model-checked are the liveness properties (`JobsEnd`, `CallsReturn`, `EventsArriveOrTheFeedEnds`,
`ShutdownCompletes`, `CallsOfTheDeadEnd`, `RecoveryEnds`, `EveryExecutionEnds`), because
they rest on fairness and ENABLED, which the prover does not support.

## 5. Where the code and its documentation disagree

Six runs are expected to find a counterexample; each checks a sentence of the
documentation, or of a comment, that the code does not keep. `PROJECT.json`
quotes them under "findings".

| Run | What happens |
|---|---|
| `jobs_revoked` | A recipe running in a job checks its token, the session is revoked, and the step then reserves a job for the session that is gone: it runs to its own end, and nobody can name it. |
| `events_restart` | A cursor of a former broker process is refused only until the new process has published as many events; then it is taken for one of its own, and the events before it are skipped without a `Conflict`. |
| `providers_cause` | Any commit about another provider during a refresh makes the refresh fail with a Conflict, which the watcher takes for bad metadata: a healthy generation loses its epoch and its running calls. |
| `providers_child` | The reader of a driver's output cancels the close token together with the terminate token (`driver-host/lib.rs:3233`); the monitor kills the process afterwards and ignores the error of the kill. The supervisor relaunches a backoff after the close token, so a process that is not dead yet, or never dies, runs beside its replacement. |
| `dispatch_known` | A mutation whose result holds a reference marker of the wrong shape took effect, and is answered and recorded as a known failure. |
| `driver_cleanup` | A driver whose session request is cancelled is told so at once; the close it sends next is refused, because the host still counts the request as running, and a refused call ends the driver (`driver-host/lib.rs:2082`). |

Others were met while modelling and have no run, because what they are about
is not a state of the models, or because the model follows the code and the
sentence is too loose to check:

* *Recovery.* `docs/GENERIC_PROVIDER_RECOVERY.md` ends the supervision when the budget is
  exhausted or a policy or identity error occurs; `daemon/recovery.rs:108` ends it
  after any `Conflict`, also one with an unrelated commit, with attempts left.
  `Providers` follows the code (`RecoveryEnds` holds with it).
* *Lost events.* `docs/semantic-ui-v2.md:62` has caches invalidated and refreshed whenever events are lost.
  When the refresh after a backend's invalidation meets a Conflict,
  `core/providers.rs:766` lets it pass, and no event is published.
* *Prompts.* The comment at `core/lib.rs:862` says that all broker I/O is blocked during an
  operator prompt. The availability probes of `choose` run before the gate, and a call
  abandoned after its 250 ms of grace may still act behind a prompt.
* *Driver link.* `docs/driver-session-continuity.md:18` has every waiter of a lost
  transport closed or failed. A request that `begin` enters after the reader cleared the table, and
  whose write still succeeds, waits for its own deadline (`CallsReturn` holds with it). A job or
  session that was started while its caller was cancelled is never collected by the driver;
  `wait_runtime_tool_job` of the SDK (`driver-sdk/lib.rs:2058`) reports a job that succeeded as
  cancelled when both happened; a `ToolSessionClose` is handled by the reader itself, which
  then waits for the session's state lock.
* *Audit.* When a rotation's rename succeeded and the reopening failed, every later append
  fails until the process is restarted; `docs/troubleshooting.md:22` has the operator check owner, mode, space
  and rotation and restore the sink. After a restart right after a rotation numbers begin at 1 again.
* *File profile.* After a crash between the rename of a document and the synchronization of its directory
  `operation_get` answers from a document that a loss of power may still take back; so it does
  after a crash between the creation of the journal's directory and the synchronization
  of its parent. An empty intent that was left behind blocks all operations until somebody looks.
* *Figma.* `docs/BRIDGE_PROTOCOL.md:21` discards late answers as such: one that arrives
  after a timeout has forgotten its request and before it is remembered as expired
  (`bridge.rs:723`-`738`) ends the connection, and so does one to a request of a former connection,
  which the plugin labels with its current session (`ui.html:263`).
  `LateAnswersAreTolerated` names these two cases and no other. The answer of `execute`
  writes its revision over that of a later event (`bridge.rs:763`; `:17` has it monotone within
  a connection), and what a `hello` says is not advanced by answers: both make a spurious conflict,
  never a missed one (`RevisionIsNeverAhead`). The plugin compares `expectedRevision` before it starts
  (`code.ts:353`), so an edit by somebody else between two of its awaits is overwritten. A session that is gone when the
  answer is settled makes a mutation that took effect a stale failure. A request entered after the last
  clearing (`bridge.rs:1268`) waits for its whole timeout, and
  `Disconnect` in a window whose socket is not open leaves the credential valid.

## 6. What is not modelled, and why

* Inside the modelled parts: progress and artifact reports of jobs; the probe
  cache and the ranking of providers; the events a provider sends (only a changed
  catalogue is a signal); the announcements of the catalogue, published after it
  is unlocked; frame encoding; dry runs; conditions, bindings and the sequence
  of steps of a recipe (one step with its attempts is modelled).
* Driver host, tools: the deadline and the CPU budget of the host's own call, which forget the
  parent's entry just before the driver is killed (`driver-host/lib.rs:4461`, `:4529`): what the
  driver asks for in between could be refused, but the driver is going anyway.
* Driver link: protocol version 1, the handshake, CPU accounting, the driver's limit of 64 active
  requests, events and progress frames, the tail of a runtime tool's output.
* Audit: `tail`. File profile: the extra file of snapshots, capacity, schema and model refusals,
  the cursor of events, the journal of a forked child, the cooperation protocol.
* Figma: first pairing, several sessions, the limits on pending and expired requests (of the
  latter the smallest identifier gives way), heartbeat timing, artifacts,
  the operations on a document, and the call of `invalidate_generation` when a request finds its
  connection over (`bridge.rs:673`), which changes nothing as long as `TheEntryIsServed` holds.
* Not begun: the plan vault, the project graph and the workflow store (see the next section),
  the registry of driver packages, federation and the plug-in sandbox, which launch and proxy.
* Left out for good: clients (command line, TUI, MCP server) that only map
  calls to frames; policy rules and registry search, which are pure functions of their
  configuration and appear as choices; platform access and the other application
  drivers, whose behaviour is that of other programs; media domains, which are
  arithmetic on documents with their own unit tests; package installation, which
  is file and signature work without state between calls. These make up most of
  the repository's lines, which is why the share of lines the models stand for is small.

## 7. Plan

In the order of what matters most to a user. A new part joins the runs of
its neighbours where that is possible.

1. **Refs** (`types/lib.rs` RefStore, `core` replacement and revocation): cap,
   expiry, sessions, backends, and an answer that arrives after its provider was
   replaced. Theorems: a reference resolves for its session only; the cap.
2. **PlanVault** (`semantic-composition`): issue, begin, finish, reconcile, reap,
   with the steps a crash or a lost reply leaves open. Theorem: a plan is
   committed at most once. Two repairs issued for one completed parent may both begin.
3. **JobProgress**: reports, artifacts and their partial failure as an
   extension of Jobs; provider events in Providers; several steps in a recipe.
4. **ProjectGraph** (watch, rescan and rebuild reservation) and **WorkflowStore**
   (promotion and demotion).
5. **Proofs**: an abstract execution (one effect, one record, one answer) and the abstract
   link between host and driver, with the refinements by Dispatch and DriverLink; the invariants of the new parts.
