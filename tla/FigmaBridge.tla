----------------------------- MODULE FigmaBridge ----------------------------
(***************************************************************************)
(* The bridge between the Figma driver and the plugin that runs inside the *)
(* editor (crates/driver-figma): BridgeHub::execute, the task that serves  *)
(* a WebSocket, and the plugin's two halves, the window that holds the     *)
(* socket (ui.html) and the thread that works on the document (code.ts).   *)
(*                                                                         *)
(* One session, paired by hand before: the plugin holds its credential and *)
(* every connection resumes it, under the next generation.  The driver     *)
(* handles one execution at a time, so at most one is in the hub; those    *)
(* that timed out may still be at work in the plugin.                      *)
(***************************************************************************)
EXTENDS Naturals, Sequences

CONSTANTS
  Conns,         \* connections, numbered in the order in which the plugin opens them
  Requests,      \* executions, numbered in the order in which the driver runs them
  None,          \* no connection, no request, no guard, no credential
  MaxRevision,   \* bound: changes of the document
  MaxReloads     \* bound: reloads of the plugin

ASSUME BridgeAssumption ==
  /\ Conns \subseteq Nat /\ Requests \subseteq Nat /\ None \notin Nat
  /\ MaxRevision \in Nat /\ MaxReloads \in Nat

VARIABLES
  place,       \* where a connection's task is
  gen,         \* the generation it was given in its challenge
  listed,      \* the connection whose handle is the session's entry in HubState
  seen,        \* SessionInfo.revision of a connection's handle
  pending,     \* requests that wait for an answer, by connection
  tombs,       \* requests that timed out (SessionHandle.expired)
  queue,       \* messages for a connection's socket (SessionHandle.outbound)
  credential,  \* generation of the resume credential
  toPlugin, toHub, joined,  \* a WebSocket: its two directions, its plugin's end
  exec,        \* the execution in the hub
  verdict,     \* what an execution returned
  ui,          \* the plugin's window
  revision,    \* the plugin's revision of the document
  work,        \* requests under way in the plugin's thread: by which connection they came
  reloads      \* reloads so far

hubVars    == <<place, gen, listed, seen, pending, tombs, queue, credential>>
wireVars   == <<toPlugin, toHub, joined>>
pluginVars == <<ui, revision, work, reloads>>
bridgeVars == <<hubVars, wireVars, exec, verdict, pluginVars>>

\* mail is the one-shot channel an answer comes through.
NoExecution == [at |-> "free", request |-> None, on |-> None, guard |-> None, mail |-> <<>>]

BridgeInit ==
  /\ place = [c \in Conns |-> "none"] /\ gen = [c \in Conns |-> 0]
  /\ listed = None /\ seen = [c \in Conns |-> 0]
  /\ pending = [c \in Conns |-> {}] /\ tombs = [c \in Conns |-> {}]
  /\ queue = [c \in Conns |-> <<>>] /\ credential = 1
  /\ toPlugin = [c \in Conns |-> <<>>] /\ toHub = [c \in Conns |-> <<>>]
  /\ joined = [c \in Conns |-> FALSE]
  /\ exec = NoExecution /\ verdict = [r \in Requests |-> "none"]
  /\ ui = [sock |-> None, active |-> FALSE, trusted |-> TRUE, context |-> 0]
  /\ revision = 0 /\ work = [r \in Requests |-> None] /\ reloads = 0

(***************************************************************************)
(* The session's entry.  take_session_generation removes it for one        *)
(* generation only; retire_session then tells its connection to close and  *)
(* drops the senders of whoever waits.                                     *)
(***************************************************************************)
AnyHolder(c) == TRUE   \* faulty: without the check of the generation
Holds(c) == listed = c

\* Messages nobody will read any more are forgotten at once, here and below.
Enqueue(c, m) == queue' = [queue EXCEPT ![c] = IF place[c] = "serving" THEN Append(@, m) ELSE @]

Retired(c, told) ==
  /\ IF told THEN Enqueue(c, [kind |-> "close"]) ELSE queue' = [queue EXCEPT ![c] = <<>>]
  /\ seen' = [seen EXCEPT ![c] = 0]
  /\ pending' = [pending EXCEPT ![c] = {}]
  /\ tombs' = [tombs EXCEPT ![c] = {}]

Invalidated(c, told) ==
  IF listed # None /\ Holds(c)
  THEN listed' = None /\ Retired(listed, told)
  ELSE UNCHANGED <<listed, queue, seen, pending, tombs>>

(***************************************************************************)
(* BridgeHub::execute.                                                     *)
(***************************************************************************)
Return(v) == verdict' = [verdict EXCEPT ![exec.request] = v] /\ exec' = NoExecution

Begin(r) ==
  /\ exec.at = "free" /\ verdict[r] = "none"
  /\ \A q \in Requests : q < r => verdict[q] # "none"
  /\ exec' = [NoExecution EXCEPT !.at = "selecting", !.request = r]
  /\ UNCHANGED <<hubVars, wireVars, verdict, pluginVars>>

\* No session within the grace period.
GiveUp ==
  /\ exec.at = "selecting" /\ listed = None
  /\ Return("unavailable")
  /\ UNCHANGED <<hubVars, wireVars, pluginVars>>

\* The caller's own expectation is another revision than the session's.
Mismatch ==
  /\ exec.at = "selecting" /\ listed # None
  /\ Return("stale")
  /\ UNCHANGED <<hubVars, wireVars, pluginVars>>

\* An operation on artifacts has no guard, any other the session's revision.
Select ==
  /\ exec.at = "selecting" /\ listed # None
  /\ \E g \in {seen[listed], None} :
       exec' = [exec EXCEPT !.at = "selected", !.on = listed, !.guard = g]
  /\ UNCHANGED <<hubVars, wireVars, verdict, pluginVars>>

Enter ==
  /\ exec.at = "selected"
  /\ pending' = [pending EXCEPT ![exec.on] = @ \cup {exec.request}]
  /\ exec' = [exec EXCEPT !.at = "entered"]
  /\ UNCHANGED <<place, gen, listed, seen, tombs, queue, credential,
                 wireVars, verdict, pluginVars>>

SendRequest ==
  /\ exec.at = "entered"
  /\ IF place[exec.on] = "over"
     THEN /\ pending' = [pending EXCEPT ![exec.on] = @ \ {exec.request}]
          /\ Return("unavailable")
          /\ UNCHANGED queue
     ELSE /\ Enqueue(exec.on,
               [kind |-> "request", request |-> exec.request, guard |-> exec.guard])
          /\ exec' = [exec EXCEPT !.at = "waiting"]
          /\ UNCHANGED <<pending, verdict>>
  /\ UNCHANGED <<place, gen, listed, seen, tombs, credential, wireVars, pluginVars>>

\* The answer has come: its revision is noted if the session is still its own.
Whoever == TRUE   \* faulty: only the session is looked up
Current == listed = exec.on

Settle ==
  /\ exec.at = "waiting" /\ exec.mail # <<>>
  /\ IF listed = None THEN Return("unavailable") /\ UNCHANGED seen
     ELSE IF ~Current THEN Return("stale") /\ UNCHANGED seen
     ELSE Return(Head(exec.mail).says) /\ seen' = [seen EXCEPT ![listed] = Head(exec.mail).revision]
  /\ UNCHANGED <<place, gen, listed, pending, tombs, queue, credential,
                 wireVars, pluginVars>>

\* The sender of the answer was dropped.
Lose ==
  /\ exec.at = "waiting" /\ exec.mail = <<>> /\ exec.request \notin pending[exec.on]
  /\ Invalidated(exec.on, TRUE) /\ Return("unavailable")
  /\ UNCHANGED <<place, gen, credential, wireVars, pluginVars>>

\* The request's time is over, though its answer may have come meanwhile.
Expire ==
  /\ exec.at = "waiting"
  /\ pending' = [pending EXCEPT ![exec.on] = @ \ {exec.request}]
  /\ exec' = [exec EXCEPT !.at = "expired", !.mail = <<>>]
  /\ UNCHANGED <<place, gen, listed, seen, tombs, queue, credential,
                 wireVars, verdict, pluginVars>>

Forget ==   \* faulty: nothing remembers the request
  /\ exec.at = "expired"
  /\ Return("timeout")
  /\ UNCHANGED <<hubVars, wireVars, pluginVars>>

\* remember_expired.
Bury ==
  /\ exec.at = "expired"
  /\ tombs' = [tombs EXCEPT ![exec.on] = @ \cup {exec.request}]
  /\ Return("timeout")
  /\ UNCHANGED <<place, gen, listed, seen, pending, queue, credential,
                 wireVars, pluginVars>>

ExecStep == GiveUp \/ Mismatch \/ Select \/ Enter \/ SendRequest \/ Settle \/ Lose \/ Expire \/ Bury

(***************************************************************************)
(* serve_connection.                                                       *)
(***************************************************************************)
Hear(c)     == toHub' = [toHub EXCEPT ![c] = Tail(@)]
Tell(c, m)  == toPlugin' = [toPlugin EXCEPT ![c] = IF joined[c] THEN Append(@, m) ELSE @]
Leave(c, how) == place' = [place EXCEPT ![c] = how]

\* ResumeHello: a generation, if there is a credential.
Greet(c) ==
  /\ place[c] = "hello" /\ toHub[c] # <<>> /\ Hear(c)
  /\ IF credential = None
     THEN /\ Tell(c, [kind |-> "refused"])
          /\ place' = [place EXCEPT ![c] = "over"] /\ UNCHANGED <<gen, seen>>
     ELSE /\ Tell(c, [kind |-> "challenge"])
          /\ place' = [place EXCEPT ![c] = "challenged"]
          /\ gen' = [gen EXCEPT ![c] = credential + 1]
          /\ seen' = [seen EXCEPT ![c] = Head(toHub[c]).revision]
  /\ UNCHANGED <<listed, pending, tombs, queue, credential, joined, exec, verdict,
                 pluginVars>>

\* ResumeAuthenticate: the generation must still be the credential's next.
Authenticate(c) ==
  /\ place[c] = "challenged" /\ toHub[c] # <<>> /\ Hear(c)
  /\ IF credential # None /\ credential + 1 = gen[c]
     THEN /\ credential' = gen[c] /\ UNCHANGED toPlugin
          /\ place' = [place EXCEPT ![c] = "authenticated"]
     ELSE /\ Tell(c, [kind |-> "refused"]) /\ UNCHANGED credential
          /\ place' = [place EXCEPT ![c] = "over"]
  /\ UNCHANGED <<gen, listed, seen, pending, tombs, queue, joined, exec, verdict,
                 pluginVars>>

\* The entry of an older generation is replaced and retired.
Register(c) ==
  /\ place[c] = "authenticated"
  /\ IF listed # None /\ gen[c] <= gen[listed]
     THEN /\ place' = [place EXCEPT ![c] = "over"]
          /\ UNCHANGED <<listed, queue, seen, pending, tombs, toPlugin>>
     ELSE /\ place' = [place EXCEPT ![c] = "serving"]
          /\ listed' = c /\ Tell(c, [kind |-> "ready"])
          /\ IF listed = None THEN UNCHANGED <<queue, seen, pending, tombs>>
             ELSE Retired(listed, TRUE)
  /\ UNCHANGED <<gen, credential, toHub, joined, exec, verdict, pluginVars>>

\* The next message for the socket, which may find it closed; the loop ends when no
\* message can come any more.
Forward(c) ==
  /\ place[c] = "serving"
  /\ IF queue[c] # <<>>
     THEN /\ queue' = [queue EXCEPT ![c] = Tail(@)]
          /\ \/ Tell(c, Head(queue[c])) /\ UNCHANGED place
             \/ ~joined[c] /\ Leave(c, "leaving") /\ UNCHANGED toPlugin
     ELSE /\ listed # c /\ exec.on # c
          /\ Leave(c, "leaving") /\ UNCHANGED <<queue, toPlugin>>
  /\ UNCHANGED <<gen, listed, seen, pending, tombs, credential, toHub, joined, exec,
                 verdict, pluginVars>>

\* An answer goes to who waits for it; one to a request that timed out is noted
\* and dropped; any other ends the connection.
Waits(c, r) == r \in pending[c]

Answered(c, m) ==
  /\ \/ /\ Waits(c, m.request)
        /\ pending' = [pending EXCEPT ![c] = @ \ {m.request}]
        /\ exec' = IF exec.at = "waiting" /\ exec.on = c THEN [exec EXCEPT !.mail = <<m>>] ELSE exec
        /\ seen' = IF listed = c THEN [seen EXCEPT ![c] = m.revision] ELSE seen
        /\ UNCHANGED <<tombs, place>>
     \/ /\ ~Waits(c, m.request) /\ m.request \in tombs[c]
        /\ tombs' = [tombs EXCEPT ![c] = @ \ {m.request}]
        /\ seen' = IF listed = c THEN [seen EXCEPT ![c] = m.revision] ELSE seen
        /\ UNCHANGED <<pending, exec, place>>
     \/ /\ ~Waits(c, m.request) /\ m.request \notin tombs[c]
        /\ Leave(c, "broken")
        /\ UNCHANGED <<pending, exec, tombs, seen>>
  /\ UNCHANGED credential

TakeAnswer(c) ==
  /\ place[c] = "serving" /\ toHub[c] # <<>> /\ Head(toHub[c]).kind = "response"
  /\ Hear(c) /\ Answered(c, Head(toHub[c]))
  /\ UNCHANGED <<gen, listed, queue, toPlugin, joined, verdict, pluginVars>>

Later(a, b) == IF a < b THEN b ELSE a

TakeEvent(c) ==
  /\ place[c] = "serving" /\ toHub[c] # <<>> /\ Head(toHub[c]).kind = "event"
  /\ Hear(c)
  /\ seen' = IF listed = c THEN [seen EXCEPT ![c] = Later(@, Head(toHub[c]).revision)] ELSE seen
  /\ UNCHANGED <<place, gen, listed, pending, tombs, queue, credential, toPlugin,
                 joined, exec, verdict, pluginVars>>

\* RevokeResume and Close(manual_disconnect).
TakeGoodbye(c) ==
  /\ place[c] = "serving" /\ toHub[c] # <<>> /\ Head(toHub[c]).kind = "goodbye"
  /\ Hear(c) /\ credential' = None /\ Leave(c, "leaving")
  /\ UNCHANGED <<gen, listed, seen, pending, tombs, queue, toPlugin, joined, exec, verdict,
                 pluginVars>>

\* The plugin's end is closed; what it sent last may be lost with it.
StreamEnds(c) ==
  /\ ~joined[c]
  /\ \/ place[c] \in {"hello", "challenged"}
        /\ place' = [place EXCEPT ![c] = "over"]
     \/ place[c] = "serving" /\ Leave(c, "leaving")
  /\ toHub' = [toHub EXCEPT ![c] = <<>>]
  /\ UNCHANGED <<gen, listed, seen, pending, tombs, queue, credential, toPlugin, joined,
                 exec, verdict, pluginVars>>

\* No frame was received within HEARTBEAT_DEADLINE.
HeartbeatEnds(c) ==
  /\ place[c] = "serving" /\ Leave(c, "leaving")
  /\ UNCHANGED <<gen, listed, seen, pending, tombs, queue, credential, wireVars, exec,
                 verdict, pluginVars>>

\* After the loop, whatever ended it.
Unlist(c) ==
  /\ place[c] \in {"leaving", "broken"} /\ Invalidated(c, FALSE)
  /\ place' = [place EXCEPT ![c] = "unlisted"] /\ toHub' = [toHub EXCEPT ![c] = <<>>]
  /\ UNCHANGED <<gen, credential, toPlugin, joined, exec, verdict, pluginVars>>

Clear(c) ==
  /\ place[c] = "unlisted"
  /\ pending' = [pending EXCEPT ![c] = {}] /\ tombs' = [tombs EXCEPT ![c] = {}]
  /\ place' = [place EXCEPT ![c] = "cleared"]
  /\ UNCHANGED <<gen, listed, seen, queue, credential, wireVars, exec, verdict,
                 pluginVars>>

\* The task returns: the socket and the receiver of the queue are dropped.
Release(c) ==
  /\ place[c] = "cleared"
  /\ place' = [place EXCEPT ![c] = "over"] /\ queue' = [queue EXCEPT ![c] = <<>>]
  /\ UNCHANGED <<gen, listed, seen, pending, tombs, credential, wireVars, exec,
                 verdict, pluginVars>>

ConnStep(c) == \/ Greet(c) \/ Authenticate(c) \/ Register(c) \/ Forward(c)
               \/ TakeAnswer(c) \/ TakeEvent(c) \/ TakeGoodbye(c) \/ StreamEnds(c)
               \/ Unlist(c) \/ Clear(c) \/ Release(c)

\* The credential's time is over (bound: while no connection is up).
CredentialExpires ==
  /\ credential # None /\ credential' = None
  /\ \A c \in Conns : place[c] \in {"none", "over"}
  /\ UNCHANGED <<place, gen, listed, seen, pending, tombs, queue, wireVars, exec,
                 verdict, pluginVars>>

(***************************************************************************)
(* The plugin.                                                             *)
(***************************************************************************)
Reads(c)  == place[c] \notin {"leaving", "broken", "unlisted", "cleared", "over"}
Say(c, m) == toHub' = [toHub EXCEPT ![c] = IF Reads(c) THEN Append(@, m) ELSE @]

\* The socket of the window is gone: closed here, by the hub or on the way.
HangUp    == /\ joined' = [c \in Conns |-> joined[c] /\ c # ui.sock]
             /\ toPlugin' = [c \in Conns |-> IF c = ui.sock THEN <<>> ELSE toPlugin[c]]
Closed(u) == [u EXCEPT !.sock = None, !.active = FALSE]

\* What the thread tells the window goes to whatever connection is active now.
Posted(m) == IF ui.active THEN Say(ui.sock, m) ELSE UNCHANGED toHub

OpenSocket(c) ==
  /\ ui.sock = None /\ ui.trusted
  /\ place[c] = "none" /\ \A b \in Conns : b < c => place[b] # "none"
  /\ place' = [place EXCEPT ![c] = "hello"]
  /\ joined' = [joined EXCEPT ![c] = TRUE]
  /\ Say(c, [kind |-> "hello", revision |-> ui.context])
  /\ ui' = [ui EXCEPT !.sock = c]
  /\ UNCHANGED <<gen, listed, seen, pending, tombs, queue, credential, toPlugin, exec,
                 verdict, revision, work, reloads>>

\* An answer names no connection (via is a history of it): the window labels it with its
\* own session and generation.
Answer(r, c, says, rev) ==
  [kind |-> "response", request |-> r, via |-> c, says |-> says, revision |-> rev]

\* handle checks the guard once, before it starts.
Fits(guard) == guard \in {None, revision}

TakeMessage ==
  LET c == ui.sock
      m == Head(toPlugin[c]) IN
  /\ c # None /\ toPlugin[c] # <<>>
  /\ \/ /\ m.kind = "challenge" /\ Say(c, [kind |-> "proof"])
        /\ UNCHANGED <<ui, work>>
     \/ /\ m.kind = "ready" /\ ui' = [ui EXCEPT !.active = TRUE]
        /\ UNCHANGED <<toHub, work>>
     \/ /\ m.kind = "request" /\ Fits(m.guard)
        /\ work' = [work EXCEPT ![m.request] = c]
        /\ UNCHANGED <<toHub, ui>>
     \/ /\ m.kind = "request" /\ ~Fits(m.guard)
        /\ Posted(Answer(m.request, c, "conflict", revision))
        /\ UNCHANGED <<ui, work>>
     \/ /\ m.kind \in {"close", "refused"}
        /\ ui' = [Closed(ui) EXCEPT !.trusted = @ /\ m.kind = "close"]
        /\ UNCHANGED <<toHub, work>>
  /\ IF m.kind \in {"close", "refused"} THEN HangUp
     ELSE toPlugin' = [toPlugin EXCEPT ![c] = Tail(@)] /\ UNCHANGED joined
  /\ UNCHANGED <<hubVars, exec, verdict, revision, reloads>>

\* The operation is done; one that changed the document counts as a revision.
Finish(r) ==
  /\ work[r] # None
  /\ \E changed \in BOOLEAN, says \in {"ok", "failed"} :
       /\ changed => says = "ok" /\ revision < MaxRevision
       /\ revision' = IF changed THEN revision + 1 ELSE revision
       /\ work' = [work EXCEPT ![r] = None]
       /\ Posted(Answer(r, work[r], says, revision'))
  /\ UNCHANGED <<hubVars, toPlugin, joined, exec, verdict, ui, reloads>>

\* A selection, another page, or a change by somebody else.
Edit ==
  /\ revision < MaxRevision /\ revision' = revision + 1
  /\ ui' = [ui EXCEPT !.context = Later(@, revision')]
  /\ Posted([kind |-> "event", revision |-> revision'])
  /\ UNCHANGED <<hubVars, toPlugin, joined, exec, verdict, work, reloads>>

\* The socket closes, because the hub dropped its end or for any other reason.
OnClose ==
  /\ ui.sock # None /\ HangUp /\ ui' = Closed(ui)
  /\ UNCHANGED <<hubVars, toHub, exec, verdict, revision, work, reloads>>

\* The button: the credential is revoked if the socket is open.
ClickDisconnect ==
  /\ ui.trusted
  /\ HangUp /\ ui' = [Closed(ui) EXCEPT !.trusted = FALSE]
  /\ Posted([kind |-> "goodbye"])
  /\ UNCHANGED <<hubVars, exec, verdict, revision, work, reloads>>

\* The plugin is run anew: it counts revisions from zero and its work is gone.
Reload ==
  /\ reloads < MaxReloads /\ reloads' = reloads + 1
  /\ revision' = 0
  /\ work' = [r \in Requests |-> None]
  /\ HangUp /\ ui' = [Closed(ui) EXCEPT !.context = 0]
  /\ UNCHANGED <<hubVars, toHub, exec, verdict>>

PluginStep == \/ TakeMessage \/ Edit \/ OnClose \/ ClickDisconnect \/ Reload
              \/ \E c \in Conns : OpenSocket(c)
              \/ \E r \in Requests : Finish(r)

BridgeNext == \/ \E r \in Requests : Begin(r)
              \/ ExecStep
              \/ \E c \in Conns : ConnStep(c) \/ HeartbeatEnds(c)
              \/ CredentialExpires
              \/ PluginStep

BridgeSpec == BridgeInit /\ [][BridgeNext]_bridgeVars
-----------------------------------------------------------------------------
\* The session's entry is that of a connection whose task lives, and a connection
\* that the plugin counts as open and the hub serves is the entry: the end of an older
\* one does not take it away, and no ghost stays when a plugin has gone (bridge.rs
\* take_session_generation; docs/BRIDGE_PROTOCOL.md "rather than remaining visible as
\* a ghost session").
TheEntryIsServed ==
  /\ listed # None => place[listed] \in {"serving", "leaving", "broken"}
  /\ \A c \in Conns : ui.sock = c /\ ui.active /\ place[c] = "serving" => listed = c

\* The hub never believes in a later revision than the plugin has: otherwise a change
\* could pass a guard that names a state nobody has seen (bridge.rs execute, after the
\* answer).
RevisionIsNeverAhead ==
  \A c \in Conns : listed = c /\ joined[c] => seen[c] <= revision

\* docs/BRIDGE_PROTOCOL.md: a late answer is "discarded without being misclassified as
\* a duplicate protocol violation".  It ends a connection that is the session's entry
\* only in two cases: the request was carried by another connection, or it has timed
\* out just now and is not among the expired ones yet.
LateAnswersAreTolerated ==
  [][\A c \in Conns : place'[c] = "broken" /\ place[c] = "serving" /\ listed = c =>
       LET m == Head(toHub[c])
       IN  m.via # c \/ (exec.at = "expired" /\ exec.request = m.request)]_bridgeVars
=============================================================================
