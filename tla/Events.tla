------------------------------- MODULE Events -------------------------------
(***************************************************************************)
(* The broker's event log (crates/core/src/lib.rs: publish_event,          *)
(* replay_visible, subscribe) and the subscriptions of one connection      *)
(* (crates/daemon/src/server.rs, ClientMessage::Subscribe).                *)
(*                                                                         *)
(* The log is behind one mutex, and the broadcast is sent while it is      *)
(* held: publishing is one action.  A connection first takes a broadcast   *)
(* receiver, then reads the history, then streams both from a task of its  *)
(* own; a second Subscribe aborts the first task without waiting for it.   *)
(*                                                                         *)
(* Connections share nothing but the log, so one connection is modelled.   *)
(* An event is its sequence number; its payload is abstracted away.        *)
(***************************************************************************)
EXTENDS Integers, Sequences

CONSTANTS Subs,          \* Subscribe frames the client sends, in any order
          Audiences,     \* None (public) and session tickets
          Mine,          \* the audiences the connection's session may see
          Capacity,      \* 256: the history and the broadcast channel
          QueueSize,     \* 32: the mpsc channel to the connection's writer
          MaxEvents,     \* bound on the events a broker process publishes
          MaxRestarts    \* bound on the restarts of the broker

ASSUME CapacityAssumption == Capacity \in Nat \ {0}
ASSUME BoundsAssumption   == MaxEvents \in Nat /\ MaxRestarts \in Nat
ASSUME MineAssumption     == Mine \subseteq Audiences

VARIABLES log,        \* audience of each event; events.sequence is its length
          oldest,     \* sequence of history.front(), 1 before any was dropped
          restarts,   \* restarts of the broker so far
          step,       \* "new", "attached", "streaming", "ended", per Subscribe
          after,      \* the cursor of the Subscribe frame
          position,   \* the next event of the broadcast receiver
          hand,       \* events the streaming task holds and still has to send
          last,       \* the task's `last`: the event it passed most recently
          base,       \* ghost: the event before the first that was replayed
          aborted,    \* the subscriptions whose task was aborted
          out,        \* the writer's queue: event sequences, 0 is an error frame
          cursor      \* what the client last read from a former broker process
                      \* and has not replaced since, else 0

broker == <<log, oldest, restarts>>
tasks  == <<step, after, position, hand, last, base, aborted>>
client == <<out, cursor>>
vars   == <<broker, tasks, client>>

Visible(n) == log[n] \in Mine

Init == /\ log = <<>>
        /\ oldest = 1
        /\ restarts = 0
        /\ step = [s \in Subs |-> "new"]
        /\ after = [s \in Subs |-> 0]
        /\ position = [s \in Subs |-> 1]
        /\ hand = [s \in Subs |-> {}]
        /\ last = [s \in Subs |-> 0]
        /\ base = [s \in Subs |-> 0]
        /\ aborted = {}
        /\ out = <<>>
        /\ cursor = 0

-----------------------------------------------------------------------------
(* Broker::publish_event *)

OldestKept == IF Len(log) - oldest + 1 = Capacity THEN oldest + 1 ELSE oldest

Publish(a) == /\ Len(log) < MaxEvents
              /\ log' = Append(log, a)
              /\ oldest' = OldestKept
              /\ UNCHANGED <<restarts, tasks, client>>

-----------------------------------------------------------------------------
(* The connection's reader: ClientMessage::Subscribe *)

\* The former task is aborted, not awaited; then the receiver is taken.
Subscribe(s, c) ==
  /\ step[s] = "new"
  /\ \A t \in Subs : step[t] # "attached"
  /\ step' = [step EXCEPT ![s] = "attached"]
  /\ after' = [after EXCEPT ![s] = c]
  /\ position' = [position EXCEPT ![s] = Len(log) + 1]
  /\ aborted' = aborted \cup {t \in Subs : step[t] = "streaming"}
  /\ UNCHANGED <<broker, hand, last, base, client>>

\* Broker::replay_visible
AlmostExpired(c) == c > 0 /\ oldest > c + 2   \* faulty
Expired(c)       == c > 0 /\ oldest > c + 1
Refused(c)       == c > Len(log) \/ Expired(c)

Replayed(c)    == {n \in oldest..Len(log) : n > c /\ Visible(n)}

Room == Len(out) < QueueSize

Refuse(s) == /\ step[s] = "attached"
             /\ Refused(after[s])
             /\ Room
             /\ out' = Append(out, 0)
             /\ step' = [step EXCEPT ![s] = "ended"]
             /\ after' = [after EXCEPT ![s] = 0]
             /\ UNCHANGED <<broker, position, hand, last, base, aborted, cursor>>

Accept(s) == /\ step[s] = "attached"
             /\ ~Refused(after[s])
             /\ hand' = [hand EXCEPT ![s] = Replayed(after[s])]
             /\ last' = [last EXCEPT ![s] = after[s]]
             /\ step' = [step EXCEPT ![s] = "streaming"]
             /\ base' = [base EXCEPT ![s] = IF after[s] = 0 THEN oldest - 1
                                            ELSE after[s]]
             /\ after' = [after EXCEPT ![s] = 0]
             /\ UNCHANGED <<broker, position, aborted, client>>

-----------------------------------------------------------------------------
(* The streaming task. *)

Send(s) == /\ step[s] = "streaming"
           /\ Room
           /\ \E n \in hand[s] :
                /\ \A m \in hand[s] : n <= m
                /\ out' = Append(out, n)
                /\ last' = [last EXCEPT ![s] = n]
                /\ hand' = [hand EXCEPT ![s] = @ \ {n}]
           /\ cursor' = 0
           /\ UNCHANGED <<broker, step, after, position, base, aborted>>

Lagged(s)    == Len(log) - position[s] + 1 > Capacity

\* The receiver's position skips what the ring overwrote.
Arriving(s) == IF Len(log) - position[s] + 1 > Capacity
               THEN Len(log) - Capacity + 1 ELSE position[s]

WantedLater(s, n) == n > last[s] + 1 /\ Visible(n)   \* faulty
Wanted(s, n) == n > last[s] /\ Visible(n)

Receive(s) == /\ step[s] = "streaming"
              /\ hand[s] = {}
              /\ position[s] <= Len(log)
              /\ ~Lagged(s)
              /\ position' = [position EXCEPT ![s] = Arriving(s) + 1]
              /\ hand' = [hand EXCEPT ![s] = {n \in {Arriving(s)} : Wanted(s, n)}]
              /\ UNCHANGED <<broker, step, after, last, base, aborted, client>>

\* Err(Lagged): the client is told, and the subscription is over.
Lag(s) == /\ step[s] = "streaming"
          /\ hand[s] = {}
          /\ Lagged(s)
          /\ Room
          /\ out' = Append(out, 0)
          /\ step' = [step EXCEPT ![s] = "ended"]
          /\ UNCHANGED <<broker, after, position, hand, last, base, aborted, cursor>>

\* An abort takes effect when the task next waits, at any time from now on.
Vanish(s) == /\ step[s] = "streaming"
             /\ s \in aborted
             /\ step' = [step EXCEPT ![s] = "ended"]
             /\ hand' = [hand EXCEPT ![s] = {}]
             /\ UNCHANGED <<broker, after, position, last, base, aborted, client>>

-----------------------------------------------------------------------------
(* The writer, the connection and the broker process. *)

Write == /\ out # <<>>
         /\ out' = Tail(out)
         /\ UNCHANGED <<broker, tasks, cursor>>

Disconnected == /\ step' = [s \in Subs |-> IF step[s] = "new" THEN "new" ELSE "ended"]
                /\ hand' = [s \in Subs |-> {}]
                /\ out' = <<>>
                /\ UNCHANGED <<after, position, last, base, aborted>>

\* The connection is lost or its writer gives up; the client may connect again
\* and send the Subscribe frames it has not sent.
Disconnect == /\ \E s \in Subs : step[s] \in {"attached", "streaming"}
              /\ Disconnected
              /\ UNCHANGED <<broker, cursor>>

SentAndRead(s) == last[s] > base[s] /\ \A i \in 1..Len(out) : out[i] # last[s]

\* A new broker process counts its events from one.
Restart == /\ restarts < MaxRestarts
           /\ restarts' = restarts + 1
           /\ log' = <<>>
           /\ oldest' = 1
           /\ cursor' \in {0} \cup {last[s] : s \in {t \in Subs : SentAndRead(t)}}
           /\ Disconnected

SubStep(s) == \/ Refuse(s) \/ Accept(s) \/ Send(s) \/ Receive(s) \/ Lag(s)
              \/ Vanish(s)

Next == \/ \E a \in Audiences : Publish(a)
        \/ \E s \in Subs : SubStep(s)
        \/ \E s \in Subs, c \in 0..MaxEvents : Subscribe(s, c)
        \/ Write
        \/ Disconnect
        \/ Restart

\* Runtime tasks are polled while they can make progress.  The writer writes a
\* frame or, after ten seconds, ends the connection.
Fairness == /\ \A s \in Subs : WF_vars(SubStep(s))
            /\ WF_vars(Write \/ (out # <<>> /\ Disconnect))

Safety == Init /\ [][Next]_vars
Spec   == Safety /\ Fairness

-----------------------------------------------------------------------------
(* Correctness. *)

TypeOK ==
  /\ log \in Seq(Audiences)
  /\ oldest \in Nat \ {0} /\ oldest <= Len(log) + 1 /\ Len(log) - oldest < Capacity
  /\ restarts \in Nat
  /\ step \in [Subs -> {"new", "attached", "streaming", "ended"}]
  /\ after \in [Subs -> Nat]
  /\ position \in [Subs -> Nat \ {0}]
  /\ hand \in [Subs -> SUBSET Nat]
  /\ last \in [Subs -> Nat]
  /\ base \in [Subs -> Nat]
  /\ aborted \in SUBSET Subs
  /\ out \in Seq(Nat)
  /\ cursor \in Nat

\* docs/events-jobs.md: replay and live delivery honour the audience.  Nothing
\* another session alone may see reaches the connection's writer, also not from
\* a task that was aborted (replay_visible, server.rs).
OthersEventsStayPrivate ==
  \A i \in 1..Len(out) : out[i] # 0 => out[i] <= Len(log) /\ Visible(out[i])

\* server.rs: "Subscribe before replay so events produced during replay are not
\* lost; dedupe by sequence."
Passed(s) == IF last[s] > base[s] THEN last[s] ELSE base[s]

Status(s) == CASE step[s] \in {"new", "attached"} -> "none"
               [] step[s] = "streaming" -> "open"
               [] step[s] = "ended" -> "ended"

Feed == INSTANCE EventFeed WITH status <- [s \in Subs |-> Status(s)],
                                upto <- [s \in Subs |-> Passed(s)]

\* Every subscription hands out a gapless, duplicate-free, ordered run of the
\* visible events, whatever is published between subscribe, replay and stream.
KeepsTheFeed == Feed!Safety

\* A task never waits for ever with an event behind it: whenever the broker pauses, as
\* it does here after MaxEvents, each subscription that streams has sent everything it
\* may, unless it ends (server.rs).
EventsArriveOrTheFeedEnds ==
  [](\A s \in Subs :
       <>(step[s] = "streaming" => \A n \in Passed(s) + 1 .. Len(log) : ~Visible(n)))

\* docs/protocol.md: "an expired cursor returns `Conflict`".  The events a cursor
\* of a former broker process continues are gone, so it is not accepted.
FormerCursorIsRefused ==
  [][\A s \in Subs : cursor # 0 /\ after[s] = cursor =>
       ~(step[s] = "attached" /\ step'[s] = "streaming")]_vars
=============================================================================
