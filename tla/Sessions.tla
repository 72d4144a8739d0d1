------------------------------ MODULE Sessions ------------------------------
(***************************************************************************)
(* The daemon's sessions and connections (crates/daemon/src/server.rs):    *)
(* resumable tickets with idle expiry, request identifiers that run at     *)
(* most once, per-connection and per-session budgets, and the cancellation *)
(* of requests by their client, by the loss of their connection, by their  *)
(* deadline and by shutdown.                                               *)
(*                                                                         *)
(* The session table is behind one mutex: each of its operations is one    *)
(* action.  Refused requests change nothing and are left out, and so are   *)
(* ping and subscribe frames, which do not touch the session (see Events). *)
(***************************************************************************)
EXTENDS Integers, FiniteSets

CONSTANTS Tickets,          \* session identifiers unique_id() may hand out
          Conns,            \* connections clients may open, each once
          Ids,              \* request identifiers clients choose
          None,
          MaxSessions,      \* 32
          MaxConnections,   \* 64
          MaxPerConnection, \* 8
          MaxPerSession,    \* 16
          MaxSeen           \* 4096

ASSUME FiniteAssumption == IsFiniteSet(Tickets) /\ IsFiniteSet(Conns) /\ IsFiniteSet(Ids)
ASSUME BudgetAssumption == /\ MaxSessions \in Nat /\ MaxConnections \in Nat
                           /\ MaxPerConnection \in Nat /\ MaxPerSession \in Nat
                           /\ MaxSeen \in Nat
ASSUME NoneAssumption   == None \notin Tickets \cup Conns

VARIABLES entry,      \* "unused", "live" or "gone": the ticket in Sessions.entries
          idle,       \* last touched more than 1800 s ago
          seen,       \* request identifiers the session ever started
          active,     \* requests of the session that have not finished
          revoked,    \* tickets Broker::revoke_session was called with
          conn,       \* "new", "accepted", "open" or "closed", per connection
          ticket,     \* the session each connection belongs to
          halted,     \* connections whose local_stop is cancelled
          task,       \* "none", "inside" execute or "sending", per request
          via,        \* the connection each request came through
          cancelled,  \* requests whose token is cancelled
          dispatched, \* ghost: how often each request entered the broker
          server      \* "serving", "draining" or "ended"

table    == <<entry, idle, seen, active, revoked>>
sockets  == <<conn, ticket, halted>>
requests == <<task, via, cancelled, dispatched>>
vars     == <<table, sockets, requests, server>>

Keys == Tickets \X Ids

Live == {t \in Tickets : entry[t] = "live"}

\* stop is the parent of every local_stop, which is the parent of the tokens of
\* the connection's requests.
OwnStop(c) == c \in halted                     \* faulty: misses shutdown
Halted(c)  == c \in halted \/ server # "serving"
Connected  == {c \in Conns : conn[c] \in {"accepted", "open"}}
Through(c) == {k \in Keys : task[k] # "none" /\ via[k] = c}

Init == /\ entry = [t \in Tickets |-> "unused"]
        /\ idle = [t \in Tickets |-> FALSE]
        /\ seen = [t \in Tickets |-> {}]
        /\ active = [t \in Tickets |-> {}]
        /\ revoked = {}
        /\ conn = [c \in Conns |-> "new"]
        /\ ticket = [c \in Conns |-> None]
        /\ halted = {}
        /\ task = [k \in Keys |-> "none"]
        /\ via = [k \in Keys |-> None]
        /\ cancelled = {}
        /\ dispatched = [k \in Keys |-> 0]
        /\ server = "serving"

-----------------------------------------------------------------------------
(* serve and the handshake *)

Room(n, limit) == n < limit

Accept(c) == /\ server = "serving"
             /\ conn[c] = "new"
             /\ Room(Cardinality(Connected), MaxConnections)
             /\ conn' = [conn EXCEPT ![c] = "accepted"]
             /\ UNCHANGED <<table, ticket, halted, requests, server>>

\* Every handshake first removes and revokes the sessions that expired.
Expired  == {t \in Live : idle[t] /\ active[t] = {}}

Purged == [t \in Tickets |-> IF t \in Expired THEN "gone" ELSE entry[t]]

Hello(c) ==
  /\ conn[c] = "accepted"
  /\ Room(Cardinality(Live \ Expired), MaxSessions)
  /\ \E t \in Tickets :
       /\ entry[t] = "unused"
       /\ entry' = [Purged EXCEPT ![t] = "live"]
       /\ ticket' = [ticket EXCEPT ![c] = t]
  /\ revoked' = revoked \cup Expired
  \* The Welcome frame may be lost; nobody knows the ticket then.
  /\ \E s \in {"open", "closed"} : conn' = [conn EXCEPT ![c] = s]
  /\ UNCHANGED <<idle, seen, active, halted, requests, server>>

Resume(c, t) ==
  /\ conn[c] = "accepted"
  /\ t \in Live \ Expired
  /\ entry' = Purged
  /\ revoked' = revoked \cup Expired
  /\ idle' = [idle EXCEPT ![t] = FALSE]
  /\ ticket' = [ticket EXCEPT ![c] = t]
  /\ \E s \in {"open", "closed"} : conn' = [conn EXCEPT ![c] = s]
  /\ UNCHANGED <<seen, active, halted, requests, server>>

\* The handshake fails after the purge (an unknown ticket, no room for another
\* session) or before it (no Hello frame within five seconds).
Refused(c)   == [conn EXCEPT ![c] = "closed"]

Unwelcome(c) ==
  /\ conn[c] = "accepted"
  /\ conn' = Refused(c)
  /\ \/ entry' = Purged /\ revoked' = revoked \cup Expired
     \/ UNCHANGED <<entry, revoked>>
  /\ UNCHANGED <<idle, seen, active, ticket, halted, requests, server>>

\* 1800 s pass; a suspended machine lets them pass during a request, too.
Age(t) == /\ t \in Live
          /\ idle' = [idle EXCEPT ![t] = TRUE]
          /\ UNCHANGED <<entry, seen, active, revoked, sockets, requests, server>>

-----------------------------------------------------------------------------
(* ClientMessage::Execute and Sessions::start *)

ActiveAgain(t, i) == i \in active[t]   \* faulty: forgets finished requests
Replay(t, i)      == i \in seen[t]

FreshToken(c, k) == cancelled          \* faulty: not a child token
ChildToken(c, k) == IF Halted(c) THEN cancelled \cup {k} ELSE cancelled \ {k}

\* The reader may take the frame although local_stop is already cancelled.
Start(c, i) ==
  LET t == ticket[c]
      k == <<t, i>>
  IN  /\ conn[c] = "open"
      /\ Room(Cardinality(Through(c)), MaxPerConnection)
      /\ t \in Live
      /\ ~Replay(t, i)
      /\ Room(Cardinality(active[t]), MaxPerSession)
      /\ Room(Cardinality(seen[t]), MaxSeen)
      /\ idle' = [idle EXCEPT ![t] = FALSE]
      /\ seen' = [seen EXCEPT ![t] = @ \cup {i}]
      /\ active' = [active EXCEPT ![t] = @ \cup {i}]
      /\ task' = [task EXCEPT ![k] = "inside"]
      /\ via' = [via EXCEPT ![k] = c]
      /\ cancelled' = ChildToken(c, k)
      /\ dispatched' = [dispatched EXCEPT ![k] = @ + 1]
      /\ UNCHANGED <<entry, revoked, sockets, server>>

\* Broker::execute returns, or the deadline of 300 s cancels the token and drops
\* it; then the Result frame is sent, or given up after five seconds.
Return(k) == /\ task[k] = "inside"
             /\ task' = [task EXCEPT ![k] = "sending"]
             /\ cancelled' \in {cancelled, cancelled \cup {k}}
             /\ UNCHANGED <<table, sockets, via, dispatched, server>>

\* Running is dropped: Sessions::finish.
NothingRemoved(t, i)  == active            \* faulty
FinishedRemoved(t, i) == [active EXCEPT ![t] = IF entry[t] = "live" THEN @ \ {i} ELSE @]

Finish(k) == /\ task[k] = "sending"
             /\ task' = [task EXCEPT ![k] = "none"]
             /\ active' = FinishedRemoved(k[1], k[2])
             /\ idle' = [idle EXCEPT ![k[1]] = FALSE]
             /\ UNCHANGED <<entry, seen, revoked, sockets, via, cancelled, dispatched,
                            server>>

-----------------------------------------------------------------------------
(* Cancellation *)

\* ClientMessage::Cancel: through any connection of the request's session.
InOwnSession(c, i) == {<<ticket[c], i>>}

Cancel(c, i) == /\ conn[c] = "open"
                /\ ticket[c] \in Live
                /\ i \in active[ticket[c]]
                /\ cancelled' = cancelled \cup InOwnSession(c, i)
                /\ UNCHANGED <<table, sockets, task, via, dispatched, server>>

\* The writer could not write for ten seconds: it cancels local_stop.
WriterFails(c) == /\ conn[c] = "open"
                  /\ c \notin halted
                  /\ halted' = halted \cup {c}
                  /\ cancelled' = cancelled \cup Through(c)
                  /\ UNCHANGED <<table, conn, ticket, task, via, dispatched, server>>

\* The reader's loop ends: Sessions::disconnect, then local_stop.
WholeSession(c) == {k \in Keys : k[1] = ticket[c] /\ k[2] \in active[k[1]]}   \* faulty
OwnRequests(c)  == {k \in Keys : k[1] = ticket[c] /\ k[2] \in active[k[1]] /\ via[k] = c}

Disconnect(c) == /\ conn[c] = "open"
                 /\ conn' = [conn EXCEPT ![c] = "closed"]
                 /\ halted' = halted \cup {c}
                 /\ cancelled' = cancelled \cup OwnRequests(c) \cup Through(c)
                 /\ UNCHANGED <<table, ticket, task, via, dispatched, server>>

\* stop is cancelled, and with it every token; then Sessions::cancel_all.
Stop == /\ server = "serving"
        /\ server' = "draining"
        /\ cancelled' = cancelled \cup {k \in Keys : task[k] # "none"}
        /\ UNCHANGED <<table, sockets, task, via, dispatched>>

\* finish_server: all handlers have ended; it waits eight seconds for the tasks
\* of requests, then shuts the broker down whether they ended or not.
Shutdown == /\ server = "draining"
            /\ \A c \in Conns : conn[c] \in {"new", "closed"}
            /\ server' = "ended"
            /\ UNCHANGED <<table, sockets, requests>>

-----------------------------------------------------------------------------
ConnStep(c) == Hello(c) \/ Unwelcome(c) \/ (Halted(c) /\ Disconnect(c))

Next == \/ \E c \in Conns :
             \/ Accept(c) \/ Hello(c) \/ Unwelcome(c) \/ WriterFails(c) \/ Disconnect(c)
             \/ \E t \in Tickets : Resume(c, t)
             \/ \E i \in Ids : Start(c, i) \/ Cancel(c, i)
        \/ \E k \in Keys : Return(k) \/ Finish(k)
        \/ \E t \in Tickets : Age(t)
        \/ Stop
        \/ Shutdown

\* A handshake takes at most five seconds, a request at most 300 and its result
\* five more; a halted connection ends.
Fairness == /\ \A c \in Conns : WF_vars(ConnStep(c))
            /\ \A k \in Keys : WF_vars(Return(k)) /\ WF_vars(Finish(k))
            /\ WF_vars(Shutdown)

Safety == Init /\ [][Next]_vars
Spec   == Safety /\ Fairness

-----------------------------------------------------------------------------
(* Correctness. *)

TypeOK ==
  /\ entry \in [Tickets -> {"unused", "live", "gone"}]
  /\ idle \in [Tickets -> BOOLEAN]
  /\ seen \in [Tickets -> SUBSET Ids]
  /\ active \in [Tickets -> SUBSET Ids]
  /\ revoked \in SUBSET Tickets
  /\ conn \in [Conns -> {"new", "accepted", "open", "closed"}]
  /\ ticket \in [Conns -> Tickets \cup {None}]
  /\ halted \in SUBSET Conns
  /\ task \in [Keys -> {"none", "inside", "sending"}]
  /\ via \in [Keys -> Conns \cup {None}]
  /\ cancelled \in SUBSET Keys
  /\ dispatched \in [Keys -> Nat]
  /\ server \in {"serving", "draining", "ended"}
  /\ \A c \in Conns : conn[c] = "open" => ticket[c] # None

\* server.rs start: "replaying mutations is forbidden".  A request identifier
\* enters the broker at most once, over all connections that resume its session,
\* after its request finished, and also when the session expired meanwhile.
AtMostOnce == \A k \in Keys : dispatched[k] <= 1

\* broker.revoke_session forgets references and cancels jobs: never under a
\* request of that session that is still running (server.rs handshake).
RevocationFindsNoRequest ==
  \A k \in Keys : task[k] # "none" => k[1] \notin revoked

\* docs/protocol.md: "Cancellation/connection loss invalidates the request's
\* child token".  The broker works for nobody with a live token: not after the
\* connection was lost, not after shutdown began, and not when either came
\* between the reader's check and the start of the request.
LostRequestsAreCancelled ==
  \A k \in Keys : task[k] # "none" /\ (Halted(via[k]) \/ conn[via[k]] = "closed")
                    => k \in cancelled

\* The table knows every running request, so cancel and expiry can find it, and
\* nothing else: a finished request does not keep its session alive for ever.
TableKnowsTheTasks == \A k \in Keys : task[k] # "none" <=> k[2] \in active[k[1]]

\* server.rs sessions: cancellation, expiry and the purge go by the table, and it is right
\* about the requests: none is missing, none is left over, none is in a revoked session.
TableTracksRequests == TableKnowsTheTasks /\ RevocationFindsNoRequest

SessionsFit        == Cardinality(Live) <= MaxSessions
ConnectionsFit     == Cardinality(Connected) <= MaxConnections
EachConnectionFits == \A c \in Conns : Cardinality(Through(c)) <= MaxPerConnection
EachSessionFits    == \A t \in Tickets : /\ Cardinality(active[t]) <= MaxPerSession
                                         /\ Cardinality(seen[t]) <= MaxSeen

\* The budgets hold whatever connections and sessions do at the same time.
Budgets == SessionsFit /\ ConnectionsFit /\ EachConnectionFits /\ EachSessionFits

\* A request is cancelled by its own session, by the loss of its own connection,
\* by its own deadline or by shutdown (server.rs disconnect: a session's other
\* connections go on).
CancellationIsScoped ==
  [][\A k \in cancelled' \ cancelled :
       \/ server' # "serving"
       \/ via[k] \in halted' \ halted
       \/ via'[k] \in halted'
       \/ task[k] = "inside" /\ task'[k] = "sending"
       \/ \E c \in Conns : conn[c] = "open" /\ ticket[c] = k[1]
                           /\ k[2] \in active[k[1]] /\ UNCHANGED <<conn, halted>>]_vars

\* Once shutdown begins the server ends (finish_server waits for every handler).
ShutdownCompletes == server = "draining" ~> server = "ended"
=============================================================================
