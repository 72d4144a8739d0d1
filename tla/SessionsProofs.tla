--------------------------- MODULE SessionsProofs ---------------------------
(***************************************************************************)
(* Proofs about the daemon's sessions, for any sets of tickets,            *)
(* connections and request identifiers and any limits: types, at most one  *)
(* execution per identifier, no orphaned request, and the budgets.         *)
(***************************************************************************)
EXTENDS Sessions, FiniteSetTheorems, TLAPS

\* The table: only a live session has requests, a revoked one is gone, and an
\* identifier that was never seen never ran.
TableInv ==
  /\ \A t \in Tickets : active[t] \subseteq seen[t]
  /\ \A t \in Tickets : active[t] # {} => entry[t] = "live"
  /\ \A t \in revoked : entry[t] = "gone"
  /\ \A k \in Keys : /\ k[2] \notin seen[k[1]] => dispatched[k] = 0
                     /\ dispatched[k] <= 1

\* A running request came through a connection that had been opened.
ViaInv == \A k \in Keys : task[k] # "none" =>
            via[k] \in Conns /\ conn[via[k]] \in {"open", "closed"}

\* The inductive invariant.
IInv == TypeOK /\ TableInv /\ TableKnowsTheTasks /\ ViaInv /\ LostRequestsAreCancelled

-----------------------------------------------------------------------------
(* The initial state and the steps *)

LEMMA InitIInv == Init => IInv
BY DEF Init, IInv, TypeOK, TableInv, TableKnowsTheTasks, ViaInv, LostRequestsAreCancelled,
       Keys, Halted

\* Every step preserves the types.
LEMMA TypeStep == IInv /\ [Next]_vars => TypeOK'
<1> SUFFICES ASSUME IInv, [Next]_vars
             PROVE  TypeOK'
  OBVIOUS
<1> USE DEF IInv, TypeOK, table, sockets, requests, Keys
<1>1. ASSUME NEW c \in Conns, Accept(c)
      PROVE  TypeOK'
  BY <1>1 DEF Accept
<1>2. ASSUME NEW c \in Conns, Hello(c)
      PROVE  TypeOK'
  BY <1>2, NoneAssumption DEF Hello, Purged, Expired, Live
<1>3. ASSUME NEW c \in Conns, NEW t \in Tickets, Resume(c, t)
      PROVE  TypeOK'
  BY <1>3, NoneAssumption DEF Resume, Purged, Expired, Live
<1>4. ASSUME NEW c \in Conns, Unwelcome(c)
      PROVE  TypeOK'
  BY <1>4 DEF Unwelcome, Refused, Purged, Expired, Live
<1>5. ASSUME NEW t \in Tickets, Age(t)
      PROVE  TypeOK'
  BY <1>5 DEF Age
<1>6. ASSUME NEW c \in Conns, NEW i \in Ids, Start(c, i)
      PROVE  TypeOK'
  BY <1>6 DEF Start, ChildToken, Live
<1>7. ASSUME NEW k \in Keys, Return(k) \/ Finish(k)
      PROVE  TypeOK'
  <2>1. CASE Return(k)
    BY <1>7, <2>1 DEF Return
  <2>2. CASE Finish(k)
    <3>1. active' \in [Tickets -> SUBSET Ids]
      BY <2>2 DEF Finish, FinishedRemoved
    <3> QED
      BY <2>2, <3>1 DEF Finish
  <2> QED
    BY <1>7, <2>1, <2>2
<1>8. ASSUME NEW c \in Conns, NEW i \in Ids, Cancel(c, i)
      PROVE  TypeOK'
  BY <1>8 DEF Cancel, InOwnSession, Live
<1>9. ASSUME NEW c \in Conns, WriterFails(c) \/ Disconnect(c)
      PROVE  TypeOK'
  BY <1>9 DEF WriterFails, Disconnect, OwnRequests, Through
<1>10. ASSUME Stop \/ Shutdown
       PROVE  TypeOK'
  BY <1>10 DEF Stop, Shutdown
<1>11. CASE UNCHANGED vars
  BY <1>11 DEF vars
<1> QED
  BY <1>1, <1>2, <1>3, <1>4, <1>5, <1>6, <1>7, <1>8, <1>9, <1>10, <1>11 DEF Next

\* Every step preserves what the table says: a handshake removes only sessions
\* without requests, and only Start adds to a session.
LEMMA TableStep == IInv /\ [Next]_vars => TableInv' /\ TableKnowsTheTasks'
<1> SUFFICES ASSUME IInv, [Next]_vars
             PROVE  TableInv' /\ TableKnowsTheTasks'
  OBVIOUS
<1> USE DEF IInv, TypeOK, TableInv, TableKnowsTheTasks, table, sockets, requests, Keys
<1>1. ASSUME entry' = Purged, revoked' = revoked \cup Expired,
             UNCHANGED <<seen, active, requests>>
      PROVE  TableInv' /\ TableKnowsTheTasks'
  BY <1>1 DEF Purged, Expired, Live
<1>2. ASSUME NEW c \in Conns, Hello(c)
      PROVE  TableInv' /\ TableKnowsTheTasks'
  BY <1>2 DEF Hello, Purged, Expired, Live
<1>3. ASSUME NEW c \in Conns, NEW t \in Tickets, Resume(c, t)
      PROVE  TableInv' /\ TableKnowsTheTasks'
  BY <1>1, <1>3 DEF Resume
<1>4. ASSUME NEW c \in Conns, Unwelcome(c)
      PROVE  TableInv' /\ TableKnowsTheTasks'
  BY <1>1, <1>4 DEF Unwelcome
<1>5. ASSUME NEW c \in Conns, NEW i \in Ids, Start(c, i)
      PROVE  TableInv' /\ TableKnowsTheTasks'
  <2> DEFINE t == ticket[c]
             k == <<t, i>>
  <2>1. t \in Tickets /\ k \in Keys /\ entry[t] = "live" /\ i \notin seen[t]
    BY <1>5 DEF Start, Live, Replay
  <2>2. /\ seen' = [seen EXCEPT ![t] = @ \cup {i}]
        /\ active' = [active EXCEPT ![t] = @ \cup {i}]
        /\ task' = [task EXCEPT ![k] = "inside"]
        /\ dispatched' = [dispatched EXCEPT ![k] = @ + 1]
        /\ UNCHANGED <<entry, revoked>>
    BY <1>5 DEF Start
  <2> HIDE DEF t
  <2>3. TableInv'
    BY <2>1, <2>2
  <2>4. TableKnowsTheTasks'
    BY <2>1, <2>2
  <2> QED
    BY <2>3, <2>4
<1>6. ASSUME NEW k \in Keys, Return(k)
      PROVE  TableInv' /\ TableKnowsTheTasks'
  BY <1>6 DEF Return
<1>7. ASSUME NEW k \in Keys, Finish(k)
      PROVE  TableInv' /\ TableKnowsTheTasks'
  BY <1>7 DEF Finish, FinishedRemoved
<1>8. ASSUME UNCHANGED <<entry, seen, active, revoked, task, dispatched>>
      PROVE  TableInv' /\ TableKnowsTheTasks'
  BY <1>8
<1> QED
  BY <1>2, <1>3, <1>4, <1>5, <1>6, <1>7, <1>8
  DEF Next, vars, Accept, Age, Cancel, WriterFails, Disconnect, Stop, Shutdown

\* Every step preserves that a lost request is cancelled: its token is a child of
\* its connection's, and that of the server's.
LEMMA TokenStep == IInv /\ [Next]_vars => ViaInv' /\ LostRequestsAreCancelled'
<1> SUFFICES ASSUME IInv, [Next]_vars
             PROVE  ViaInv' /\ LostRequestsAreCancelled'
  OBVIOUS
<1> USE DEF IInv, TypeOK, ViaInv, LostRequestsAreCancelled, Halted, table, sockets, requests,
            Keys
<1>1. ASSUME NEW c \in Conns, conn[c] \in {"new", "accepted"},
             NEW s \in {"accepted", "open", "closed"}, conn' = [conn EXCEPT ![c] = s],
             UNCHANGED <<halted, requests, server>>
      PROVE  ViaInv' /\ LostRequestsAreCancelled'
  BY <1>1
<1>2. ASSUME NEW c \in Conns, Accept(c) \/ Hello(c) \/ Unwelcome(c)
      PROVE  ViaInv' /\ LostRequestsAreCancelled'
  BY <1>1, <1>2 DEF Accept, Hello, Unwelcome, Refused
<1>3. ASSUME NEW c \in Conns, NEW t \in Tickets, Resume(c, t)
      PROVE  ViaInv' /\ LostRequestsAreCancelled'
  BY <1>1, <1>3 DEF Resume
<1>4. ASSUME NEW c \in Conns, NEW i \in Ids, Start(c, i)
      PROVE  ViaInv' /\ LostRequestsAreCancelled'
  BY <1>4 DEF Start, ChildToken, Live
<1>5. ASSUME NEW k \in Keys, Return(k) \/ Finish(k)
      PROVE  ViaInv' /\ LostRequestsAreCancelled'
  BY <1>5 DEF Return, Finish
<1>6. ASSUME NEW c \in Conns, NEW i \in Ids, Cancel(c, i)
      PROVE  ViaInv' /\ LostRequestsAreCancelled'
  BY <1>6 DEF Cancel
<1>7. ASSUME NEW c \in Conns, WriterFails(c) \/ Disconnect(c)
      PROVE  ViaInv' /\ LostRequestsAreCancelled'
  BY <1>7 DEF WriterFails, Disconnect, Through
<1>8. ASSUME Stop \/ Shutdown
      PROVE  ViaInv' /\ LostRequestsAreCancelled'
  BY <1>8 DEF Stop, Shutdown
<1>9. ASSUME UNCHANGED <<conn, halted, task, via, cancelled, server>>
      PROVE  ViaInv' /\ LostRequestsAreCancelled'
  BY <1>9
<1> QED
  BY <1>2, <1>3, <1>4, <1>5, <1>6, <1>7, <1>8, <1>9 DEF Next, vars, Age

LEMMA Inductive == Safety => []IInv
<1>1. IInv /\ [Next]_vars => IInv'
  BY TypeStep, TableStep, TokenStep DEF IInv
<1> QED
  BY InitIInv, <1>1, PTL DEF Safety

-----------------------------------------------------------------------------
(* Theorems *)

\* The session table, connections and requests keep their types.
THEOREM TypeCorrectness == Safety => []TypeOK
BY Inductive, PTL DEF IInv

\* Sessions::start: no request identifier enters the broker twice.
THEOREM NoReplay == Safety => []AtMostOnce
<1>1. IInv => AtMostOnce
  BY DEF IInv, TableInv, AtMostOnce
<1> QED
  BY Inductive, <1>1, PTL

\* Sessions::handshake never revokes a session under a running request.
THEOREM NoRevocationUnderARequest == Safety => []RevocationFindsNoRequest
<1>1. IInv => RevocationFindsNoRequest
  BY DEF IInv, TableInv, TableKnowsTheTasks, RevocationFindsNoRequest, Keys
<1> QED
  BY Inductive, <1>1, PTL

\* No request runs on with a live token after its connection or the server ended.
THEOREM NoOrphans == Safety => []LostRequestsAreCancelled
BY Inductive, PTL DEF IInv

\* The table and the running tasks agree.
THEOREM TableIsExact == Safety => []TableKnowsTheTasks
BY Inductive, PTL DEF IInv

\* The table is right about the requests, and none is in a revoked session.
THEOREM TableIsTrusted == Safety => []TableTracksRequests
BY TableIsExact, NoRevocationUnderARequest, PTL DEF TableTracksRequests

\* Nobody's request is cancelled by another session or another connection's end.
THEOREM CancellationScope == Safety => CancellationIsScoped
<1> DEFINE Scoped ==
      \A k \in cancelled' \ cancelled :
        \/ server' # "serving"
        \/ via[k] \in halted' \ halted
        \/ via'[k] \in halted'
        \/ task[k] = "inside" /\ task'[k] = "sending"
        \/ \E c \in Conns : conn[c] = "open" /\ ticket[c] = k[1]
                            /\ k[2] \in active[k[1]] /\ UNCHANGED <<conn, halted>>
<1>1. IInv /\ [Next]_vars => [Scoped]_vars
  <2> SUFFICES ASSUME IInv, Next
               PROVE  Scoped
    OBVIOUS
  <2> USE DEF IInv, TypeOK, table, sockets, requests, Keys
  <2>1. ASSUME NEW c \in Conns, NEW i \in Ids, Start(c, i)
        PROVE  Scoped
    BY <2>1 DEF Start, ChildToken, Halted, Live
  <2>2. ASSUME NEW k \in Keys, Return(k)
        PROVE  Scoped
    BY <2>2 DEF Return
  <2>3. ASSUME NEW c \in Conns, NEW i \in Ids, Cancel(c, i)
        PROVE  Scoped
    BY <2>3 DEF Cancel, InOwnSession
  <2>4. ASSUME NEW c \in Conns, WriterFails(c)
        PROVE  Scoped
    BY <2>4 DEF WriterFails, Through
  <2>5. ASSUME NEW c \in Conns, Disconnect(c)
        PROVE  Scoped
    BY <2>5 DEF Disconnect, OwnRequests, Through
  <2>6. ASSUME Stop
        PROVE  Scoped
    BY <2>6 DEF Stop
  <2>7. ASSUME UNCHANGED cancelled
        PROVE  Scoped
    BY <2>7
  <2> QED
    BY <2>1, <2>2, <2>3, <2>4, <2>5, <2>6, <2>7
    DEF Next, Accept, Hello, Resume, Unwelcome, Age, Finish, Shutdown
<1> QED
  BY Inductive, <1>1, PTL DEF CancellationIsScoped, Safety

-----------------------------------------------------------------------------
(* Budgets: room for one more was checked before one was added. *)

LEMMA Grows ==
  ASSUME NEW S, IsFiniteSet(S), NEW x, NEW T \in SUBSET (S \cup {x}),
         NEW limit \in Nat, Room(Cardinality(S), limit)
  PROVE  Cardinality(T) <= limit
<1>1. IsFiniteSet(S \cup {x}) /\ Cardinality(S \cup {x}) <= Cardinality(S) + 1
      /\ Cardinality(S) \in Nat
  <2>1. IsFiniteSet(S \cup {x})
        /\ Cardinality(S \cup {x}) = IF x \in S THEN Cardinality(S) ELSE Cardinality(S) + 1
    BY FS_AddElement
  <2>2. Cardinality(S) \in Nat
    BY FS_CardinalityType
  <2> QED
    BY <2>1, <2>2
<1>2. Cardinality(T) <= Cardinality(S \cup {x}) /\ Cardinality(T) \in Nat
      /\ Cardinality(S \cup {x}) \in Nat
  BY <1>1, FS_Subset, FS_CardinalityType
<1> QED
  BY <1>1, <1>2 DEF Room

LEMMA Shrinks ==
  ASSUME NEW S, IsFiniteSet(S), NEW T \in SUBSET S,
         NEW limit \in Nat, Cardinality(S) <= limit
  PROVE  Cardinality(T) <= limit
BY FS_Subset, FS_CardinalityType

LEMMA Finite ==
  /\ \A T \in SUBSET Tickets : IsFiniteSet(T)
  /\ \A T \in SUBSET Conns : IsFiniteSet(T)
  /\ \A T \in SUBSET Ids : IsFiniteSet(T)
  /\ \A T \in SUBSET Keys : IsFiniteSet(T)
<1>1. IsFiniteSet(Keys)
  BY FiniteAssumption, FS_Product DEF Keys
<1> QED
  BY <1>1, FiniteAssumption, FS_Subset

\* Initially there is nothing to count.
LEMMA BudgetsInit == Init => Budgets
<1> SUFFICES ASSUME Init
             PROVE  Budgets
  OBVIOUS
<1>1. Live = {} /\ Connected = {}
      /\ (\A c \in Conns : Through(c) = {})
      /\ (\A t \in Tickets : active[t] = {} /\ seen[t] = {})
  BY DEF Init, Live, Connected, Through, Keys
<1> QED
  BY <1>1, FS_EmptySet, BudgetAssumption
  DEF Budgets, SessionsFit, ConnectionsFit, EachConnectionFits, EachSessionFits

\* A handshake counts the sessions that are left after the purge.
LEMMA SessionsFitStep == IInv /\ Budgets /\ [Next]_vars => SessionsFit'
<1> SUFFICES ASSUME IInv, Budgets, [Next]_vars
             PROVE  SessionsFit'
  OBVIOUS
<1> USE BudgetAssumption DEF IInv, TypeOK, SessionsFit
<1>1. Live \in SUBSET Tickets /\ IsFiniteSet(Live) /\ IsFiniteSet(Live \ Expired)
  BY Finite DEF Live
<1>2. ASSUME Live' \subseteq Live
      PROVE  SessionsFit'
  BY <1>1, <1>2, Shrinks DEF Budgets
<1>3. ASSUME NEW c \in Conns, Hello(c)
      PROVE  SessionsFit'
  <2>1. PICK t \in Tickets : entry' = [Purged EXCEPT ![t] = "live"]
    BY <1>3 DEF Hello
  <2>2. Live' \subseteq (Live \ Expired) \cup {t}
    BY <2>1 DEF Live, Purged, Expired
  <2> QED
    BY <1>1, <1>3, <2>2, Grows DEF Hello
<1>4. ASSUME entry' = Purged
      PROVE  SessionsFit'
  BY <1>2, <1>4 DEF Live, Purged
<1>5. ASSUME UNCHANGED entry
      PROVE  SessionsFit'
  BY <1>2, <1>5 DEF Live
<1>6. ASSUME NEW c \in Conns, Accept(c) \/ Unwelcome(c) \/ WriterFails(c) \/ Disconnect(c)
      PROVE  entry' = Purged \/ UNCHANGED entry
  BY <1>6 DEF Accept, Unwelcome, WriterFails, Disconnect, table
<1>7. ASSUME NEW c \in Conns, NEW t \in Tickets, Resume(c, t)
      PROVE  entry' = Purged
  BY <1>7 DEF Resume
<1>8. ASSUME NEW c \in Conns, NEW i \in Ids, Start(c, i) \/ Cancel(c, i)
      PROVE  UNCHANGED entry
  BY <1>8 DEF Start, Cancel, table
<1>9. ASSUME NEW k \in Keys, Return(k) \/ Finish(k)
      PROVE  UNCHANGED entry
  BY <1>9 DEF Return, Finish, table
<1>10. ASSUME \/ Stop \/ Shutdown \/ UNCHANGED vars \/ \E t \in Tickets : Age(t)
       PROVE  UNCHANGED entry
  BY <1>10 DEF Stop, Shutdown, Age, vars, table
<1> HIDE DEF IInv, TypeOK, SessionsFit, Keys, Purged
<1> QED
  BY <1>3, <1>4, <1>5, <1>6, <1>7, <1>8, <1>9, <1>10 DEF Next

LEMMA ConnectionsFitStep == IInv /\ Budgets /\ [Next]_vars => ConnectionsFit'
<1> SUFFICES ASSUME IInv, Budgets, [Next]_vars
             PROVE  ConnectionsFit'
  OBVIOUS
<1> USE BudgetAssumption DEF IInv, TypeOK, ConnectionsFit
<1>1. IsFiniteSet(Connected)
  BY Finite DEF Connected
<1>2. ASSUME Connected' \subseteq Connected
      PROVE  ConnectionsFit'
  BY <1>1, <1>2, Shrinks DEF Budgets
<1>3. ASSUME NEW c \in Conns, Accept(c)
      PROVE  ConnectionsFit'
  <2>1. Connected' \subseteq Connected \cup {c}
    BY <1>3 DEF Accept, Connected
  <2> QED
    BY <1>1, <1>3, <2>1, Grows DEF Accept
<1>4. ASSUME NEW c \in Conns, conn[c] \in {"accepted", "open"}, NEW s,
             conn' = [conn EXCEPT ![c] = s]
      PROVE  ConnectionsFit'
  BY <1>2, <1>4 DEF Connected
<1>5. ASSUME UNCHANGED conn
      PROVE  ConnectionsFit'
  BY <1>2, <1>5 DEF Connected
<1>6. ASSUME NEW c \in Conns, Hello(c) \/ Unwelcome(c) \/ WriterFails(c) \/ Disconnect(c)
      PROVE  ConnectionsFit'
  BY <1>4, <1>5, <1>6 DEF Hello, Unwelcome, Refused, WriterFails, Disconnect
<1>7. ASSUME NEW c \in Conns, NEW t \in Tickets, Resume(c, t)
      PROVE  ConnectionsFit'
  BY <1>4, <1>7 DEF Resume
<1>8. ASSUME NEW c \in Conns, NEW i \in Ids, Start(c, i) \/ Cancel(c, i)
      PROVE  UNCHANGED conn
  BY <1>8 DEF Start, Cancel, sockets
<1>9. ASSUME NEW k \in Keys, Return(k) \/ Finish(k)
      PROVE  UNCHANGED conn
  BY <1>9 DEF Return, Finish, sockets
<1>10. ASSUME \/ Stop \/ Shutdown \/ UNCHANGED vars \/ \E t \in Tickets : Age(t)
       PROVE  UNCHANGED conn
  BY <1>10 DEF Stop, Shutdown, Age, vars, sockets
<1> HIDE DEF IInv, TypeOK, ConnectionsFit, Keys
<1> QED
  BY <1>3, <1>5, <1>6, <1>7, <1>8, <1>9, <1>10 DEF Next

LEMMA RequestsFitStep == IInv /\ Budgets /\ [Next]_vars => EachConnectionFits' /\ EachSessionFits'
<1> SUFFICES ASSUME IInv, Budgets, [Next]_vars
             PROVE  EachConnectionFits' /\ EachSessionFits'
  OBVIOUS
<1> USE BudgetAssumption DEF IInv, TypeOK, EachConnectionFits, EachSessionFits
<1>1. /\ \A c \in Conns : IsFiniteSet(Through(c))
      /\ \A t \in Tickets : IsFiniteSet(active[t]) /\ IsFiniteSet(seen[t])
  BY Finite DEF Through
<1>2. ASSUME \A c \in Conns : Through(c)' \subseteq Through(c),
             \A t \in Tickets : active'[t] \subseteq active[t] /\ seen'[t] \subseteq seen[t]
      PROVE  EachConnectionFits' /\ EachSessionFits'
  BY <1>1, <1>2, Shrinks DEF Budgets
<1>3. ASSUME NEW c \in Conns, NEW i \in Ids, Start(c, i)
      PROVE  EachConnectionFits' /\ EachSessionFits'
  <2> DEFINE t == ticket[c]
             k == <<t, i>>
  <2>1. t \in Tickets /\ k \in Keys /\ task[k] = "none"
    BY <1>3 DEF Start, Live, Replay, TableInv, TableKnowsTheTasks, Keys
  <2>2. /\ seen' = [seen EXCEPT ![t] = @ \cup {i}]
        /\ active' = [active EXCEPT ![t] = @ \cup {i}]
        /\ task' = [task EXCEPT ![k] = "inside"]
        /\ via' = [via EXCEPT ![k] = c]
        /\ Room(Cardinality(Through(c)), MaxPerConnection)
        /\ Room(Cardinality(active[t]), MaxPerSession)
        /\ Room(Cardinality(seen[t]), MaxSeen)
    BY <1>3 DEF Start
  <2> HIDE DEF t
  <2>3. ASSUME NEW d \in Conns
        PROVE  Cardinality(Through(d)') <= MaxPerConnection
    <3>1. CASE d = c
      <4>1. Through(d)' \subseteq Through(c) \cup {k}
        BY <2>1, <2>2, <3>1 DEF Through
      <4> QED
        BY <1>1, <2>2, <4>1, Grows
    <3>2. CASE d # c
      <4>1. Through(d)' \subseteq Through(d)
        BY <2>1, <2>2, <3>2 DEF Through
      <4> QED
        BY <1>1, <4>1, Shrinks DEF Budgets
    <3> QED
      BY <3>1, <3>2
  <2>4. ASSUME NEW u \in Tickets
        PROVE  Cardinality(active'[u]) <= MaxPerSession /\ Cardinality(seen'[u]) <= MaxSeen
    <3>1. CASE u = t
      <4>1. active'[u] \subseteq active[t] \cup {i} /\ seen'[u] \subseteq seen[t] \cup {i}
        BY <2>1, <2>2, <3>1
      <4> QED
        BY <1>1, <2>1, <2>2, <4>1, Grows
    <3>2. CASE u # t
      BY <2>1, <2>2, <3>2 DEF Budgets
    <3> QED
      BY <3>1, <3>2
  <2> QED
    BY <2>3, <2>4
<1>4. ASSUME NEW k \in Keys, Return(k) \/ Finish(k)
      PROVE  EachConnectionFits' /\ EachSessionFits'
  BY <1>2, <1>4 DEF Return, Finish, FinishedRemoved, Through, table, Keys
<1>5. ASSUME UNCHANGED <<seen, active, task, via>>
      PROVE  EachConnectionFits' /\ EachSessionFits'
  BY <1>2, <1>5 DEF Through
<1> QED
  BY <1>3, <1>4, <1>5
  DEF Next, vars, table, requests, Accept, Hello, Resume, Unwelcome, Age, Cancel, WriterFails,
      Disconnect, Stop, Shutdown

\* Sessions, connections, and the requests of each stay within their limits.
THEOREM BudgetsHold == Safety => []Budgets
<1>1. IInv /\ Budgets /\ [Next]_vars => Budgets'
  BY SessionsFitStep, ConnectionsFitStep, RequestsFitStep DEF Budgets
<1> QED
  BY Inductive, BudgetsInit, <1>1, PTL DEF Safety
=============================================================================
