------------------------------ MODULE LogProofs ------------------------------
(***************************************************************************)
(* Proofs about the broker's two logs.                                     *)
(*                                                                         *)
(* The event log and its subscriptions, for any capacity, any number of    *)
(* events and restarts, and any audiences: types, privacy, and that each   *)
(* subscription is a feed as EventFeed promises it.                        *)
(*                                                                         *)
(* The audit log, for any limits, any number of appends, faults and        *)
(* restarts: types, the chain of the acknowledged records, the files they  *)
(* are acknowledged in, how they may be lost, and that the log a process   *)
(* leaves is accepted by the next one.                                     *)
(***************************************************************************)
EXTENDS Events, Audit, SequenceTheorems, TLAPS

(***************************************************************************)
(* The event log.                                                          *)
(***************************************************************************)

\* The ring holds the last Capacity events.
LogInv == oldest = 1 \/ oldest <= Len(log) - Capacity + 1

\* What a task has in hand, and what it will still receive: every visible event
\* it has not passed is in hand, or comes later than all it has in hand and will
\* arrive through the receiver.
StreamInv(s) ==
  /\ position[s] <= Len(log) + 1
  /\ Passed(s) <= Len(log)
  /\ base[s] <= last[s] \/ base[s] < oldest
  /\ \A n \in hand[s] : n \in Passed(s) + 1 .. Len(log) /\ Visible(n)
  /\ \A n \in Passed(s) + 1 .. Len(log) :
       Visible(n) /\ n \notin hand[s] =>
         n >= position[s] /\ \A m \in hand[s] : m < n

\* The inductive invariant.
IInv == /\ TypeOK
        /\ LogInv
        /\ OthersEventsStayPrivate
        /\ \A s \in Subs : step[s] = "attached" => position[s] <= Len(log) + 1
        /\ \A s \in Subs : step[s] = "streaming" => StreamInv(s)

\* Every step preserves the types.
LEMMA TypeStep == IInv /\ [Next]_vars => TypeOK' /\ LogInv'
<1> SUFFICES ASSUME IInv, [Next]_vars
             PROVE  TypeOK' /\ LogInv'
  OBVIOUS
<1> USE CapacityAssumption, BoundsAssumption DEF IInv, TypeOK, LogInv, broker, tasks, client
<1>1. ASSUME NEW a \in Audiences, Publish(a)
      PROVE  TypeOK' /\ LogInv'
  <2>1. log' \in Seq(Audiences) /\ Len(log') = Len(log) + 1 /\ Len(log) \in Nat
    BY <1>1 DEF Publish
  <2>2. /\ oldest' \in Nat \ {0} /\ oldest' <= Len(log') + 1
        /\ Len(log') - oldest' < Capacity
        /\ LogInv'
    <3>1. oldest' = IF Len(log) - oldest + 1 = Capacity THEN oldest + 1 ELSE oldest
      BY <1>1 DEF Publish, OldestKept
    <3> HIDE DEF IInv, TypeOK
    <3>2. /\ oldest \in Nat \ {0} /\ oldest <= Len(log) + 1
          /\ Len(log) - oldest < Capacity /\ Capacity \in Nat \ {0}
          /\ oldest = 1 \/ oldest <= Len(log) - Capacity + 1
      BY DEF IInv, TypeOK
    <3>3. CASE Len(log) - oldest + 1 = Capacity
      BY <2>1, <3>1, <3>2, <3>3
    <3>4. CASE Len(log) - oldest + 1 # Capacity
      BY <2>1, <3>1, <3>2, <3>4
    <3> QED
      BY <3>3, <3>4
  <2>3. UNCHANGED <<restarts, tasks, client>>
    BY <1>1 DEF Publish
  <2> QED
    BY <2>1, <2>2, <2>3
<1>2. ASSUME NEW s \in Subs, NEW c \in 0..MaxEvents, Subscribe(s, c)
      PROVE  TypeOK' /\ LogInv'
  <2>1. /\ step' \in [Subs -> {"new", "attached", "streaming", "ended"}]
        /\ after' \in [Subs -> Nat] /\ position' \in [Subs -> Nat \ {0}]
        /\ aborted' \in SUBSET Subs
    BY <1>2 DEF Subscribe
  <2>2. UNCHANGED <<broker, hand, last, base, client>>
    BY <1>2 DEF Subscribe
  <2> QED
    BY <2>1, <2>2
<1>3. ASSUME NEW s \in Subs, Refuse(s)
      PROVE  TypeOK' /\ LogInv'
  BY <1>3 DEF Refuse
<1>4. ASSUME NEW s \in Subs, Accept(s)
      PROVE  TypeOK' /\ LogInv'
  <2>1. Replayed(after[s]) \in SUBSET Nat
    BY DEF Replayed
  <2>2. (IF after[s] = 0 THEN oldest - 1 ELSE after[s]) \in Nat
    OBVIOUS
  <2> QED
    BY <1>4, <2>1, <2>2 DEF Accept
<1>5. ASSUME NEW s \in Subs, Send(s)
      PROVE  TypeOK' /\ LogInv'
  <2>1. PICK n \in hand[s] : /\ out' = Append(out, n)
                             /\ last' = [last EXCEPT ![s] = n]
                             /\ hand' = [hand EXCEPT ![s] = @ \ {n}]
    BY <1>5 DEF Send
  <2>2. n \in Nat /\ hand[s] \ {n} \in SUBSET Nat
    OBVIOUS
  <2>3. UNCHANGED <<broker, step, after, position, base, aborted>> /\ cursor' = 0
    BY <1>5 DEF Send
  <2> QED
    BY <2>1, <2>2, <2>3
<1>6. ASSUME NEW s \in Subs, Receive(s)
      PROVE  TypeOK' /\ LogInv'
  <2>1. Arriving(s) \in Nat /\ {n \in {Arriving(s)} : Wanted(s, n)} \in SUBSET Nat
    BY DEF Arriving
  <2> QED
    <3>1. position' \in [Subs -> Nat \ {0}] /\ hand' \in [Subs -> SUBSET Nat]
      BY <1>6, <2>1 DEF Receive
    <3>2. UNCHANGED <<broker, step, after, last, base, aborted, client>>
      BY <1>6 DEF Receive
    <3>3. TypeOK'
      BY <3>1, <3>2
    <3> QED
      BY <3>2, <3>3
<1>7. ASSUME NEW s \in Subs, Lag(s)
      PROVE  TypeOK' /\ LogInv'
  BY <1>7 DEF Lag
<1>8. ASSUME NEW s \in Subs, Vanish(s)
      PROVE  TypeOK' /\ LogInv'
  BY <1>8 DEF Vanish
<1>9. CASE Write
  BY <1>9 DEF Write
<1>10. CASE Disconnect
  BY <1>10 DEF Disconnect, Disconnected
<1>11. CASE Restart
  BY <1>11 DEF Restart, Disconnected
<1>12. CASE UNCHANGED vars
  BY <1>12 DEF vars
<1> QED
  BY <1>1, <1>2, <1>3, <1>4, <1>5, <1>6, <1>7, <1>8, <1>9, <1>10, <1>11, <1>12
     DEF Next, SubStep

\* Every step keeps other sessions' events out of the writer's queue.
LEMMA PrivacyStep == IInv /\ [Next]_vars => OthersEventsStayPrivate'
<1> SUFFICES ASSUME IInv, [Next]_vars
             PROVE  OthersEventsStayPrivate'
  OBVIOUS
<1> USE DEF broker, tasks, client
<1>a. out \in Seq(Nat) /\ log \in Seq(Audiences)
      /\ \A i \in 1..Len(out) : out[i] # 0 => out[i] <= Len(log) /\ Visible(out[i])
  BY DEF IInv, TypeOK, OthersEventsStayPrivate
<1>1. ASSUME NEW a \in Audiences, Publish(a)
      PROVE  OthersEventsStayPrivate'
  <2>1. out' = out /\ log' = Append(log, a) /\ Len(log') = Len(log) + 1
    BY <1>1, <1>a DEF Publish
  <2>2. \A n \in 1..Len(log) : log'[n] = log[n]
    BY <1>a, <2>1
  <2>3. \A i \in 1..Len(out) : out[i] \in Nat
    BY <1>a
  <2> QED
    BY <1>a, <2>1, <2>2, <2>3 DEF OthersEventsStayPrivate, Visible
<1>2. ASSUME NEW s \in Subs, Refuse(s) \/ Lag(s)
      PROVE  OthersEventsStayPrivate'
  <2>1. out' = Append(out, 0) /\ log' = log
    BY <1>2 DEF Refuse, Lag
  <2> QED
    BY <1>a, <2>1 DEF OthersEventsStayPrivate, Visible
<1>3. ASSUME NEW s \in Subs, Send(s)
      PROVE  OthersEventsStayPrivate'
  <2>1. PICK n \in hand[s] : out' = Append(out, n)
    BY <1>3 DEF Send
  <2>2. n <= Len(log) /\ Visible(n) /\ log' = log
    BY <1>3, <2>1 DEF Send, IInv, StreamInv
  <2> QED
    BY <1>a, <2>1, <2>2 DEF OthersEventsStayPrivate, Visible
<1>4. CASE Write
  <2>1. out' = Tail(out) /\ log' = log /\ out # <<>>
    BY <1>4 DEF Write
  <2>2. \A i \in 1..Len(out') : out'[i] = out[i + 1] /\ i + 1 \in 1..Len(out)
    BY <1>a, <2>1
  <2> QED
    BY <1>a, <2>1, <2>2 DEF OthersEventsStayPrivate, Visible
<1>5. CASE Disconnect \/ Restart
  <2>1. out' = <<>>
    BY <1>5 DEF Disconnect, Restart, Disconnected
  <2> QED
    BY <2>1 DEF OthersEventsStayPrivate
<1>6. CASE out' = out /\ log' = log
  BY <1>6, <1>a DEF OthersEventsStayPrivate, Visible
<1> QED
  BY <1>1, <1>2, <1>3, <1>4, <1>5, <1>6
     DEF Next, SubStep, Subscribe, Accept, Receive, Vanish, vars

-----------------------------------------------------------------------------
(* What a task has in hand. *)

\* Every step preserves what holds of each task.
LEMMA StreamStep ==
  IInv /\ [Next]_vars =>
    /\ \A s \in Subs : step'[s] = "attached" => position'[s] <= Len(log') + 1
    /\ \A s \in Subs : step'[s] = "streaming" => StreamInv(s)'
<1> SUFFICES ASSUME IInv, [Next]_vars, NEW t \in Subs
             PROVE  /\ step'[t] = "attached" => position'[t] <= Len(log') + 1
                    /\ step'[t] = "streaming" => StreamInv(t)'
  OBVIOUS
<1> DEFINE Goal == /\ step'[t] = "attached" => position'[t] <= Len(log') + 1
                   /\ step'[t] = "streaming" => StreamInv(t)'
<1> USE DEF broker, tasks, client
<1>a. /\ step[t] = "attached" => position[t] <= Len(log) + 1
      /\ step[t] = "streaming" => StreamInv(t)
  BY DEF IInv
<1>b. /\ log \in Seq(Audiences) /\ Len(log) \in Nat
      /\ last[t] \in Nat /\ base[t] \in Nat /\ after[t] \in Nat
      /\ position[t] \in Nat \ {0} /\ oldest \in Nat \ {0} /\ hand[t] \in SUBSET Nat
      /\ Capacity \in Nat \ {0} /\ oldest <= Len(log) + 1
  BY CapacityAssumption DEF IInv, TypeOK
<1>1. ASSUME NEW a \in Audiences, Publish(a)
      PROVE  Goal
  <2>1. /\ Len(log') = Len(log) + 1
        /\ \A n \in 1..Len(log) : log'[n] = log[n]
        /\ oldest' \in {oldest, oldest + 1}
        /\ UNCHANGED <<tasks, client>>
    BY <1>1, <1>b DEF Publish, OldestKept
  <2>2. CASE step[t] = "streaming"
    <3>1. Passed(t)' = Passed(t) /\ Passed(t) \in Nat
      BY <1>b, <2>1 DEF Passed
    <3>2. \A n \in hand[t] : n \in Passed(t) + 1 .. Len(log) /\ Visible(n)
      BY <1>a, <2>2 DEF StreamInv
    <3>3. \A n \in hand'[t] : n \in Passed(t)' + 1 .. Len(log') /\ Visible(n)'
      BY <1>b, <2>1, <3>1, <3>2 DEF Visible
    <3>4. ASSUME NEW n \in Passed(t) + 1 .. Len(log'), Visible(n)', n \notin hand[t]
          PROVE  n >= position[t] /\ \A m \in hand[t] : m < n
      <4>1. CASE n <= Len(log)
        BY <1>a, <1>b, <2>1, <2>2, <3>1, <3>4, <4>1 DEF StreamInv, Visible
      <4>2. CASE n = Len(log) + 1
        BY <1>a, <1>b, <2>2, <3>1, <3>2, <4>2 DEF StreamInv
      <4> QED
        BY <1>b, <2>1, <3>1, <4>1, <4>2
    <3>5. /\ position'[t] <= Len(log') + 1
          /\ Passed(t)' <= Len(log')
          /\ base'[t] <= last'[t] \/ base'[t] < oldest'
      BY <1>a, <1>b, <2>1, <2>2, <3>1 DEF StreamInv
    <3> QED
      BY <2>1, <2>2, <3>1, <3>3, <3>4, <3>5 DEF StreamInv
  <2> QED
    BY <1>a, <1>b, <2>1, <2>2
<1>2. ASSUME NEW s \in Subs, NEW c \in 0..MaxEvents, Subscribe(s, c)
      PROVE  Goal
  <2>1. /\ UNCHANGED <<broker, hand, last, base>>
        /\ s # t => step'[t] = step[t] /\ position'[t] = position[t]
        /\ s = t => step'[t] = "attached" /\ position'[t] = Len(log) + 1
    BY <1>2 DEF Subscribe, IInv, TypeOK
  <2> QED
    BY <1>a, <1>b, <2>1 DEF StreamInv, Passed, Visible
<1>3. ASSUME NEW s \in Subs, Accept(s)
      PROVE  Goal
  <2>1. /\ UNCHANGED <<broker, position>>
        /\ s # t => /\ step'[t] = step[t] /\ hand'[t] = hand[t]
                    /\ last'[t] = last[t] /\ base'[t] = base[t]
        /\ s = t => /\ step'[t] = "streaming" /\ hand'[t] = Replayed(after[t])
                    /\ last'[t] = after[t]
                    /\ base'[t] = IF after[t] = 0 THEN oldest - 1 ELSE after[t]
    BY <1>3 DEF Accept, IInv, TypeOK
  <2>2. CASE s # t
    BY <1>a, <2>1, <2>2 DEF StreamInv, Passed, Visible
  <2>3. CASE s = t
    <3>1. after[t] <= Len(log) /\ (after[t] > 0 => oldest <= after[t] + 1)
      BY <1>3, <1>b, <2>3 DEF Accept, Refused, Expired
    <3>2. Passed(t)' = IF after[t] = 0 THEN oldest - 1 ELSE after[t]
      BY <1>b, <2>1, <2>3 DEF Passed
    <3>3. Passed(t)' \in Nat /\ Passed(t)' <= Len(log) /\ Passed(t)' + 1 >= oldest
      BY <1>b, <3>1, <3>2
    <3>4. hand'[t] = {n \in Passed(t)' + 1 .. Len(log) : Visible(n)}
      <4>1. \A n \in oldest..Len(log) : n > after[t] <=> n > Passed(t)'
        BY <1>b, <3>1, <3>2
      <4>2. \A n \in Passed(t)' + 1 .. Len(log) : n \in oldest..Len(log)
        BY <1>b, <3>3
      <4> QED
        BY <1>b, <2>1, <2>3, <3>3, <4>1, <4>2 DEF Replayed
    <3>5. position[t] <= Len(log) + 1
      BY <1>a, <1>3, <2>3 DEF Accept
    <3>6. base'[t] <= last'[t] \/ base'[t] < oldest
      BY <1>b, <2>1, <2>3
    <3> QED
      BY <2>1, <2>3, <3>3, <3>4, <3>5, <3>6 DEF StreamInv, Visible
  <2> QED
    BY <2>2, <2>3
<1>4. ASSUME NEW s \in Subs, Send(s)
      PROVE  Goal
  <2>1. CASE s # t
    <3>1. /\ UNCHANGED <<broker, step, position, base>>
          /\ hand'[t] = hand[t] /\ last'[t] = last[t]
      BY <1>4, <2>1 DEF Send, IInv, TypeOK
    <3> QED
      BY <1>a, <3>1 DEF StreamInv, Passed, Visible
  <2>2. CASE s = t
    <3>1. PICK n \in hand[t] : /\ \A m \in hand[t] : n <= m
                               /\ last'[t] = n /\ hand'[t] = hand[t] \ {n}
      BY <1>4, <2>2 DEF Send, IInv, TypeOK
    <3>2. UNCHANGED <<broker, step, position, base>> /\ step[t] = "streaming"
      BY <1>4, <2>2 DEF Send
    <3>3. n \in Passed(t) + 1 .. Len(log) /\ Passed(t) \in Nat /\ Passed(t) >= base[t]
      BY <1>a, <1>b, <3>1, <3>2 DEF StreamInv, Passed
    <3>4. Passed(t)' = n
      BY <1>b, <3>1, <3>2, <3>3 DEF Passed
    <3>5. \A m \in hand'[t] : m \in n + 1 .. Len(log) /\ Visible(m)
      BY <1>a, <1>b, <3>1, <3>2, <3>3 DEF StreamInv
    <3>6. \A m \in n + 1 .. Len(log) : Visible(m) /\ m \notin hand'[t] =>
            m >= position[t] /\ \A k \in hand'[t] : k < m
      BY <1>a, <1>b, <3>1, <3>2, <3>3 DEF StreamInv
    <3>7. position[t] <= Len(log) + 1 /\ base[t] <= n
      BY <1>a, <1>b, <3>2, <3>3 DEF StreamInv
    <3> QED
      BY <1>b, <3>1, <3>2, <3>3, <3>4, <3>5, <3>6, <3>7 DEF StreamInv, Visible
  <2> QED
    BY <2>1, <2>2
<1>5. ASSUME NEW s \in Subs, Receive(s)
      PROVE  Goal
  <2>1. CASE s # t
    <3>1. /\ UNCHANGED <<broker, step, last, base>>
          /\ hand'[t] = hand[t] /\ position'[t] = position[t]
      BY <1>5, <2>1 DEF Receive, IInv, TypeOK
    <3> QED
      BY <1>a, <3>1 DEF StreamInv, Passed, Visible
  <2>2. CASE s = t
    <3> DEFINE n == position[t]
    <3>1. Arriving(t) = n /\ n <= Len(log) /\ Len(log) - n + 1 <= Capacity
      BY <1>5, <1>b, <2>2 DEF Receive, Lagged, Arriving
    <3>2. /\ UNCHANGED <<broker, step, last, base>> /\ step[t] = "streaming"
          /\ hand[t] = {} /\ position'[t] = n + 1
          /\ hand'[t] = {k \in {n} : Wanted(t, k)}
      BY <1>5, <2>2, <3>1 DEF Receive, IInv, TypeOK
    <3>3. oldest <= n
      BY <1>b, <3>1 DEF IInv, LogInv
    <3>4. n > last[t] <=> n > Passed(t)
      BY <1>a, <1>b, <3>2, <3>3 DEF StreamInv, Passed
    <3>p. Passed(t) \in Nat /\ n \in Nat
      BY <1>b DEF Passed
    <3>w. Wanted(t, n) <=> n \in Passed(t) + 1 .. Len(log) /\ Visible(n)
      BY <1>b, <3>1, <3>4, <3>p DEF Wanted
    <3>5. hand'[t] = {k \in {n} : k \in Passed(t) + 1 .. Len(log) /\ Visible(k)}
      BY <3>2, <3>w
    <3>6. \A k \in Passed(t) + 1 .. Len(log) : Visible(k) /\ k \notin hand'[t] =>
            k >= n + 1 /\ \A m \in hand'[t] : m < k
      <4>1. ASSUME NEW k \in Passed(t) + 1 .. Len(log), Visible(k), k \notin hand'[t]
            PROVE  k >= n + 1
        <5>1. k >= n /\ k # n
          BY <1>a, <3>2, <3>5, <4>1 DEF StreamInv
        <5> QED
          BY <1>b, <3>p, <5>1
      <4>2. hand'[t] \subseteq {n}
        BY <3>5
      <4> QED
        BY <1>b, <3>p, <4>1, <4>2
    <3> QED
      BY <1>a, <1>b, <3>1, <3>2, <3>5, <3>6 DEF StreamInv, Passed, Visible
  <2> QED
    BY <2>1, <2>2
<1>6. ASSUME NEW s \in Subs, Refuse(s) \/ Lag(s) \/ Vanish(s)
      PROVE  Goal
  <2>1. /\ UNCHANGED <<broker, position, last, base>>
        /\ s # t => step'[t] = step[t] /\ hand'[t] = hand[t]
        /\ s = t => step'[t] = "ended"
    BY <1>6 DEF Refuse, Lag, Vanish, IInv, TypeOK
  <2> QED
    BY <1>a, <2>1 DEF StreamInv, Passed, Visible
<1>7. CASE Disconnect \/ Restart
  BY <1>7 DEF Disconnect, Restart, Disconnected
<1>8. CASE Write \/ UNCHANGED vars
  BY <1>a, <1>8 DEF Write, vars, StreamInv, Passed, Visible
<1> QED
  BY <1>1, <1>2, <1>3, <1>4, <1>5, <1>6, <1>7, <1>8 DEF Next, SubStep

LEMMA InitInv == Init => IInv
  BY CapacityAssumption DEF Init, IInv, TypeOK, LogInv, OthersEventsStayPrivate

\* The inductive invariant holds at every moment.
THEOREM Invariance == Safety => []IInv
<1>1. IInv /\ [Next]_vars => IInv'
  BY TypeStep, PrivacyStep, StreamStep DEF IInv
<1> QED
  BY InitInv, <1>1, PTL DEF Safety

\* The log, the tasks and the connection stay in their types (lib.rs, server.rs).
THEOREM TypeCorrectness == Safety => []TypeOK
<1>1. IInv => TypeOK
  BY DEF IInv
<1> QED
  BY Invariance, <1>1, PTL

\* No event of another session's audience reaches the connection (lib.rs
\* replay_visible, server.rs).
THEOREM Privacy == Safety => []OthersEventsStayPrivate
<1>1. IInv => OthersEventsStayPrivate
  BY DEF IInv
<1> QED
  BY Invariance, <1>1, PTL

-----------------------------------------------------------------------------
(* Every subscription is a feed. *)

FeedStatus == [s \in Subs |-> Status(s)]
FeedUpto   == [s \in Subs |-> Passed(s)]

\* Every step of the log and the connection is a step of the feed or a stutter.
LEMMA FeedStep ==
  ASSUME IInv, TypeOK', [Next]_vars
  PROVE  Feed!Next \/ UNCHANGED Feed!vars
<1> USE DEF broker, tasks, client
<1>a. /\ log \in Seq(Audiences) /\ Len(log) \in Nat
      /\ step \in [Subs -> {"new", "attached", "streaming", "ended"}]
      /\ last \in [Subs -> Nat] /\ base \in [Subs -> Nat] /\ after \in [Subs -> Nat]
      /\ oldest \in Nat \ {0} /\ oldest <= Len(log) + 1
  <2>1. TypeOK
    BY DEF IInv
  <2>2. log \in Seq(Audiences) /\ Len(log) \in Nat
    BY <2>1 DEF TypeOK
  <2>3. /\ step \in [Subs -> {"new", "attached", "streaming", "ended"}]
        /\ last \in [Subs -> Nat] /\ base \in [Subs -> Nat] /\ after \in [Subs -> Nat]
    BY <2>1 DEF TypeOK
  <2>4. oldest \in Nat \ {0} /\ oldest <= Len(log) + 1
    BY <2>1 DEF TypeOK
  <2> QED
    BY <2>2, <2>3, <2>4
<1>b. \A s \in Subs : Passed(s) \in Nat
  BY <1>a DEF Passed
<1>1. ASSUME last' = last, base' = base
      PROVE  FeedUpto' = FeedUpto
  <2>1. \A s \in Subs : Passed(s)' = Passed(s)
    BY <1>1 DEF Passed
  <2> QED
    BY <2>1 DEF FeedUpto
<1>2. ASSUME NEW a \in Audiences, Publish(a)
      PROVE  Feed!Next
  <2>1. FeedUpto' = FeedUpto
    BY <1>1, <1>2 DEF Publish
  <2>2. FeedStatus' = FeedStatus
    BY <1>2 DEF Publish, FeedStatus, Status
  <2>3. log' = Append(log, a)
    BY <1>2 DEF Publish
  <2> QED
    BY <2>1, <2>2, <2>3 DEF Feed!Next, Feed!Publish, FeedStatus, FeedUpto
<1>3. ASSUME NEW s \in Subs, NEW c \in 0..MaxEvents, Subscribe(s, c)
      PROVE  UNCHANGED Feed!vars
  <2>1. FeedUpto' = FeedUpto /\ log' = log
    BY <1>1, <1>3 DEF Subscribe
  <2>2. FeedStatus' = FeedStatus
    BY <1>a, <1>3 DEF Subscribe, FeedStatus, Status
  <2> QED
    BY <2>1, <2>2 DEF Feed!vars, FeedStatus, FeedUpto
<1>4. ASSUME NEW s \in Subs, Accept(s)
      PROVE  Feed!Open(s)
  <2>1. /\ log' = log /\ step[s] = "attached"
        /\ step' = [step EXCEPT ![s] = "streaming"]
        /\ last' = [last EXCEPT ![s] = after[s]]
        /\ base' = [base EXCEPT ![s] = IF after[s] = 0 THEN oldest - 1 ELSE after[s]]
        /\ after[s] <= Len(log)
    BY <1>a, <1>4 DEF Accept, Refused
  <2>2. FeedStatus' = [FeedStatus EXCEPT ![s] = "open"] /\ FeedStatus[s] = "none"
    BY <1>a, <2>1 DEF FeedStatus, Status
  <2> DEFINE b == IF after[s] = 0 THEN oldest - 1 ELSE after[s]
  <2>3. b \in 0..Len(log)
    BY <1>a, <2>1
  <2>4. \A t \in Subs : Passed(t)' = IF t = s THEN b ELSE Passed(t)
    BY <1>a, <2>1 DEF Passed
  <2>5. FeedUpto' = [FeedUpto EXCEPT ![s] = b]
    BY <2>4 DEF FeedUpto
  <2> QED
    BY <2>1, <2>2, <2>3, <2>5 DEF Feed!Open, FeedStatus, FeedUpto
<1>5. ASSUME NEW s \in Subs, Send(s)
      PROVE  Feed!Deliver(s)
  <2>1. PICK n \in hand[s] : /\ \A m \in hand[s] : n <= m
                             /\ last' = [last EXCEPT ![s] = n]
    BY <1>5 DEF Send
  <2>2. step[s] = "streaming" /\ step' = step /\ log' = log /\ base' = base
    BY <1>5 DEF Send
  <2>3. n \in Passed(s) + 1 .. Len(log) /\ Visible(n) /\ Passed(s) >= base[s]
    BY <1>a, <2>2 DEF IInv, StreamInv, Passed
  <2>4. \A m \in Passed(s) + 1 .. n - 1 : ~Visible(m)
    <3> SUFFICES ASSUME NEW m \in Passed(s) + 1 .. n - 1, Visible(m)
                 PROVE  FALSE
      OBVIOUS
    <3>1. m \in Passed(s) + 1 .. Len(log) /\ m < n
      BY <1>a, <1>b, <2>3
    <3>2. m \notin hand[s]
      BY <1>a, <1>b, <2>1, <2>3, <3>1
    <3>3. n < m
      BY <2>2, <3>1, <3>2 DEF IInv, StreamInv
    <3> QED
      BY <1>a, <1>b, <2>3, <3>1, <3>3
  <2>5. \A t \in Subs : Passed(t)' = IF t = s THEN n ELSE Passed(t)
    BY <1>a, <1>b, <2>1, <2>2, <2>3 DEF Passed
  <2>6. FeedUpto' = [FeedUpto EXCEPT ![s] = n] /\ FeedUpto[s] = Passed(s)
    BY <2>5 DEF FeedUpto
  <2>7. FeedStatus' = FeedStatus /\ FeedStatus[s] = "open"
    BY <2>2 DEF FeedStatus, Status
  <2> QED
    BY <2>2, <2>3, <2>4, <2>6, <2>7
       DEF Feed!Deliver, Feed!Visible, Visible, FeedStatus, FeedUpto
<1>6. ASSUME NEW s \in Subs, Receive(s)
      PROVE  UNCHANGED Feed!vars
  <2>1. FeedUpto' = FeedUpto /\ log' = log /\ step' = step
    BY <1>1, <1>6 DEF Receive
  <2> QED
    BY <2>1 DEF Feed!vars, FeedUpto, Status
<1>7. ASSUME NEW s \in Subs, Refuse(s) \/ Lag(s) \/ Vanish(s)
      PROVE  Feed!End(s)
  <2>1. FeedUpto' = FeedUpto
    BY <1>1, <1>7 DEF Refuse, Lag, Vanish
  <2>2. log' = log /\ step[s] # "ended" /\ step' = [step EXCEPT ![s] = "ended"]
    BY <1>7 DEF Refuse, Lag, Vanish
  <2>3. FeedStatus' = [FeedStatus EXCEPT ![s] = "ended"] /\ FeedStatus[s] # "ended"
    <3>1. Status(s)' = "ended" /\ \A t \in Subs \ {s} : Status(t)' = Status(t)
      BY <1>a, <2>2 DEF Status
    <3>2. Status(s) # "ended"
      BY <1>a, <2>2 DEF Status
    <3> QED
      BY <3>1, <3>2 DEF FeedStatus
  <2> QED
    BY <2>1, <2>2, <2>3 DEF Feed!End, FeedStatus, FeedUpto
<1>8. CASE Disconnect \/ Restart
  <2>1. FeedUpto' = FeedUpto
    BY <1>1, <1>8 DEF Disconnect, Restart, Disconnected
  <2>2. log' \in {log, <<>>}
        /\ step' = [s \in Subs |-> IF step[s] = "new" THEN "new" ELSE "ended"]
    BY <1>8 DEF Disconnect, Restart, Disconnected
  <2> DEFINE unused == {s \in Subs : step[s] = "new"}
  <2>3. FeedStatus' = [s \in Subs |-> IF s \in unused THEN "none" ELSE "ended"]
    BY <2>2 DEF FeedStatus, Status
  <2>4. unused \in SUBSET {s \in Subs : FeedStatus[s] = "none"}
    BY DEF FeedStatus, Status
  <2>5. Feed!EndAll
    BY <2>1, <2>2, <2>3, <2>4 DEF Feed!EndAll, FeedStatus, FeedUpto
  <2> QED
    BY <2>5 DEF Feed!Next
<1>9. CASE Write \/ UNCHANGED vars
  <2>1. FeedUpto' = FeedUpto /\ log' = log /\ step' = step
    BY <1>1, <1>9 DEF Write, vars
  <2> QED
    BY <2>1 DEF Feed!vars, FeedUpto, Status
<1>10. ASSUME NEW s \in Subs, SubStep(s)
       PROVE  Feed!Next \/ UNCHANGED Feed!vars
  BY <1>4, <1>5, <1>6, <1>7, <1>10 DEF SubStep, Feed!Next
<1> QED
  BY <1>2, <1>3, <1>8, <1>9, <1>10 DEF Next

\* A subscription never omits, repeats or reorders a visible event, whatever is
\* published between subscribe, replay and stream, for any capacity.
THEOREM SubscriptionsAreFeeds == Safety => KeepsTheFeed
<1>1. Init => Feed!Init
  BY DEF Init, Feed!Init, Status, Passed
<1>2. IInv /\ IInv' /\ [Next]_vars => [Feed!Next]_(Feed!vars)
  BY FeedStep DEF IInv
<1> QED
  BY Invariance, <1>1, <1>2, PTL DEF Safety, KeepsTheFeed, Feed!Safety

(***************************************************************************)
(* The audit log.                                                          *)
(***************************************************************************)

Rotating == {"sync", "shift", "rename", "reopen"}
Writing  == {"write", "sync_data"}

\* The live name leads to the file the handle writes to, or to none, which is
\* so only within a rotation and after one that failed: then the old file is
\* still full, and the next append rotates again.
LiveInv ==
  /\ name[0] \in {NoFile, handle}
  /\ daemon = "up" /\ name[0] = NoFile => Full
  /\ append.at \in Rotating => Full
  /\ daemon # "up" => append.at = "free"
  /\ append.at \in Writing => name[0] = handle /\ daemon = "up"
  /\ append.at = "reopen" => name[0] = NoFile
  /\ append.at = "sync_data" => content[handle] # <<>>

\* Nothing was acknowledged by a process before it began, and its counters are
\* those of the last record it acknowledged.
ChainInv ==
  /\ \A i \in DOMAIN acks : acks[i].process <= crashes
  /\ daemon = "down" => \A i \in DOMAIN acks : acks[i].process < crashes
  /\ acks # <<>> /\ acks[Len(acks)].process = crashes =>
       sequence = acks[Len(acks)].record.number /\ previous = acks[Len(acks)].record.id

\* While no write has failed, every file is accepted, and the one the handle
\* writes to ends with the last record, or with the one that is about to be.
Intact ==
  /\ \A f \in DOMAIN content : Accepts(content[f]) /\ Len(content[f]) <= MaxBytes
  /\ daemon # "refused"
  /\ daemon = "up" => bytes <= MaxBytes
  /\ append.at = "write" => bytes < MaxBytes
  /\ daemon = "up" /\ append.at # "sync_data" =>
       /\ Len(content[handle]) = bytes
       /\ bytes > 0 => /\ content[handle][bytes].number = sequence
                       /\ content[handle][bytes].id = previous
  /\ append.at = "sync_data" =>
       Len(content[handle]) = bytes + 1 /\ content[handle][bytes + 1] = Record

AuditInv == AuditTypeOK /\ LiveInv /\ ChainInv /\ (~torn => Intact)
-----------------------------------------------------------------------------
(* One lemma for each part: every step preserves it. *)

LEMMA Goes ==
  ASSUME AuditTypeOK, append.at # "free", NEW place \in Places, Proceed(place)
  PROVE  AppendOK' /\ scope' = scope
BY DEF AuditTypeOK, AppendOK, Proceed, Places

LEMMA Ends ==
  ASSUME AuditTypeOK, append.at # "free", NEW ok \in BOOLEAN, Unlock(ok)
  PROVE  /\ AppendOK' /\ index' = 0
         /\ scope' \in [Scopes -> {"idle", "running", "refused", "finished",
                                   "unfinished", "gone"}]
<1>1. append' = Free /\ index' = 0
  BY DEF Unlock
<1>2. AppendOK'
  BY <1>1 DEF AppendOK, Free, Places
<1>3. Told(append.scope, append.phase, ok) \in {"running", "refused", "finished",
                                               "unfinished", "gone"}
  BY DEF Told, AuditTypeOK, AppendOK
<1> QED
  BY <1>1, <1>2, <1>3 DEF Unlock, AuditTypeOK

LEMMA WrittenType ==
  ASSUME NEW f \in Seq(Lines), NEW line \in Lines
  PROVE  Written(f, line) \in Seq(Lines) /\ Written(f, line) # <<>>
BY DEF Written

LEMMA WritesType ==
  ASSUME AuditTypeOK, NEW line \in Lines,
         content' = [content EXCEPT ![handle] = Written(@, line)],
         UNCHANGED <<name, handle>>
  PROVE  FilesOK' /\ Len(content') = Len(content)
<1>1. content[handle] \in Seq(Lines)
  BY DEF AuditTypeOK, FilesOK
<1>2. Written(content[handle], line) \in Seq(Lines)
  BY <1>1, WrittenType
<1>3. content' \in Seq(Seq(Lines)) /\ Len(content') = Len(content)
  BY <1>2 DEF AuditTypeOK, FilesOK
<1> QED
  BY <1>3 DEF AuditTypeOK, FilesOK

LEMMA CreatedType ==
  ASSUME AuditTypeOK, Created
  PROVE  FilesOK'
<1>1. /\ content' \in Seq(Seq(Lines))
      /\ Len(content') = Len(content) + 1 /\ Len(content) \in Nat
  BY DEF Created, AuditTypeOK, FilesOK
<1> QED
  BY <1>1, AuditAssumption DEF Created, AuditTypeOK, FilesOK

LEMMA AuditTypeStep == AuditTypeOK /\ [AuditNext]_auditVars => AuditTypeOK'
<1> SUFFICES ASSUME AuditTypeOK, [AuditNext]_auditVars
             PROVE  AuditTypeOK'
  OBVIOUS
<1> USE AuditAssumption DEF AuditTypeOK, counters
<1>r. Record \in Lines /\ Garbled \in Lines
  BY DEF Record, Garbled, Lines
<1>f. UNCHANGED <<content, name, handle>> => FilesOK'
  BY DEF FilesOK
<1>1. ASSUME NEW s \in Scopes, BeginScope(s) \/ FinishScope(s) \/ DropScope(s)
      PROVE  AuditTypeOK'
  <2>1. PICK phase \in {"start", "finish", "abandoned"} : Lock(s, phase)
    BY <1>1 DEF BeginScope, FinishScope, DropScope
  <2>2. AppendOK'
    BY <2>1 DEF Lock, AppendOK, Places
  <2> QED
    BY <2>1, <2>2, <1>f DEF Lock
<1>2. CASE CallFails
  <2>8. Unlock(FALSE) /\ append.at # "free"
    BY <1>2 DEF CallFails
  <2>9. /\ AppendOK' /\ index' = 0
        /\ scope' \in [Scopes -> {"idle", "running", "refused", "finished",
                                  "unfinished", "gone"}]
    BY <2>8, Ends
  <2> QED
    BY <1>2, <1>f, <2>9 DEF CallFails
<1>3. CASE SyncAll
  <2>1. AppendOK' /\ scope' = scope
    BY <1>3, Goes DEF SyncAll, Places
  <2> QED
    BY <1>3, <1>f, <2>1 DEF SyncAll
<1>4. CASE Shift
  <2>1. FilesOK' /\ content' = content /\ handle' = handle
    BY <1>4 DEF Shift, FilesOK
  <2>2. CASE index > 0
    BY <1>4, <2>1, <2>2 DEF Shift, AppendOK
  <2>3. CASE ~ (index > 0)
    <3>1. AppendOK' /\ scope' = scope
      BY <1>4, <2>3, Goes DEF Shift, Places
    <3> QED
      BY <1>4, <2>1, <2>3, <3>1 DEF Shift
  <2> QED
    BY <2>2, <2>3
<1>5. CASE Retire
  <2>1. CASE name[0] # NoFile
    <3>1. FilesOK'
      <4>1. name[0] \in 1 .. Len(content) /\ 0 \in 0 .. Retention /\ 1 \in 0 .. Retention
        BY <2>1 DEF FilesOK
      <4>2. name' = [name EXCEPT ![1] = name[0], ![0] = NoFile]
            /\ UNCHANGED <<content, handle>>
        BY <1>5, <2>1 DEF Retire
      <4> QED
        BY <4>1, <4>2 DEF FilesOK
    <3>2. AppendOK' /\ scope' = scope
      BY <1>5, <2>1, Goes DEF Retire, Places
    <3> QED
      BY <1>5, <2>1, <3>1, <3>2 DEF Retire
  <2>2. CASE name[0] = NoFile
    <3>1. Unlock(FALSE) /\ append.at # "free"
      BY <1>5, <2>2 DEF Retire
    <3>2. /\ AppendOK' /\ index' = 0
          /\ scope' \in [Scopes -> {"idle", "running", "refused", "finished",
                                    "unfinished", "gone"}]
      BY <3>1, Ends
    <3> QED
      BY <1>5, <2>2, <1>f, <3>2 DEF Retire
  <2> QED
    BY <2>1, <2>2
<1>6. CASE Reopen
  <2>1. AppendOK' /\ scope' = scope
    BY <1>6, Goes DEF Reopen, Places
  <2>2. FilesOK'
    BY <1>6, CreatedType DEF Reopen
  <2> QED
    BY <1>6, <2>1, <2>2 DEF Reopen
<1>7. CASE WriteLine
  <2>1. AppendOK' /\ scope' = scope
    BY <1>7, Goes DEF WriteLine, Places
  <2>2. FilesOK'
    BY <1>7, <1>r, WritesType DEF WriteLine
  <2> QED
    BY <1>7, <2>1, <2>2 DEF WriteLine
<1>8. CASE WriteLineFails
  <2>8. Unlock(FALSE) /\ append.at # "free"
    BY <1>8 DEF WriteLineFails
  <2>9. /\ AppendOK' /\ index' = 0
        /\ scope' \in [Scopes -> {"idle", "running", "refused", "finished",
                                  "unfinished", "gone"}]
    BY <2>8, Ends
  <2>1. FilesOK'
    BY <1>8, <1>r, <1>f, WritesType DEF WriteLineFails
  <2> QED
    BY <1>8, <2>1, <2>9 DEF WriteLineFails
<1>9. CASE SyncData
  <2>8. Unlock(TRUE) /\ append.at # "free"
    BY <1>9 DEF SyncData
  <2>9. /\ AppendOK' /\ index' = 0
        /\ scope' \in [Scopes -> {"idle", "running", "refused", "finished",
                                  "unfinished", "gone"}]
    BY <2>8, Ends
  <2>1. acks' \in Seq([record : Lines, process : Nat])
    BY <1>9, <1>r DEF SyncData
  <2> QED
    BY <1>9, <2>1, <1>f, <2>9 DEF SyncData
<1>10. CASE SyncDataFails
  <2>8. Unlock(FALSE) /\ append.at # "free"
    BY <1>10 DEF SyncDataFails
  <2>9. /\ AppendOK' /\ index' = 0
        /\ scope' \in [Scopes -> {"idle", "running", "refused", "finished",
                                  "unfinished", "gone"}]
    BY <2>8, Ends
  <2> QED
    BY <1>10, <1>f, <2>9 DEF SyncDataFails
<1>11. CASE Crash
  <2>1. FilesOK'
    BY <1>11, <1>r, <1>f, WritesType DEF Crash
  <2>2. AppendOK'
    BY <1>11 DEF Crash, AppendOK, Free, Places
  <2>3. scope' \in [Scopes -> {"idle", "running", "refused", "finished", "unfinished", "gone"}]
    BY <1>11 DEF Crash
  <2> QED
    <3>1. torn' = torn \/ torn' = TRUE
      BY <1>11 DEF Crash
    <3>2. daemon' = "down" /\ index' = 0 /\ crashes < MaxCrashes /\ crashes' = crashes + 1
      BY <1>11 DEF Crash
    <3>3. UNCHANGED <<bytes, sequence, previous, appends, acks, faults>>
      BY <1>11 DEF Crash
    <3> QED
      <4>1. crashes' \in 0 .. MaxCrashes /\ index' \in 0 .. Retention
        BY <3>2
      <4>2. daemon' \in {"up", "down", "refused"} /\ torn' \in BOOLEAN
        BY <3>1, <3>2
      <4> QED
        BY <2>1, <2>2, <2>3, <3>3, <4>1, <4>2
<1>12. CASE OpenAudit
  <2>1. AppendOK' /\ UNCHANGED <<scope, index, appends, acks, torn, faults, crashes>>
    BY <1>12 DEF OpenAudit, AppendOK
  <2>2. CASE name[0] = NoFile
    BY <1>12, <2>1, <2>2, CreatedType DEF OpenAudit
  <2>3. CASE name[0] # NoFile
    <3>1. Live \in Seq(Lines) /\ name[0] \in 1 .. Len(content)
      BY <2>3 DEF Live, FilesOK
    <3>2. Live # <<>> => Last(Live) \in Lines
      BY <3>1 DEF Last
    <3>3. Live # <<>> => Last(Live).number \in Nat /\ Last(Live).id \in Nat
      BY <3>2 DEF Lines
    <3>4. /\ bytes' \in Nat /\ sequence' \in Nat /\ previous' \in Nat
          /\ daemon' \in {"up", "refused"}
          /\ handle' \in 1 .. Len(content) /\ UNCHANGED <<name, content>>
      <4>1. UNCHANGED <<name, content>> /\ daemon' \in {"up", "refused"}
        BY <1>12, <2>3 DEF OpenAudit
      <4>2. CASE UNCHANGED counters
        BY <4>1, <4>2 DEF FilesOK
      <4>3. CASE ~ UNCHANGED counters
        <5>1. /\ handle' = name[0] /\ bytes' = Len(Live)
              /\ sequence' = IF Live = <<>> THEN 0 ELSE Last(Live).number
              /\ previous' = IF Live = <<>> THEN 0 ELSE Last(Live).id
          BY <1>12, <2>3, <4>3 DEF OpenAudit
        <5> QED
          BY <3>1, <3>3, <4>1, <5>1
      <4> QED
        BY <4>2, <4>3
    <3> QED
      BY <2>1, <3>4 DEF FilesOK
  <2> QED
    BY <2>2, <2>3
<1>13. CASE UNCHANGED auditVars
  BY <1>13, <1>f DEF auditVars, AppendOK
<1> QED
  BY <1>1, <1>2, <1>3, <1>4, <1>5, <1>6, <1>7, <1>8, <1>9, <1>10, <1>11, <1>12, <1>13
     DEF AuditNext

LEMMA LiveStep == AuditTypeOK /\ LiveInv /\ [AuditNext]_auditVars => LiveInv'
<1> SUFFICES ASSUME AuditTypeOK, LiveInv, [AuditNext]_auditVars
             PROVE  LiveInv'
  OBVIOUS
<1> USE AuditAssumption DEF LiveInv, Writing, Rotating, Full, counters
<1>t. /\ 0 \in DOMAIN name /\ 1 \in DOMAIN name /\ index \in 0 .. Retention
      /\ name[0] \in 1 .. Len(content) \cup {NoFile}
      /\ handle \in 1 .. Len(content) /\ Len(content) \in Nat /\ DOMAIN content = 1 .. Len(content)
      /\ DOMAIN append = {"at", "scope", "phase"}
  <2>1. DOMAIN append = {"at", "scope", "phase"}
    BY DEF AuditTypeOK, AppendOK
  <2>2. content \in Seq(Seq(Lines)) /\ name \in [0 .. Retention -> 1 .. Len(content) \cup {NoFile}]
    BY DEF AuditTypeOK, FilesOK
  <2>3. /\ 0 \in DOMAIN name /\ 1 \in DOMAIN name
        /\ name[0] \in 1 .. Len(content) \cup {NoFile}
    BY <2>2
  <2> QED
    BY <2>1, <2>2, <2>3 DEF AuditTypeOK, FilesOK
<1>1. ASSUME NEW s \in Scopes, BeginScope(s) \/ FinishScope(s) \/ DropScope(s)
      PROVE  LiveInv'
  <2>1. PICK phase \in {"start", "finish", "abandoned"} : Lock(s, phase)
    BY <1>1 DEF BeginScope, FinishScope, DropScope
  <2> QED
    BY <2>1 DEF Lock
<1>2. CASE CallFails
  BY <1>2 DEF CallFails, Unlock, Free
<1>3. CASE SyncAll
  BY <1>3, <1>t DEF SyncAll, Proceed
<1>4. CASE Shift
  BY <1>4, <1>t DEF Shift, Proceed
<1>5. CASE Retire
  <2>1. UNCHANGED <<content, daemon, handle, bytes>> /\ daemon = "up" /\ append.at = "rename"
    BY <1>5 DEF Retire
  <2>2. CASE name[0] # NoFile
    <3>1. name'[0] = NoFile /\ append'.at = "reopen"
      BY <1>5, <1>t, <2>2 DEF Retire, Proceed
    <3> QED
      BY <2>1, <3>1
  <2>3. CASE name[0] = NoFile
    BY <1>5, <2>1, <2>3 DEF Retire, Unlock, Free
  <2> QED
    BY <2>2, <2>3
<1>6. CASE Reopen
  BY <1>6, <1>t DEF Reopen, Created, Proceed
<1>7. CASE WriteLine
  <2>1. content[handle] \in Seq(Lines) /\ Record \in Lines
    BY DEF AuditTypeOK, FilesOK, Record, Lines
  <2>2. content'[handle] # <<>>
    BY <1>7, <1>t, <2>1, WrittenType DEF WriteLine
  <2>3. append'.at = "sync_data" /\ UNCHANGED <<name, daemon, handle, bytes>>
        /\ daemon = "up" /\ append.at = "write"
    BY <1>7, <1>t DEF WriteLine, Proceed
  <2> QED
    BY <2>2, <2>3
<1>8. CASE WriteLineFails
  BY <1>8 DEF WriteLineFails, Unlock, Free
<1>9. CASE SyncData
  BY <1>9, <1>t DEF SyncData, Unlock, Free
<1>10. CASE SyncDataFails
  BY <1>10 DEF SyncDataFails, Unlock, Free
<1>11. CASE Crash
  BY <1>11 DEF Crash, Free
<1>12. CASE OpenAudit
  <2>1. append'.at = "free" /\ daemon = "down"
    BY <1>12 DEF OpenAudit
  <2>2. CASE name[0] = NoFile
    <3>1. name'[0] = handle' /\ name'[0] \in Nat
      BY <1>12, <1>t, <2>2 DEF OpenAudit, Created
    <3> QED
      BY <2>1, <3>1
  <2>3. CASE name[0] # NoFile
    <3>1. name' = name /\ (handle' = handle \/ handle' = name[0])
      BY <1>12, <2>3 DEF OpenAudit
    <3> QED
      BY <2>1, <2>3, <3>1
  <2> QED
    BY <2>2, <2>3
<1>13. CASE UNCHANGED auditVars
  BY <1>13 DEF auditVars
<1> QED
  BY <1>1, <1>2, <1>3, <1>4, <1>5, <1>6, <1>7, <1>8, <1>9, <1>10, <1>11, <1>12, <1>13
     DEF AuditNext

LEMMA ChainStep == AuditTypeOK /\ LiveInv /\ ChainInv /\ [AuditNext]_auditVars => ChainInv'
<1> SUFFICES ASSUME AuditTypeOK, LiveInv, ChainInv, [AuditNext]_auditVars
             PROVE  ChainInv'
  OBVIOUS
<1> USE DEF ChainInv, counters
<1>t. /\ acks \in Seq([record : Lines, process : Nat]) /\ Len(acks) \in Nat
      /\ DOMAIN acks = 1 .. Len(acks) /\ crashes \in Nat
      /\ \A i \in DOMAIN acks : acks[i].process \in Nat
  <2>1. acks \in Seq([record : Lines, process : Nat]) /\ crashes \in Nat
    BY AuditAssumption DEF AuditTypeOK
  <2>2. Len(acks) \in Nat /\ DOMAIN acks = 1 .. Len(acks)
    BY <2>1
  <2>3. ASSUME NEW i \in DOMAIN acks
        PROVE  acks[i] \in [record : Lines, process : Nat]
    <3> DEFINE Acks == [record : Lines, process : Nat]
    <3>1. acks \in Seq(Acks) /\ i \in 1 .. Len(acks)
      BY <2>1, <2>2
    <3> HIDE DEF Acks
    <3>2. acks[i] \in Acks
      BY <3>1, ElementOfSeq
    <3> QED
      BY <3>2 DEF Acks
  <2> QED
    BY <2>1, <2>2, <2>3
<1>q. ASSUME UNCHANGED <<acks, crashes, sequence, previous>>, daemon' = "down" => daemon = "down"
      PROVE  ChainInv'
  BY <1>q
<1>1. ASSUME NEW s \in Scopes, BeginScope(s) \/ FinishScope(s) \/ DropScope(s)
      PROVE  ChainInv'
  BY <1>1, <1>q DEF BeginScope, FinishScope, DropScope, Lock
<1>2. CASE CallFails \/ SyncAll \/ Shift \/ Retire \/ Reopen \/ WriteLine
  BY <1>2, <1>q DEF CallFails, SyncAll, Shift, Retire, Reopen, WriteLine, Created
<1>3. CASE WriteLineFails \/ SyncDataFails
  BY <1>3, <1>q DEF WriteLineFails, SyncDataFails
<1>4. CASE SyncData
  <2>1. /\ acks' = Append(acks, [record |-> Record, process |-> crashes])
        /\ sequence' = Record.number /\ previous' = Record.id
        /\ daemon' = "up" /\ UNCHANGED crashes
    BY <1>4 DEF SyncData, Record
  <2>2. /\ Len(acks') = Len(acks) + 1 /\ DOMAIN acks' = 1 .. Len(acks) + 1
        /\ \A i \in 1 .. Len(acks) : acks'[i] = acks[i]
        /\ acks'[Len(acks) + 1] = [record |-> Record, process |-> crashes]
    BY <1>t, <2>1
  <2> QED
    BY <1>t, <2>1, <2>2
<1>5. CASE Crash
  <2>1. acks' = acks /\ crashes' = crashes + 1
    BY <1>5 DEF Crash
  <2>2. \A i \in DOMAIN acks : acks[i].process < crashes'
    BY <1>t, <2>1
  <2>3. acks # <<>> => Len(acks) \in DOMAIN acks
    BY <1>t
  <2> QED
    BY <1>t, <2>1, <2>2, <2>3
<1>6. CASE OpenAudit
  <2>1. daemon = "down" /\ UNCHANGED <<acks, crashes>> /\ daemon' # "down"
    BY <1>6 DEF OpenAudit
  <2> QED
    BY <1>t, <2>1
<1>7. CASE UNCHANGED auditVars
  BY <1>7, <1>q DEF auditVars
<1> QED
  BY <1>1, <1>2, <1>3, <1>4, <1>5, <1>6, <1>7 DEF AuditNext

LEMMA ChainGrows == AuditTypeOK /\ ChainInv /\ AcknowledgedRecordsFormAChain /\ [AuditNext]_auditVars
                      => AcknowledgedRecordsFormAChain'
<1> SUFFICES ASSUME AuditTypeOK, ChainInv, AcknowledgedRecordsFormAChain, [AuditNext]_auditVars
             PROVE  AcknowledgedRecordsFormAChain'
  OBVIOUS
<1>1. CASE SyncData
  <2>1. /\ acks \in Seq([record : Lines, process : Nat]) /\ Len(acks) \in Nat
        /\ acks' = Append(acks, [record |-> Record, process |-> crashes])
    BY <1>1 DEF AuditTypeOK, SyncData
  <2>2. /\ DOMAIN acks = 1 .. Len(acks) /\ DOMAIN acks' = 1 .. Len(acks) + 1
        /\ \A i \in 1 .. Len(acks) : acks'[i] = acks[i]
        /\ acks'[Len(acks) + 1].record = Record /\ acks'[Len(acks) + 1].process = crashes
    BY <2>1
  <2>3. ASSUME NEW i \in DOMAIN acks', i > 1, acks'[i].process = acks'[i - 1].process
        PROVE  /\ acks'[i].record.number = acks'[i - 1].record.number + 1
               /\ acks'[i].record.follows = acks'[i - 1].record.id
    <3>1. CASE i = Len(acks) + 1
      <4>0. Len(acks) \in Nat /\ i \in 2 .. Len(acks) + 1
        BY <2>1, <2>2, <2>3
      <4>1. i - 1 = Len(acks) /\ i - 1 \in 1 .. Len(acks)
        BY <3>1, <4>0
      <4>3. acks # <<>>
        BY <2>1, <4>1
      <4>2. acks'[i - 1] = acks[Len(acks)] /\ acks[Len(acks)].process = crashes
        BY <2>2, <2>3, <3>1, <4>1
      <4> QED
        BY <2>2, <3>1, <4>1, <4>2, <4>3 DEF ChainInv, Record
    <3>2. CASE i # Len(acks) + 1
      <4>1. i \in 1 .. Len(acks) /\ i - 1 \in 1 .. Len(acks)
        BY <2>1, <2>2, <2>3, <3>2
      <4> QED
        BY <2>2, <2>3, <4>1 DEF AcknowledgedRecordsFormAChain
    <3> QED
      BY <3>1, <3>2
  <2> QED
    BY <2>3 DEF AcknowledgedRecordsFormAChain
<1>2. CASE UNCHANGED acks
  BY <1>2 DEF AcknowledgedRecordsFormAChain
<1> QED
  BY <1>1, <1>2
     DEF AuditNext, BeginScope, FinishScope, DropScope, Lock, CallFails, SyncAll, Shift, Retire,
         Reopen, WriteLine, WriteLineFails, SyncDataFails, Crash, OpenAudit, auditVars

-----------------------------------------------------------------------------
(* What is in the files while no write fails. *)

LEMMA AcceptedGrows ==
  ASSUME NEW f \in Seq(Lines), NEW line \in Lines, Accepts(f), line # Garbled,
         f # <<>> => line.number = f[Len(f)].number + 1 /\ line.follows = f[Len(f)].id
  PROVE  /\ Written(f, line) = Append(f, line)
         /\ Accepts(Append(f, line))
<1>1. Len(f) \in Nat /\ DOMAIN f = 1 .. Len(f)
  OBVIOUS
<1>2. f # <<>> => Last(f) # Garbled
  <2>1. f # <<>> => Len(f) \in DOMAIN f
    BY <1>1
  <2> QED
    BY <2>1 DEF Accepts, IsRecord, Last
<1> DEFINE g == Append(f, line)
<1>3. /\ DOMAIN g = 1 .. Len(f) + 1 /\ g[Len(f) + 1] = line
      /\ \A i \in 1 .. Len(f) : g[i] = f[i]
  BY <1>1
<1> HIDE DEF g
<1>4. ASSUME NEW i \in DOMAIN g
      PROVE  /\ IsRecord(g[i])
             /\ i > 1 => g[i].number = g[i - 1].number + 1 /\ g[i].follows = g[i - 1].id
  <2>1. i \in 1 .. Len(f) + 1
    BY <1>3
  <2>2. CASE i = Len(f) + 1
    <3>1. i > 1 => i - 1 = Len(f) /\ i - 1 \in 1 .. Len(f)
      BY <1>1, <2>1, <2>2
    <3>2. i > 1 => f # <<>>
      BY <1>1, <3>1
    <3> QED
      BY <1>3, <2>2, <3>1, <3>2 DEF IsRecord
  <2>3. CASE i # Len(f) + 1
    <3>1. i \in 1 .. Len(f) /\ (i > 1 => i - 1 \in 1 .. Len(f))
      BY <1>1, <2>1, <2>3
    <3> QED
      BY <1>1, <1>3, <3>1 DEF Accepts
  <2> QED
    BY <2>2, <2>3
<1>5. Accepts(g)
  BY <1>4 DEF Accepts
<1> QED
  BY <1>2, <1>5 DEF Written, g

\* The file that is written to stays intact.
LEMMA IntactWrite ==
  ASSUME AuditTypeOK, LiveInv, Intact, WriteLine
  PROVE  Intact'
<1> USE AuditAssumption
<1>t. /\ content \in Seq(Seq(Lines)) /\ handle \in 1 .. Len(content) /\ Len(content) \in Nat
      /\ DOMAIN content = 1 .. Len(content)
      /\ bytes \in Nat /\ sequence \in Nat /\ previous \in Nat /\ appends \in Nat
  BY DEF AuditTypeOK, FilesOK
<1>1. /\ daemon = "up" /\ append.at = "write" /\ append'.at = "sync_data"
      /\ content' = [content EXCEPT ![handle] = Written(@, Record)]
      /\ UNCHANGED <<daemon, handle, bytes, sequence, previous, appends>>
  BY DEF WriteLine, Proceed, AuditTypeOK, AppendOK, counters
<1> DEFINE f == content[handle]
<1>2. f \in Seq(Lines) /\ Record \in Lines /\ Record # Garbled
  BY <1>t DEF Record, Lines, Garbled
<1>3. Accepts(f) /\ Len(f) = bytes /\ bytes < MaxBytes
  BY <1>t, <1>1 DEF Intact
<1>4. f # <<>> => Record.number = f[Len(f)].number + 1 /\ Record.follows = f[Len(f)].id
  <2>1. f # <<>> => bytes > 0
    BY <1>2, <1>3
  <2>2. bytes > 0 => f[bytes].number = sequence /\ f[bytes].id = previous
    BY <1>1 DEF Intact
  <2> QED
    BY <1>3, <2>1, <2>2 DEF Record
<1> HIDE DEF f
<1>5. Written(f, Record) = Append(f, Record) /\ Accepts(Append(f, Record))
  BY <1>2, <1>3, <1>4, AcceptedGrows
<1>6. /\ content'[handle] = Append(f, Record)
      /\ DOMAIN content' = DOMAIN content
      /\ \A g \in DOMAIN content : g # handle => content'[g] = content[g]
  BY <1>t, <1>1, <1>5 DEF f
<1>7. Len(Append(f, Record)) = bytes + 1 /\ Append(f, Record)[bytes + 1] = Record
  BY <1>2, <1>3
<1>8. \A g \in DOMAIN content' : Accepts(content'[g]) /\ Len(content'[g]) <= MaxBytes
  <2>1. \A g \in DOMAIN content : Accepts(content[g]) /\ Len(content[g]) <= MaxBytes
    BY DEF Intact
  <2>2. bytes + 1 <= MaxBytes
    BY <1>t, <1>3
  <2>3. ASSUME NEW g \in DOMAIN content
        PROVE  Accepts(content'[g]) /\ Len(content'[g]) <= MaxBytes
    BY <1>5, <1>6, <1>7, <2>1, <2>2
  <2> QED
    BY <1>6, <2>3
<1>9. Record' = Record
  BY <1>1 DEF Record
<1> QED
  BY <1>1, <1>6, <1>7, <1>8, <1>9, <1>t, <1>3 DEF Intact

LEMMA IntactStep ==
  AuditTypeOK /\ LiveInv /\ (~torn => Intact) /\ [AuditNext]_auditVars => (~torn' => Intact')
<1> SUFFICES ASSUME AuditTypeOK, LiveInv, ~torn => Intact, [AuditNext]_auditVars, ~torn'
             PROVE  Intact'
  OBVIOUS
<1> USE AuditAssumption DEF counters
<1>0. torn \in BOOLEAN
  BY DEF AuditTypeOK
<1>t. /\ content \in Seq(Seq(Lines)) /\ handle \in 1 .. Len(content) /\ Len(content) \in Nat
      /\ DOMAIN content = 1 .. Len(content)
      /\ bytes \in Nat /\ sequence \in Nat /\ previous \in Nat /\ appends \in Nat
      /\ DOMAIN append = {"at", "scope", "phase"}
  BY DEF AuditTypeOK, FilesOK, AppendOK
<1>q. ASSUME ~torn, UNCHANGED <<content, daemon, handle, bytes, sequence, previous>>,
             append.at # "sync_data", append'.at # "sync_data",
             append'.at = "write" => append.at = "write" \/ bytes < MaxBytes
      PROVE  Intact'
  BY <1>q DEF Intact
<1>1. ASSUME NEW s \in Scopes, BeginScope(s) \/ FinishScope(s) \/ DropScope(s)
      PROVE  Intact'
  <2>1. PICK phase \in {"start", "finish", "abandoned"} : Lock(s, phase)
    BY <1>1 DEF BeginScope, FinishScope, DropScope
  <2>2. append'.at = "sync" \/ (append'.at = "write" /\ ~Full)
    BY <2>1 DEF Lock
  <2> QED
    BY <1>t, <2>1, <2>2, <1>q DEF Lock, Full
<1>2. CASE CallFails
  BY <1>2, <1>q DEF CallFails, Unlock, Free
<1>3. CASE SyncAll
  BY <1>3, <1>t, <1>q DEF SyncAll, Proceed
<1>4. CASE Shift
  BY <1>4, <1>t, <1>q DEF Shift, Proceed
<1>5. CASE Retire
  <2>1. /\ append.at = "rename"
        /\ UNCHANGED <<content, daemon, handle, bytes, sequence, previous, torn>>
    BY <1>5 DEF Retire
  <2>2. append'.at \in {"reopen", "free"}
    <3>1. CASE Proceed("reopen")
      BY <1>t, <3>1 DEF Proceed
    <3>2. CASE Unlock(FALSE)
      BY <3>2 DEF Unlock, Free
    <3> QED
      BY <1>5, <3>1, <3>2 DEF Retire
  <2>3. append.at # "sync_data" /\ append'.at # "sync_data" /\ append'.at # "write"
    BY <2>1, <2>2
  <2>4. ~torn /\ UNCHANGED <<content, daemon, handle, bytes, sequence, previous>>
    BY <2>1, <1>0
  <2>5. append'.at = "write" => append.at = "write" \/ bytes < MaxBytes
    BY <2>3
  <2> QED
    BY ONLY <1>q, <2>3, <2>4, <2>5
<1>6. CASE Reopen
  <2>1. /\ content' = Append(content, <<>>) /\ handle' = Len(content) + 1 /\ bytes' = 0
        /\ append'.at = "write" /\ daemon' = "up" /\ ~torn
    BY <1>6, <1>t DEF Reopen, Created, Proceed
  <2>2. /\ DOMAIN content' = 1 .. Len(content) + 1 /\ content'[Len(content) + 1] = <<>>
        /\ \A f \in 1 .. Len(content) : content'[f] = content[f]
    BY <1>t, <2>1
  <2>3. Accepts(<<>>) /\ Len(<<>>) = 0
    BY DEF Accepts
  <2>4. \A f \in DOMAIN content' : Accepts(content'[f]) /\ Len(content'[f]) <= MaxBytes
    BY <1>t, <2>1, <2>2, <2>3 DEF Intact
  <2>5. content'[handle'] = <<>>
    BY <1>t, <2>1, <2>2
  <2> QED
    BY <2>1, <2>3, <2>4, <2>5 DEF Intact
<1>7. CASE WriteLine
  BY <1>7, IntactWrite DEF WriteLine
<1>8. CASE WriteLineFails \/ SyncDataFails
  BY <1>8 DEF WriteLineFails, SyncDataFails
<1>9. CASE SyncData
  <2>1. /\ ~torn /\ append.at = "sync_data" /\ append'.at = "free" /\ daemon = "up"
        /\ bytes' = bytes + 1 /\ sequence' = sequence + 1 /\ previous' = appends
        /\ UNCHANGED <<content, handle, daemon>>
    BY <1>9 DEF SyncData, Unlock, Free
  <2>2. Len(content[handle]) <= MaxBytes
    BY <1>t, <2>1 DEF Intact
  <2> QED
    BY <1>t, <2>1, <2>2 DEF Intact, Record
<1>10. CASE Crash
  <2>1. ~torn /\ UNCHANGED content /\ append'.at = "free" /\ daemon' = "down"
    BY <1>10, <1>0 DEF Crash, Free
  <2> QED
    BY <2>1 DEF Intact
<1>11. CASE OpenAudit
  <2>1. ~torn /\ append.at = "free" /\ append'.at = "free" /\ daemon = "down"
    BY <1>11, <1>0 DEF OpenAudit, LiveInv
  <2>2. CASE name[0] = NoFile
    <3>1. /\ content' = Append(content, <<>>) /\ handle' = Len(content) + 1 /\ bytes' = 0
          /\ daemon' = "up"
      BY <1>11, <2>2 DEF OpenAudit, Created
    <3>2. /\ DOMAIN content' = 1 .. Len(content) + 1 /\ content'[Len(content) + 1] = <<>>
          /\ \A f \in 1 .. Len(content) : content'[f] = content[f]
      BY <1>t, <3>1
    <3>3. Accepts(<<>>) /\ Len(<<>>) = 0
      BY DEF Accepts
    <3> QED
      BY <1>t, <2>1, <3>1, <3>2, <3>3 DEF Intact
  <2>3. CASE name[0] # NoFile
    <3>1. name[0] = handle /\ Live = content[handle] /\ Live \in Seq(Lines)
      BY <1>t, <2>3 DEF LiveInv, Live
    <3>2. Accepts(Live) /\ Len(Live) <= MaxBytes /\ Len(Live) \in Nat
      <4>1. handle \in DOMAIN content /\ ~torn
        BY <1>t, <2>1
      <4>2. Accepts(content[handle]) /\ Len(content[handle]) <= MaxBytes
        BY <4>1 DEF Intact
      <4> QED
        BY <3>1, <4>2
    <3>3. /\ daemon' = "up" /\ handle' = handle /\ bytes' = Len(Live) /\ content' = content
          /\ sequence' = IF Live = <<>> THEN 0 ELSE Last(Live).number
          /\ previous' = IF Live = <<>> THEN 0 ELSE Last(Live).id
      BY <1>11, <2>3, <3>1, <3>2 DEF OpenAudit
    <3>4. bytes' > 0 => Live # <<>>
      BY <3>1, <3>3
    <3> QED
      BY <1>t, <2>1, <3>1, <3>2, <3>3, <3>4 DEF Intact, Last
  <2> QED
    BY <2>2, <2>3
<1>12. CASE UNCHANGED auditVars
  BY <1>12 DEF auditVars, Intact, Record
<1> QED
  BY <1>1, <1>2, <1>3, <1>4, <1>5, <1>6, <1>7, <1>8, <1>9, <1>10, <1>11, <1>12 DEF AuditNext

-----------------------------------------------------------------------------
(* What is lost: only the oldest of a full set of files.                   *)

FileOf(k) == IF k >= 1 THEN k ELSE NoFile

\* The first name whose file has moved on, if a rotation is at it.
Moved == IF append.at \in {"shift", "rename"} THEN index + 1
         ELSE IF append.at = "reopen" THEN 0 ELSE Retention + 1

\* Files have their names in the order of their age; the name that a rotation has
\* reached is free, or still has the oldest file.
NameInv(n) ==
  /\ n < Moved => name[n] = FileOf(handle - n)
  /\ n > Moved => name[n] = FileOf(handle - n + 1)
  /\ n = Moved => name[n] = NoFile \/ (n = Retention /\ name[n] = FileOf(handle - n))

\* Files are retired full, so the age of a record says in which file it is.
InFile(i, f) == f \in 1 .. handle /\ acks[i].record \in Range(content[f]) /\ i <= f * MaxBytes

Uninterrupted == faults = 0 /\ crashes = 0

AgeInv ==
  /\ ~torn /\ daemon = "up" /\ handle = Len(content)
  /\ append.at = "rename" => index = 0
  /\ \A n \in 0 .. Retention : NameInv(n)
  /\ Len(acks) = (handle - 1) * MaxBytes + bytes
  /\ \A i \in DOMAIN acks : \E f \in 1 .. handle : InFile(i, f)

\* The arithmetic of full files.
LEMMA Rows ==
  ASSUME NEW a \in Int, NEW b \in Nat
  PROVE  /\ a * b \in Int /\ (a \in Nat => a * b \in Nat)
         /\ (a - 1) * b = a * b - b /\ (a - 1) * b + b = a * b
OBVIOUS

LEMMA RowsBetween ==
  ASSUME NEW a \in Int, NEW c \in Int, NEW b \in Nat
  PROVE  /\ (a - c) * b = a * b - c * b
         /\ a <= c => a * b <= c * b
OBVIOUS

LEMMA InRange ==
  ASSUME NEW S, NEW f \in Seq(S), NEW i \in 1 .. Len(f)
  PROVE  f[i] \in Range(f)
BY DEF Range

LEMMA InRangeOf ==
  ASSUME NEW S, NEW f \in Seq(S), NEW x \in Range(f)
  PROVE  \E i \in 1 .. Len(f) : f[i] = x
BY DEF Range

\* A line more in a file leaves the others there.
LEMMA WrittenKeeps ==
  ASSUME NEW f \in Seq(Lines), NEW line \in Lines
  PROVE  Range(f) \subseteq Range(Written(f, line))
<1>1. CASE Written(f, line) = f
  BY <1>1
<1>2. CASE Written(f, line) = Append(f, line)
  <2> SUFFICES ASSUME NEW x \in Range(f)
               PROVE  x \in Range(Append(f, line))
    BY <1>2
  <2>1. PICK i \in 1 .. Len(f) : f[i] = x
    BY InRangeOf
  <2>2. i \in 1 .. Len(Append(f, line)) /\ Append(f, line)[i] = x
        /\ Append(f, line) \in Seq(Lines)
    BY <2>1
  <2> QED
    BY <2>2, InRange
<1> QED
  BY <1>1, <1>2 DEF Written

\* Nothing of it moves when neither the names nor the files change.
LEMMA AgeStays ==
  ASSUME AuditTypeOK, AgeInv,
         UNCHANGED <<name, content, handle, bytes, acks, torn, daemon>>,
         append'.at \notin {"shift", "rename", "reopen"},
         append.at \notin {"shift", "rename", "reopen"}
  PROVE  AgeInv'
<1>1. Moved' = Moved
  BY DEF Moved
<1>2. \A n \in 0 .. Retention : NameInv(n)'
  BY <1>1 DEF AgeInv, NameInv, FileOf
<1>3. \A i \in DOMAIN acks : \A f \in 1 .. handle : InFile(i, f) => InFile(i, f)'
  BY DEF InFile
<1> QED
  BY <1>2, <1>3 DEF AgeInv

\* A rotation moves names, and no record.
LEMMA RecordsStay ==
  ASSUME AuditTypeOK, AgeInv, UNCHANGED <<content, handle, bytes, acks, torn, daemon>>,
         append'.at = "rename" => index' = 0,
         \A n \in 0 .. Retention : NameInv(n)'
  PROVE  AgeInv'
<1>1. \A i \in DOMAIN acks : \A f \in 1 .. handle : InFile(i, f) => InFile(i, f)'
  BY DEF InFile
<1> QED
  BY <1>1 DEF AgeInv

LEMMA AgeShift ==
  ASSUME AuditTypeOK, LiveInv, AgeInv, Shift
  PROVE  AgeInv'
<1> USE AuditAssumption
<1>t. /\ name \in [0 .. Retention -> 1 .. Len(content) \cup {NoFile}]
      /\ handle \in 1 .. Len(content) /\ Len(content) \in Nat
      /\ index \in 0 .. Retention /\ DOMAIN append = {"at", "scope", "phase"}
  BY DEF AuditTypeOK, FilesOK, AppendOK
<1>1. append.at = "shift" /\ UNCHANGED <<content, handle, bytes, acks, torn, daemon>>
  BY DEF Shift, counters
<1>2. Moved = index + 1
  BY <1>1 DEF Moved
<1>3. CASE index > 0
  <2>1. append' = append /\ index' = index - 1 /\ Moved' = index
    BY <1>1, <1>3, <1>t DEF Shift, Moved
  <2>2. name' = IF name[index] = NoFile THEN name
                ELSE [name EXCEPT ![index + 1] = name[index], ![index] = NoFile]
    BY <1>3 DEF Shift
  <2>3. name[index] = FileOf(handle - index)
    BY <1>2, <1>t DEF AgeInv, NameInv
  <2>4. index + 1 \in 0 .. Retention =>
          /\ name[index + 1] = NoFile \/ name[index + 1] = FileOf(handle - (index + 1))
    BY <1>2, <1>t DEF AgeInv, NameInv
  <2>5. ASSUME NEW n \in 0 .. Retention
        PROVE  NameInv(n)'
    <3>1. NameInv(n)
      BY DEF AgeInv
    <3>2. CASE n < index
      <4>1. name'[n] = name[n]
        BY <2>2, <3>2, <1>t
      <4> QED
        BY <3>1, <3>2, <4>1, <1>1, <1>2, <2>1, <1>t DEF NameInv, FileOf
    <3>3. CASE n = index
      <4>1. name'[n] = NoFile
        BY <2>2, <3>3, <1>t
      <4> QED
        BY <3>3, <4>1, <2>1, <1>t DEF NameInv
    <3>4. CASE n = index + 1
      <4>1. name'[n] = FileOf(handle - index)
        <5>1. CASE name[index] = NoFile
          BY <5>1, <2>2, <2>3, <2>4, <3>4, <1>t DEF FileOf
        <5>2. CASE name[index] # NoFile
          BY <5>2, <2>2, <2>3, <3>4, <1>t
        <5> QED
          BY <5>1, <5>2
      <4>2. handle - n + 1 = handle - index
        BY <3>4, <1>t
      <4> QED
        BY <3>4, <4>1, <4>2, <1>1, <2>1, <1>t DEF NameInv
    <3>5. CASE n > index + 1
      <4>1. name'[n] = name[n]
        BY <2>2, <3>5, <1>t
      <4> QED
        BY <3>1, <3>5, <4>1, <1>1, <1>2, <2>1, <1>t DEF NameInv, FileOf
    <3> QED
      BY <3>2, <3>3, <3>4, <3>5, <1>t
  <2> QED
    BY <1>1, <2>1, <2>5, RecordsStay
<1>4. CASE ~ (index > 0)
  <2>1. index = 0 /\ index' = 0 /\ append'.at = "rename" /\ name' = name
    BY <1>4, <1>t DEF Shift, Proceed
  <2>2. Moved' = Moved
    BY <1>1, <2>1 DEF Moved
  <2>3. \A n \in 0 .. Retention : NameInv(n)'
    BY <1>1, <2>1, <2>2 DEF AgeInv, NameInv, FileOf
  <2> QED
    BY <1>1, <2>1, <2>3, RecordsStay
<1> QED
  BY <1>3, <1>4

LEMMA AgeSyncAll ==
  ASSUME AuditTypeOK, LiveInv, AgeInv, SyncAll
  PROVE  AgeInv'
<1> USE AuditAssumption
<1>1. /\ append.at = "sync" /\ append'.at = "shift" /\ index' = Retention - 1
      /\ UNCHANGED <<name, content, handle, bytes, acks, torn, daemon>>
  BY DEF SyncAll, Proceed, counters, AuditTypeOK, AppendOK
<1>2. Moved = Retention + 1 /\ Moved' = Retention
  BY <1>1 DEF Moved
<1>3. \A n \in 0 .. Retention : NameInv(n)'
  BY <1>1, <1>2 DEF AgeInv, NameInv, FileOf
<1> QED
  BY <1>1, <1>3, RecordsStay

LEMMA AgeRetire ==
  ASSUME AuditTypeOK, LiveInv, AgeInv, Retire
  PROVE  AgeInv'
<1> USE AuditAssumption
<1>t. /\ name \in [0 .. Retention -> 1 .. Len(content) \cup {NoFile}]
      /\ handle \in 1 .. Len(content) /\ Len(content) \in Nat
      /\ DOMAIN append = {"at", "scope", "phase"}
      /\ 0 \in 0 .. Retention /\ 1 \in 0 .. Retention
  BY DEF AuditTypeOK, FilesOK, AppendOK
<1>1. append.at = "rename" /\ UNCHANGED <<content, handle, bytes, acks, torn, daemon>>
  BY DEF Retire, counters
<1>2. index = 0 /\ Moved = 1
  BY <1>1 DEF AgeInv, Moved
<1>3. name[0] = handle
  BY <1>2, <1>t DEF AgeInv, NameInv, FileOf
<1>n. name[0] # NoFile
  BY <1>3, <1>t
<1>4. /\ append'.at = "reopen"
      /\ name' = [name EXCEPT ![1] = name[0], ![0] = NoFile]
  BY <1>n, <1>t DEF Retire, Proceed
<1>5. Moved' = 0
  BY <1>4 DEF Moved
<1>6. ASSUME NEW n \in 0 .. Retention
      PROVE  NameInv(n)'
  <2>1. NameInv(n)
    BY DEF AgeInv
  <2>2. CASE n = 0
    BY <2>2, <1>4, <1>5, <1>t DEF NameInv
  <2>3. CASE n = 1
    BY <2>3, <1>1, <1>3, <1>4, <1>5, <1>t DEF NameInv, FileOf
  <2>4. CASE n > 1
    <3>1. name'[n] = name[n]
      BY <2>4, <1>4, <1>t
    <3> QED
      BY <2>1, <2>4, <3>1, <1>1, <1>2, <1>5, <1>t DEF NameInv, FileOf
  <2> QED
    BY <2>2, <2>3, <2>4
<1> QED
  BY <1>1, <1>4, <1>6, RecordsStay

LEMMA AgeReopen ==
  ASSUME AuditTypeOK, LiveInv, Intact, AgeInv, Reopen
  PROVE  AgeInv'
<1> USE AuditAssumption
<1>t. /\ name \in [0 .. Retention -> 1 .. Len(content) \cup {NoFile}]
      /\ content \in Seq(Seq(Lines)) /\ Len(content) \in Nat
      /\ handle = Len(content) /\ handle \in 1 .. Len(content)
      /\ bytes \in Nat /\ DOMAIN append = {"at", "scope", "phase"}
  BY DEF AuditTypeOK, FilesOK, AppendOK, AgeInv
<1>1. /\ append.at = "reopen" /\ append'.at = "write" /\ daemon' = "up"
      /\ content' = Append(content, <<>>) /\ handle' = handle + 1 /\ bytes' = 0
      /\ name' = [name EXCEPT ![0] = handle + 1]
      /\ UNCHANGED <<acks, torn, daemon>>
  BY <1>t DEF Reopen, Created, Proceed
<1>2. Moved = 0 /\ Moved' = Retention + 1
  BY <1>1 DEF Moved
<1>3. ASSUME NEW n \in 0 .. Retention
      PROVE  NameInv(n)'
  <2>1. NameInv(n)
    BY DEF AgeInv
  <2>2. CASE n = 0
    BY <2>2, <1>1, <1>2, <1>t DEF NameInv, FileOf
  <2>3. CASE n > 0
    <3>1. name'[n] = name[n] /\ handle' - n = handle - n + 1
      BY <2>3, <1>1, <1>t
    <3> QED
      BY <2>1, <2>3, <3>1, <1>2, <1>t DEF NameInv, FileOf
  <2> QED
    BY <2>2, <2>3
<1>4. bytes = MaxBytes
  BY <1>1, <1>t DEF LiveInv, Rotating, Full, Intact
<1>5. Len(acks) = (handle' - 1) * MaxBytes + bytes'
  <2>1. (handle - 1) * MaxBytes + MaxBytes = handle * MaxBytes
    BY <1>t, Rows
  <2>2. handle' - 1 = handle
    BY <1>1, <1>t
  <2>3. Len(acks) = handle * MaxBytes
    BY <2>1, <1>4 DEF AgeInv
  <2>4. handle * MaxBytes \in Nat
    BY <1>t
  <2> QED
    BY <2>2, <2>3, <2>4, <1>1
<1>6. ASSUME NEW i \in DOMAIN acks
      PROVE  \E f \in 1 .. handle' : InFile(i, f)'
  <2>1. PICK f \in 1 .. handle : InFile(i, f)
    BY DEF AgeInv
  <2>2. f \in 1 .. handle' /\ content'[f] = content[f]
    BY <1>1, <1>t
  <2> QED
    BY <1>1, <2>1, <2>2 DEF InFile
<1>7. handle' = Len(content')
  BY <1>1, <1>t
<1> QED
  BY <1>1, <1>3, <1>5, <1>6, <1>7 DEF AgeInv

LEMMA AgeWriteLine ==
  ASSUME AuditTypeOK, LiveInv, AgeInv, WriteLine
  PROVE  AgeInv'
<1>t. /\ content \in Seq(Seq(Lines)) /\ handle \in 1 .. Len(content)
      /\ Len(content) \in Nat /\ DOMAIN append = {"at", "scope", "phase"}
  BY DEF AuditTypeOK, FilesOK, AppendOK
<1>1. /\ append.at = "write" /\ append'.at = "sync_data"
      /\ content' = [content EXCEPT ![handle] = Written(@, Record)]
      /\ UNCHANGED <<name, handle, bytes, acks, torn, daemon>>
  BY <1>t DEF WriteLine, Proceed, counters
<1>2. Record \in Lines /\ content[handle] \in Seq(Lines)
  BY <1>t DEF AuditTypeOK, Record, Lines
<1>3. Len(content') = Len(content)
  BY <1>1, <1>t
<1>4. ASSUME NEW f \in 1 .. handle
      PROVE  Range(content[f]) \subseteq Range(content'[f])
  <2>1. CASE f = handle
    BY <2>1, <1>1, <1>2, <1>t, WrittenKeeps
  <2>2. CASE f # handle
    BY <2>2, <1>1, <1>t
  <2> QED
    BY <2>1, <2>2
<1>5. \A n \in 0 .. Retention : NameInv(n)'
  <2>1. Moved' = Moved
    BY <1>1 DEF Moved
  <2> QED
    BY <1>1, <2>1 DEF AgeInv, NameInv, FileOf
<1>6. \A i \in DOMAIN acks : \A f \in 1 .. handle : InFile(i, f) => InFile(i, f)'
  BY <1>1, <1>4 DEF InFile
<1> QED
  BY <1>1, <1>3, <1>5, <1>6 DEF AgeInv

LEMMA AgeSyncData ==
  ASSUME AuditTypeOK, LiveInv, Intact, AgeInv, SyncData
  PROVE  AgeInv'
<1> USE AuditAssumption
<1>t. /\ content \in Seq(Seq(Lines)) /\ Len(content) \in Nat
      /\ handle = Len(content) /\ handle \in 1 .. Len(content)
      /\ bytes \in Nat /\ acks \in Seq([record : Lines, process : Nat]) /\ Len(acks) \in Nat
  BY DEF AuditTypeOK, FilesOK, AgeInv
<1>1. /\ append.at = "sync_data" /\ append'.at = "free" /\ bytes' = bytes + 1
      /\ acks' = Append(acks, [record |-> Record, process |-> crashes])
      /\ UNCHANGED <<name, content, handle, torn, daemon>>
  BY DEF SyncData, Unlock, Free
<1>2. /\ Len(acks') = Len(acks) + 1 /\ DOMAIN acks' = 1 .. Len(acks) + 1
      /\ DOMAIN acks = 1 .. Len(acks)
      /\ acks'[Len(acks) + 1].record = Record
      /\ \A i \in 1 .. Len(acks) : acks'[i] = acks[i]
  BY <1>1, <1>t
<1>3. Len(acks) = (handle - 1) * MaxBytes + bytes
  BY DEF AgeInv
<1>4. (handle - 1) * MaxBytes + MaxBytes = handle * MaxBytes
      /\ (handle - 1) * MaxBytes \in Nat /\ handle * MaxBytes \in Nat
  <2>1. handle \in Int /\ handle \in Nat /\ handle - 1 \in Int /\ handle - 1 \in Nat
        /\ MaxBytes \in Nat
    BY <1>t
  <2> QED
    BY ONLY <2>1, Rows
<1>5. /\ Len(content[handle]) = bytes + 1 /\ content[handle][bytes + 1] = Record
      /\ bytes + 1 <= MaxBytes /\ content[handle] \in Seq(Lines)
  BY <1>1, <1>t DEF Intact
<1>6. Record \in Range(content[handle])
  <2>1. bytes + 1 \in 1 .. Len(content[handle])
    BY <1>5, <1>t
  <2> QED
    BY <2>1, <1>5, InRange
<1>7. ASSUME NEW i \in DOMAIN acks'
      PROVE  \E f \in 1 .. handle : InFile(i, f)'
  <2>1. CASE i = Len(acks) + 1
    <3>1. i <= handle * MaxBytes
      BY <2>1, <1>3, <1>4, <1>5, <1>t
    <3>2. InFile(i, handle)'
      BY <2>1, <3>1, <1>1, <1>2, <1>6, <1>t DEF InFile
    <3> QED
      BY <3>2, <1>1, <1>t
  <2>2. CASE i # Len(acks) + 1
    <3>1. i \in DOMAIN acks /\ acks'[i] = acks[i]
      BY <2>2, <1>2, <1>t
    <3>2. PICK f \in 1 .. handle : InFile(i, f)
      BY <3>1 DEF AgeInv
    <3> QED
      BY <1>1, <3>1, <3>2 DEF InFile
  <2> QED
    BY <2>1, <2>2
<1>8. \A n \in 0 .. Retention : NameInv(n)'
  <2>1. Moved' = Moved
    BY <1>1 DEF Moved
  <2> QED
    BY <1>1, <2>1 DEF AgeInv, NameInv, FileOf
<1>9. Len(acks') = (handle' - 1) * MaxBytes + bytes'
  BY <1>1, <1>2, <1>3, <1>4, <1>t
<1> QED
  BY <1>1, <1>7, <1>8, <1>9 DEF AgeInv

LEMMA AgeStep ==
  ASSUME AuditInv, Uninterrupted => AgeInv, [AuditNext]_auditVars, Uninterrupted'
  PROVE  AgeInv'
<1> USE AuditAssumption
<1>t. faults \in Nat /\ crashes \in Nat /\ AuditTypeOK /\ LiveInv /\ (~torn => Intact)
  BY DEF AuditInv, AuditTypeOK
<1>1. faults' >= faults /\ crashes' >= crashes
  <2>1. CASE CallFails \/ WriteLineFails \/ SyncDataFails
    <3>1. faults' = faults + 1 /\ crashes' = crashes
      BY <2>1 DEF CallFails, WriteLineFails, SyncDataFails
    <3> QED
      BY <3>1, <1>t
  <2>2. CASE Crash
    BY <2>2, <1>t DEF Crash
  <2>3. CASE UNCHANGED <<faults, crashes>>
    BY <2>3, <1>t
  <2>4. ASSUME NEW s \in Scopes, BeginScope(s) \/ FinishScope(s) \/ DropScope(s)
        PROVE  UNCHANGED <<faults, crashes>>
    BY <2>4 DEF BeginScope, FinishScope, DropScope, Lock
  <2>5. SyncAll \/ Shift \/ Retire \/ Reopen \/ WriteLine \/ SyncData \/ OpenAudit
          => UNCHANGED <<faults, crashes>>
    BY DEF SyncAll, Shift, Retire, Reopen, WriteLine, SyncData, OpenAudit
  <2>6. UNCHANGED auditVars => UNCHANGED <<faults, crashes>>
    BY DEF auditVars
  <2> QED
    BY <2>1, <2>2, <2>3, <2>4, <2>5, <2>6 DEF AuditNext
<1>2. Uninterrupted
  BY <1>1, <1>t DEF Uninterrupted
<1>3. AgeInv /\ Intact
  BY <1>2, <1>t DEF AgeInv
<1>4. ASSUME NEW s \in Scopes, BeginScope(s) \/ FinishScope(s) \/ DropScope(s)
      PROVE  AgeInv'
  <2>1. PICK phase \in {"start", "finish", "abandoned"} : Lock(s, phase)
    BY <1>4 DEF BeginScope, FinishScope, DropScope
  <2>2. /\ append.at = "free" /\ append'.at \in {"sync", "write"}
        /\ UNCHANGED <<name, content, handle, bytes, acks, torn, daemon>>
    BY <2>1 DEF Lock, counters
  <2> QED
    BY <2>2, <1>3, <1>t, AgeStays
<1>5. CASE CallFails \/ WriteLineFails \/ SyncDataFails
  BY <1>5, <1>2, <1>t DEF CallFails, WriteLineFails, SyncDataFails, Uninterrupted
<1>6. CASE Crash
  BY <1>6, <1>2, <1>t DEF Crash, Uninterrupted
<1>7. CASE OpenAudit
  BY <1>7, <1>3 DEF OpenAudit, AgeInv
<1>8. CASE UNCHANGED auditVars
  <2>1. Moved' = Moved
    BY <1>8 DEF Moved, auditVars
  <2>2. \A n \in 0 .. Retention : NameInv(n)'
    BY <1>3, <1>8, <2>1 DEF AgeInv, NameInv, FileOf, auditVars, counters
  <2>3. index' = index /\ append' = append
    BY <1>8 DEF auditVars
  <2> QED
    BY <1>3, <1>8, <1>t, <2>2, <2>3, RecordsStay DEF auditVars, counters, AgeInv
<1> QED
  BY <1>3, <1>4, <1>5, <1>6, <1>7, <1>8, <1>t, AgeShift, AgeSyncAll, AgeRetire, AgeReopen,
     AgeWriteLine, AgeSyncData
     DEF AuditNext

-----------------------------------------------------------------------------
(* The theorems. *)

LEMMA AuditStart == AuditInit => AuditInv
<1> SUFFICES ASSUME AuditInit
             PROVE  AuditInv
  OBVIOUS
<1> USE AuditAssumption
<1>1. AppendOK
  BY DEF AuditInit, AppendOK, Free, Places
<1>2. content = <<<<>>>> /\ Len(content) = 1 /\ content[1] = <<>> /\ handle = 1
  BY DEF AuditInit
<1>3. FilesOK
  BY <1>2 DEF AuditInit, FilesOK
<1>4. AuditTypeOK
  <2>1. acks \in Seq([record : Lines, process : Nat])
    BY DEF AuditInit
  <2>2. scope \in [Scopes -> {"idle", "running", "refused", "finished", "unfinished", "gone"}]
    BY DEF AuditInit
  <2>3. /\ daemon = "up" /\ bytes = 0 /\ sequence = 0 /\ previous = 0
        /\ index = 0 /\ appends = 0 /\ torn = FALSE /\ faults = 0 /\ crashes = 0
    BY DEF AuditInit
  <2>4. /\ index \in 0 .. Retention /\ appends \in 0 .. MaxAppends
        /\ faults \in 0 .. MaxFaults /\ crashes \in 0 .. MaxCrashes
    BY <2>3
  <2>5. /\ daemon \in {"up", "down", "refused"} /\ torn \in BOOLEAN
        /\ bytes \in Nat /\ sequence \in Nat /\ previous \in Nat
    BY <2>3
  <2> QED
    BY <1>1, <1>3, <2>1, <2>2, <2>4, <2>5 DEF AuditTypeOK
<1>5. LiveInv
  BY DEF AuditInit, LiveInv, Full, Free, Rotating, Writing
<1>6. ChainInv
  BY DEF AuditInit, ChainInv
<1>7. Intact
  <2>1. Accepts(<<>>)
    BY DEF Accepts
  <2>2. DOMAIN content = {1} /\ bytes = 0 /\ daemon = "up" /\ append.at = "free"
    BY <1>2 DEF AuditInit, Free
  <2> QED
    BY <1>2, <2>1, <2>2 DEF Intact
<1> QED
  BY <1>4, <1>5, <1>6, <1>7 DEF AuditInv

LEMMA AuditStep == AuditInv /\ [AuditNext]_auditVars => AuditInv'
BY AuditTypeStep, LiveStep, ChainStep, IntactStep DEF AuditInv

LEMMA AuditInvariant == AuditSpec => []AuditInv
BY AuditStart, AuditStep, PTL DEF AuditSpec

\* Files, names, counters, scopes and the append under way have their types.
THEOREM AuditTypeCorrectness == AuditSpec => []AuditTypeOK
<1>1. AuditInv => AuditTypeOK
  BY DEF AuditInv
<1> QED
  BY <1>1, AuditInvariant, PTL

\* The records one process acknowledges form a chain, for any limits and failures.
THEOREM AcknowledgedChain == AuditSpec => []AcknowledgedRecordsFormAChain
<1>1. AuditInit => AcknowledgedRecordsFormAChain
  BY DEF AuditInit, AcknowledgedRecordsFormAChain
<1>2. AuditInv => AuditTypeOK /\ ChainInv
  BY DEF AuditInv
<1> QED
  BY <1>1, <1>2, ChainGrows, AuditInvariant, PTL DEF AuditSpec

\* As long as no write and no sync of a line failed, every process is let in by the log
\* its predecessor left, wherever that one ended.
THEOREM LogIsAcceptedAgain == AuditSpec => []OwnLogIsAccepted
<1>1. AuditInv => OwnLogIsAccepted
  <2> SUFFICES ASSUME AuditInv, ~torn
               PROVE  daemon # "refused" /\ (name[0] # NoFile => Accepts(Live))
    BY DEF OwnLogIsAccepted
  <2>1. Intact /\ name[0] \in {NoFile, handle} /\ handle \in DOMAIN content
    BY DEF AuditInv, LiveInv, AuditTypeOK, FilesOK
  <2> QED
    BY <2>1 DEF Intact, Live
<1> QED
  BY <1>1, AuditInvariant, PTL

\* A record is acknowledged at the end of the file under the live name.
THEOREM AcknowledgedInPlace == AuditSpec => AcksAreInTheLiveFile
<1>1. AuditInv /\ [AuditNext]_auditVars
        => [Len(acks') > Len(acks) => /\ name[0] # NoFile /\ Live # <<>>
                                      /\ Last(Live) = Last(acks').record \/ torn]_auditVars
  <2> SUFFICES ASSUME AuditInv, AuditNext, Len(acks') > Len(acks)
               PROVE  /\ name[0] # NoFile /\ Live # <<>>
                      /\ Last(Live) = Last(acks').record \/ torn
    OBVIOUS
  <2>0. Len(acks) \in Nat /\ acks \in Seq([record : Lines, process : Nat])
    BY DEF AuditInv, AuditTypeOK
  <2>1. SyncData
    <3>1. acks' # acks
      BY <2>0
    <3> QED
      BY <3>1
         DEF AuditNext, BeginScope, FinishScope, DropScope, Lock, CallFails, SyncAll, Shift,
             Retire, Reopen, WriteLine, WriteLineFails, SyncDataFails, Crash, OpenAudit
  <2>2. append.at = "sync_data" /\ acks' = Append(acks, [record |-> Record, process |-> crashes])
    BY <2>1 DEF SyncData
  <2>3. /\ name[0] = handle /\ Live = content[handle] /\ Live # <<>>
        /\ handle \in 1 .. Len(content) /\ Len(content) \in Nat
    BY <2>2 DEF AuditInv, AuditTypeOK, FilesOK, LiveInv, Writing, Live
  <2>4. name[0] # NoFile
    BY <2>3, AuditAssumption
  <2>5. ~torn => Last(Live) = Record
    BY <2>2, <2>3 DEF AuditInv, Intact, Last
  <2>6. Last(acks').record = Record
    BY <2>0, <2>2 DEF Last
  <2> QED
    BY <2>3, <2>4, <2>5, <2>6
<1> QED
  BY <1>1, AuditInvariant, PTL DEF AuditSpec, AcksAreInTheLiveFile

\* While no system call fails and the process lives, a record that is under no name any
\* more was in a file older than a full set of newer ones.
THEOREM LossIsBounded == AuditSpec => []OnlyTheOldestIsLost
<1> USE AuditAssumption
<1>1. AuditInit => (Uninterrupted => AgeInv)
  <2> SUFFICES ASSUME AuditInit
               PROVE  AgeInv
    OBVIOUS
  <2>1. /\ handle = 1 /\ Len(content) = 1 /\ acks = <<>> /\ bytes = 0 /\ daemon = "up"
        /\ torn = FALSE /\ append.at = "free"
        /\ name = [n \in 0 .. Retention |-> IF n = 0 THEN 1 ELSE NoFile]
    BY DEF AuditInit, Free
  <2>2. \A n \in 0 .. Retention : NameInv(n)
    BY <2>1 DEF NameInv, Moved, FileOf
  <2>3. Len(acks) = (handle - 1) * MaxBytes + bytes
    BY <2>1
  <2> QED
    BY <2>1, <2>2, <2>3 DEF AgeInv
<1>2. AuditInv /\ (Uninterrupted => AgeInv) /\ [AuditNext]_auditVars
        => (Uninterrupted => AgeInv)'
  BY AgeStep
<1>3. AuditInv /\ (Uninterrupted => AgeInv) => OnlyTheOldestIsLost
  <2> SUFFICES ASSUME AuditInv, AgeInv, NEW i \in DOMAIN acks, Where(acks[i].record) = {}
               PROVE  /\ name[Retention] # NoFile \/ append.at # "free"
                      /\ Len(acks) - i >= Retention * MaxBytes
    BY DEF OnlyTheOldestIsLost, Uninterrupted
  <2>t. /\ name \in [0 .. Retention -> 1 .. Len(content) \cup {NoFile}]
        /\ handle \in 1 .. Len(content) /\ Len(content) \in Nat /\ bytes \in Nat
        /\ index \in 0 .. Retention /\ Len(acks) \in Nat /\ i \in 1 .. Len(acks)
        /\ LiveInv /\ Intact
    BY DEF AuditInv, AuditTypeOK, FilesOK, AgeInv
  <2>1. PICK f \in 1 .. handle : InFile(i, f)
    BY DEF AgeInv
  <2>2. \A n \in 0 .. Retention : name[n] # f
    <3>1. ASSUME NEW n \in 0 .. Retention, name[n] = f
          PROVE  n \in Where(acks[i].record)
      BY <3>1, <2>1, <2>t DEF InFile, Where
    <3> QED
      BY <3>1
  <2>3. f <= handle - Retention
    <3> SUFFICES ASSUME f > handle - Retention
                 PROVE  FALSE
      BY <2>t
    <3>1. CASE handle - f < Moved
      <4>1. handle - f \in 0 .. Retention
        BY <2>t
      <4>2. name[handle - f] = FileOf(handle - (handle - f))
        BY <3>1, <4>1 DEF AgeInv, NameInv
      <4> QED
        BY <4>1, <4>2, <2>2, <2>t DEF FileOf
    <3>2. CASE ~ (handle - f < Moved)
      <4>1. Moved \in Int /\ handle - f + 1 > Moved /\ handle - f + 1 \in 0 .. Retention
        BY <3>2, <2>t DEF Moved
      <4>2. name[handle - f + 1] = FileOf(handle - (handle - f + 1) + 1)
        BY <4>1 DEF AgeInv, NameInv
      <4> QED
        BY <4>1, <4>2, <2>2, <2>t DEF FileOf
    <3> QED
      BY <3>1, <3>2
  <2>4. /\ handle * MaxBytes = (handle - 1) * MaxBytes + MaxBytes
        /\ handle * MaxBytes \in Nat /\ (handle - 1) * MaxBytes \in Nat
        /\ f * MaxBytes \in Nat /\ Retention * MaxBytes \in Nat
        /\ (handle - Retention) * MaxBytes = handle * MaxBytes - Retention * MaxBytes
    BY <2>t, Rows, RowsBetween
  <2>5. CASE append.at \in Rotating
    <3>1. bytes = MaxBytes
      BY <2>5, <2>t DEF LiveInv, Full, Intact, Rotating, AgeInv
    <3>2. f * MaxBytes <= (handle - Retention) * MaxBytes
      BY <2>3, <2>t, RowsBetween
    <3> QED
      BY <2>1, <2>4, <2>5, <2>t, <3>1, <3>2 DEF AgeInv, InFile, Rotating
  <2>6. CASE append.at \notin Rotating
    <3>1. name[Retention] = FileOf(handle - Retention)
      BY <2>6, <2>t DEF AgeInv, NameInv, Moved, Rotating
    <3>2. f <= handle - Retention - 1 /\ name[Retention] # NoFile
      BY <3>1, <2>2, <2>3, <2>t DEF FileOf
    <3>3. f * MaxBytes <= (handle - Retention - 1) * MaxBytes
      BY <3>2, <2>t, RowsBetween
    <3>4. (handle - Retention - 1) * MaxBytes = (handle - Retention) * MaxBytes - MaxBytes
      BY <2>t, Rows
    <3>5. /\ i <= f * MaxBytes
          /\ Len(acks) = (handle - 1) * MaxBytes + bytes
      BY <2>1, <2>6, <2>t DEF AgeInv, InFile
    <3>6. i <= handle * MaxBytes - Retention * MaxBytes - MaxBytes
      BY <2>4, <2>t, <3>3, <3>4, <3>5
    <3>7. Len(acks) = handle * MaxBytes - MaxBytes + bytes
      BY <2>4, <2>t, <3>5
    <3> QED
      BY <2>4, <2>t, <3>2, <3>6, <3>7
  <2> QED
    BY <2>5, <2>6
<1> QED
  BY <1>1, <1>2, <1>3, AuditInvariant, PTL DEF AuditSpec
=============================================================================
