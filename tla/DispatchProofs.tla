--------------------------- MODULE DispatchProofs ---------------------------
(***************************************************************************)
(* Proofs about the execution of commands, for any executions, recipes,    *)
(* kinds of commands and number of attempts.                               *)
(***************************************************************************)
EXTENDS Dispatch, TLAPS

-----------------------------------------------------------------------------
(* The invariant, part by part *)

\* TypeOK: the fields, the queue of the gate, and the recipes' steps.
FieldsOK ==
  /\ pc \in [Execs -> Steps]
  /\ kind \in [Execs -> Kinds] /\ origin \in [Execs -> Recipes \cup {Client}]
  /\ cancelled \cup revoked \cup stale \subseteq UnderWay
  /\ work \in [Execs -> {"none", "running", "ended"}]
  /\ effect \subseteq Execs
  /\ journal \in [Execs -> {"none", "start", "finish"}]
  /\ answer \in [Execs -> [code : Codes, known : BOOLEAN]]

QueueOK ==
  /\ queue \in Seq(Execs)
  /\ \A i, j \in 1..Len(queue) : queue[i] = queue[j] => i = j
  /\ \A e \in Execs : pc[e] = "queued" <=> \E i \in 1..Len(queue) : queue[i] = e

StepOK ==
  step \in [Recipes -> [now : {"idle", "waiting", "backoff", "over"},
                       tries : 0..MaxAttempts, current : Execs \cup {Client}]]

\* Before its dispatch a command has no call in the provider, and the call and
\* the records of one that took effect are known.
WorkInv ==
  \A e \in Execs :
    /\ pc[e] \in {"idle", "choosing", "queued", "prompt", "validating"} => work[e] = "none"
    /\ pc[e] = "acting" => work[e] = "running"
    /\ e \in effect => work[e] # "none" /\ kind[e].mutates
    /\ pc[e] \notin {"idle", "answered"} => journal[e] = "start"
    /\ work[e] # "none" => journal[e] # "none"
    /\ pc[e] = "answered" /\ answer[e].known /\ journal[e] # "finish" => work[e] = "none"

\* Whoever is alone behind the gate entered exclusively.
GateInv ==
  /\ \A e, f \in Holders : e # f => ~Exclusive(e)
  /\ \A e \in Execs : pc[e] = "prompt" => kind[e].confirms

\* The call of e neither took effect nor will.
Quiet(e) == e \notin effect /\ (work[e] = "running" => ~kind[e].mutates)

\* All attempts of a step but the current one are over and quiet, and so is the
\* current one when the step is to be tried again.
OnceInv ==
  /\ \A e \in Execs : pc[e] = "answered" /\ Retryable(answer[e]) => Quiet(e)
  /\ \A r \in Recipes :
       /\ step[r].now = "idle" => step[r].tries = 0 /\ \A e \in Execs : origin[e] # r
       /\ step[r].now # "idle" => step[r].current \in Execs /\ pc[step[r].current] # "idle"
       /\ step[r].now = "backoff" => step[r].tries < MaxAttempts
       /\ \A e \in Execs :
            origin[e] = r /\ (e # step[r].current \/ step[r].now = "backoff")
              => Quiet(e) /\ pc[e] \in Ended

IInv == FieldsOK /\ QueueOK /\ StepOK /\ WorkInv /\ GateInv /\ OnceInv

-----------------------------------------------------------------------------
(* The initial state and the steps *)

LEMMA InitIInv == Init => IInv
<1> SUFFICES ASSUME Init
             PROVE  IInv
  OBVIOUS
<1> USE DEF Init
<1>1. FieldsOK
  BY DEF FieldsOK, Steps, UnderWay, Pending, Codes
<1>2. QueueOK
  BY DEF QueueOK
<1>3. StepOK
  BY AttemptAssumption DEF StepOK
<1>4. WorkInv /\ GateInv
  BY DEF WorkInv, GateInv, Holders, Holding
<1>5. OnceInv
  BY OriginAssumption, AttemptAssumption DEF OnceInv, Quiet
<1> QED
  BY <1>1, <1>2, <1>3, <1>4, <1>5 DEF IInv

\* What an execution's step has to keep of the types.
Typed ==
  /\ pc' \in [Execs -> Steps]
  /\ cancelled' \cup revoked' \cup stale' \subseteq UnderWay'
  /\ journal' \in [Execs -> {"none", "start", "finish"}]
  /\ answer' \in [Execs -> [code : Codes, known : BOOLEAN]]

LEMMA AnswerTyped ==
  ASSUME FieldsOK, NEW e \in Execs, NEW code \in Codes, NEW known \in BOOLEAN,
         Answer(e, code, known)
  PROVE  Typed
<1> USE DEF FieldsOK, Answer, Drop
<1>1. pc' \in [Execs -> Steps] /\ journal' \in [Execs -> {"none", "start", "finish"}]
  BY DEF Steps, Ended
<1>2. \A f \in Execs : pc'[f] = IF f = e THEN "answered" ELSE pc[f]
  OBVIOUS
<1>3. cancelled' \cup revoked' \cup stale' \subseteq UnderWay'
  BY <1>2 DEF UnderWay
<1>4. \E a \in [code : Codes, known : BOOLEAN] : answer' = [answer EXCEPT ![e] = a]
  BY DEF Codes
<1>5. answer' \in [Execs -> [code : Codes, known : BOOLEAN]]
  BY <1>4
<1> QED
  BY <1>1, <1>3, <1>5 DEF Typed

LEMMA BeginTyped ==
  ASSUME FieldsOK, NEW e \in Execs, Begin(e)
  PROVE  Typed
<1> USE DEF FieldsOK
<1>1. CASE NoStartRecord(e)
  <2>1. [code |-> "BackendFailed", known |-> TRUE] \in [code : Codes, known : BOOLEAN]
    BY DEF Codes
  <2>2. \A f \in Execs : pc'[f] = IF f = e THEN "answered" ELSE pc[f]
    BY <1>1 DEF NoStartRecord
  <2>3. UnderWay \ {e} \subseteq UnderWay' /\ e \notin UnderWay
    BY <2>2 DEF UnderWay, Begin
  <2> QED
    BY <1>1, <2>1, <2>3 DEF NoStartRecord, Typed, Steps, Ended, doomed
<1>2. CASE \E code \in {"Unavailable", "Other"} : Answer(e, code, TRUE)
  <2>1. PICK code \in {"Unavailable", "Other"} : Answer(e, code, TRUE)
    BY <1>2
  <2>2. code \in Codes
    BY DEF Codes
  <2> QED
    BY <2>1, <2>2, AnswerTyped
<1>3. CASE /\ pc' = [pc EXCEPT ![e] = "choosing"]
           /\ journal' = [journal EXCEPT ![e] = "start"]
           /\ UNCHANGED <<doomed, answer>>
  <2>1. UnderWay \subseteq UnderWay'
    BY <1>3 DEF UnderWay, Ended
  <2> QED
    BY <1>3, <2>1 DEF Typed, Steps, doomed
<1> QED
  BY <1>1, <1>2, <1>3 DEF Begin

LEMMA ReresolveTyped ==
  ASSUME FieldsOK, NEW e \in Execs, Reresolve(e)
  PROVE  Typed
<1> USE DEF FieldsOK
<1>1. CASE Answer(e, "Other", TRUE)
  BY <1>1, AnswerTyped DEF Codes
<1>2. CASE pc' = [pc EXCEPT ![e] = "validating"] /\ UNCHANGED <<doomed, journal, answer>>
  <2>1. UnderWay \subseteq UnderWay'
    BY <1>2 DEF UnderWay, Ended
  <2> QED
    BY <1>2, <2>1 DEF Typed, Steps, Holding, doomed
<1> QED
  BY <1>1, <1>2 DEF Reresolve

\* Every step preserves the types.
LEMMA FieldsStep == IInv /\ [Next]_vars => FieldsOK'
<1> SUFFICES ASSUME IInv, [Next]_vars
             PROVE  FieldsOK'
  OBVIOUS
<1> USE DEF IInv, FieldsOK, Steps, Holding, Ended, Codes, UnderWay, command, doomed
<1>1. ASSUME NEW e \in Execs, Receive(e)
      PROVE  FieldsOK'
  BY <1>1, BeginTyped DEF Receive, Begin, Typed
<1>2. ASSUME NEW e \in Execs, Choose(e)
      PROVE  FieldsOK'
  <2>1. CASE \E code \in {"Unavailable", "Other"} : Answer(e, code, TRUE)
    <3>1. PICK code \in {"Unavailable", "Other"} : Answer(e, code, TRUE)
      BY <2>1
    <3>2. Typed
      <4> HIDE DEF Steps, Holding, Ended, UnderWay
      <4> QED
        BY <3>1, AnswerTyped
    <3> QED
      BY <1>2, <3>2 DEF Choose, Typed
  <2>2. CASE /\ stale' = stale \ {e}
             /\ pc' = [pc EXCEPT ![e] = "queued"]
             /\ UNCHANGED <<cancelled, revoked, journal, answer>>
    <3>1. UnderWay \subseteq UnderWay'
      BY <2>2
    <3> QED
      BY <1>2, <2>2, <3>1 DEF Choose
  <2> QED
    BY <1>2, <2>1, <2>2 DEF Choose
<1>3. ASSUME NEW e \in Execs, Enter(e)
      PROVE  FieldsOK'
  <2>1. CASE pc' = [pc EXCEPT ![e] = "prompt"] /\ UNCHANGED <<doomed, journal, answer>>
    <3>1. UnderWay \subseteq UnderWay'
      BY <2>1
    <3> QED
      BY <1>3, <2>1, <3>1 DEF Enter
  <2>2. CASE Reresolve(e)
    BY <1>3, <2>2, ReresolveTyped DEF Enter, Typed
  <2> QED
    BY <1>3, <2>1, <2>2 DEF Enter
<1>4. ASSUME NEW e \in Execs, LeaveQueue(e)
      PROVE  FieldsOK'
  BY <1>4, AnswerTyped DEF LeaveQueue, Leave, Typed
<1>5. ASSUME NEW e \in Execs, Approve(e)
      PROVE  FieldsOK'
  BY <1>5, ReresolveTyped DEF Approve, Typed
<1>6. ASSUME NEW e \in Execs, Decline(e)
      PROVE  FieldsOK'
  <2>1. Typed
    BY <1>6, AnswerTyped DEF Decline
  <2> QED
    BY <1>6, <2>1 DEF Decline, Typed
<1>7. ASSUME NEW e \in Execs, Refuse(e)
      PROVE  FieldsOK'
  <2>1. Typed
    BY <1>7, AnswerTyped DEF Refuse
  <2> QED
    BY <1>7, <2>1 DEF Refuse, Typed
<1>8. ASSUME NEW e \in Execs, Dispatch(e)
      PROVE  FieldsOK'
  BY <1>8 DEF Dispatch
<1>9. ASSUME NEW e \in Execs, Act(e)
      PROVE  FieldsOK'
  BY <1>9 DEF Act
<1>10. ASSUME NEW e \in Execs, Return(e)
       PROVE  FieldsOK'
  <2>1. PICK code \in Codes, known \in BOOLEAN : Answer(e, code, OutcomeKnown(e, code, known))
    BY <1>10 DEF Return
  <2>2. OutcomeKnown(e, code, known) \in BOOLEAN
    BY DEF OutcomeKnown
  <2>3. Typed
    BY <2>1, <2>2, AnswerTyped
  <2> QED
    BY <1>10, <2>3 DEF Return, Typed
<1>11. ASSUME NEW e \in Execs, Interrupt(e)
       PROVE  FieldsOK'
  <2>1. PICK code \in {"Other", "Unavailable"} : Answer(e, code, FALSE)
    BY <1>11 DEF Interrupt
  <2>2. Typed
    <3> HIDE DEF Steps, Holding, Ended, UnderWay
    <3> QED
      BY <2>1, AnswerTyped
  <2>3. work' \in [Execs -> {"none", "running", "ended"}]
    BY <1>11 DEF Interrupt
  <2> QED
    BY <1>11, <2>2, <2>3 DEF Interrupt, Typed
<1>12. ASSUME NEW e \in Execs, Trail(e)
       PROVE  FieldsOK'
  BY <1>12 DEF Trail
<1>13. ASSUME NEW e \in Execs, Doom(e)
       PROVE  FieldsOK'
  BY <1>13 DEF Doom, Cancel, Revoke, Invalidate
<1>14. ASSUME NEW r \in Recipes, NEW e \in Execs, Attempt(r, e)
       PROVE  FieldsOK'
  BY <1>14, BeginTyped DEF Attempt, Begin, Typed
<1>15. ASSUME NEW r \in Recipes, StepAnswered(r)
       PROVE  FieldsOK'
  BY <1>15 DEF StepAnswered, Retryable
<1>16. ASSUME NEW r \in Recipes, StepDropped(r)
       PROVE  FieldsOK'
  BY <1>16 DEF StepDropped, Leave, Drop
<1>17. ASSUME NEW r \in Recipes, GiveUp(r)
       PROVE  FieldsOK'
  BY <1>17 DEF GiveUp
<1>18. CASE UNCHANGED vars
  BY <1>18 DEF vars
<1> HIDE DEF IInv, FieldsOK
<1> QED
  BY <1>1, <1>2, <1>3, <1>4, <1>5, <1>6, <1>7, <1>8, <1>9, <1>10, <1>11, <1>12, <1>13, <1>14, <1>15, <1>16, <1>17, <1>18 DEF Next, Execution, Recipe

\* The four ways of the queue.
LEMMA QueueKept ==
  ASSUME QueueOK, UNCHANGED queue,
         \A f \in Execs : pc'[f] = "queued" <=> pc[f] = "queued"
  PROVE  QueueOK'
BY DEF QueueOK

LEMMA QueueJoined ==
  ASSUME QueueOK, NEW e \in Execs, pc[e] # "queued", queue' = Append(queue, e), pc'[e] = "queued",
         \A f \in Execs \ {e} : pc'[f] = pc[f]
  PROVE  QueueOK'
<1> USE DEF QueueOK
<1>1. queue' \in Seq(Execs) /\ Len(queue') = Len(queue) + 1
  OBVIOUS
<1>2. \A i \in 1..Len(queue') : queue'[i] = IF i = Len(queue) + 1 THEN e ELSE queue[i]
  OBVIOUS
<1>3. \A i \in 1..Len(queue) : queue[i] # e
  OBVIOUS
<1>4. \A i, j \in 1..Len(queue') : queue'[i] = queue'[j] => i = j
  BY <1>1, <1>2, <1>3
<1>5. ASSUME NEW f \in Execs
      PROVE  pc'[f] = "queued" <=> \E i \in 1..Len(queue') : queue'[i] = f
  <2>1. CASE f = e
    BY <1>1, <1>2, <2>1
  <2>2. CASE f # e
    BY <1>1, <1>2, <2>2
  <2> QED
    BY <2>1, <2>2
<1> QED
  BY <1>1, <1>4, <1>5

LEMMA QueueServed ==
  ASSUME QueueOK, queue # <<>>, queue' = Tail(queue), pc'[Head(queue)] # "queued",
         \A f \in Execs \ {Head(queue)} : pc'[f] = pc[f]
  PROVE  QueueOK'
<1> USE DEF QueueOK
<1>1. queue' \in Seq(Execs) /\ Len(queue') = Len(queue) - 1 /\ Len(queue) > 0
  OBVIOUS
<1>2. \A i \in 1..Len(queue') : queue'[i] = queue[i + 1]
  OBVIOUS
<1>3. Head(queue) = queue[1]
  OBVIOUS
<1>4. \A i, j \in 1..Len(queue') : queue'[i] = queue'[j] => i = j
  BY <1>1, <1>2
<1>5. ASSUME NEW f \in Execs
      PROVE  pc'[f] = "queued" <=> \E i \in 1..Len(queue') : queue'[i] = f
  <2>1. CASE f = queue[1]
    BY <1>1, <1>2, <1>3, <2>1
  <2>2. CASE f # queue[1]
    <3>1. ASSUME NEW i \in 1..Len(queue), queue[i] = f
          PROVE  i - 1 \in 1..Len(queue') /\ queue'[i - 1] = f
      BY <1>1, <1>2, <2>2, <3>1
    <3>2. pc'[f] = pc[f]
      BY <1>3, <2>2
    <3>3. ASSUME NEW i \in 1..Len(queue'), queue'[i] = f
          PROVE  i + 1 \in 1..Len(queue) /\ queue[i + 1] = f
      BY <1>1, <1>2, <3>3
    <3>4. (\E i \in 1..Len(queue) : queue[i] = f) <=> \E i \in 1..Len(queue') : queue'[i] = f
      BY <3>1, <3>3
    <3> QED
      BY <3>2, <3>4
  <2> QED
    BY <2>1, <2>2
<1> QED
  BY <1>1, <1>4, <1>5

LEMMA QueueLeft ==
  ASSUME QueueOK, NEW e \in Execs, Leave(e), pc'[e] # "queued",
         \A f \in Execs \ {e} : pc'[f] = pc[f]
  PROVE  QueueOK'
<1> USE DEF QueueOK
<1>1. PICK k \in 1..Len(queue) :
        /\ queue[k] = e
        /\ queue' = [j \in 1..(Len(queue) - 1) |-> queue[IF j < k THEN j ELSE j + 1]]
  BY DEF Leave
<1>2. queue' \in Seq(Execs) /\ Len(queue') = Len(queue) - 1
  BY <1>1
<1>3. \A j \in 1..Len(queue') : queue'[j] = queue[IF j < k THEN j ELSE j + 1]
  BY <1>1, <1>2
<1>4. \A i, j \in 1..Len(queue') : queue'[i] = queue'[j] => i = j
  BY <1>2, <1>3
<1>5. ASSUME NEW f \in Execs
      PROVE  pc'[f] = "queued" <=> \E i \in 1..Len(queue') : queue'[i] = f
  <2>1. CASE f = e
    <3>1. ASSUME NEW j \in 1..Len(queue'), queue'[j] = e
          PROVE  FALSE
      <4> DEFINE i == IF j < k THEN j ELSE j + 1
      <4>1. i \in 1..Len(queue) /\ i # k
        BY <1>2, <3>1
      <4>2. queue[i] = queue[k]
        BY <1>1, <1>3, <3>1
      <4> HIDE DEF i
      <4> QED
        BY <4>1, <4>2
    <3> QED
      BY <2>1, <3>1
  <2>2. CASE f # e
    <3>1. ASSUME NEW i \in 1..Len(queue), queue[i] = f
          PROVE  \E j \in 1..Len(queue') : queue'[j] = f
      <4>1. CASE i < k
        <5>1. i \in 1..Len(queue')
          BY <1>2, <3>1, <4>1
        <5>2. queue'[i] = queue[i]
          BY <1>3, <4>1, <5>1
        <5> QED
          BY <3>1, <5>1, <5>2
      <4>2. CASE i > k
        <5>1. i - 1 \in 1..Len(queue') /\ ~(i - 1 < k) /\ (i - 1) + 1 = i
          BY <1>2, <3>1, <4>2
        <5>2. queue'[i - 1] = queue[i]
          BY <1>3, <5>1
        <5> QED
          BY <3>1, <5>1, <5>2
      <4>3. i # k
        BY <1>1, <2>2, <3>1
      <4> QED
        BY <4>1, <4>2, <4>3
    <3>2. ASSUME NEW j \in 1..Len(queue'), queue'[j] = f
          PROVE  \E i \in 1..Len(queue) : queue[i] = f
      <4>1. (IF j < k THEN j ELSE j + 1) \in 1..Len(queue)
        BY <1>2, <3>2
      <4> QED
        BY <1>3, <3>2, <4>1
    <3>3. pc'[f] = pc[f]
      BY <2>2
    <3> QED
      BY <3>1, <3>2, <3>3
  <2> QED
    BY <2>1, <2>2
<1> QED
  BY <1>2, <1>4, <1>5

\* The queue holds who waits, once.
LEMMA QueueStep == IInv /\ [Next]_vars => QueueOK'
<1> SUFFICES ASSUME IInv, [Next]_vars
             PROVE  QueueOK'
  OBVIOUS
<1> USE DEF IInv, FieldsOK, Steps, Holding, Ended, command, doomed
<1> DEFINE Still == UNCHANGED queue /\ \A f \in Execs : pc'[f] = "queued" <=> pc[f] = "queued"
<1>0. QueueOK /\ (Still => QueueOK')
  BY QueueKept
<1>1. ASSUME NEW e \in Execs, Receive(e)
      PROVE  Still
  BY <1>1 DEF Receive, Begin, NoStartRecord, Answer, Drop
<1>2. ASSUME NEW e \in Execs, Choose(e)
      PROVE  QueueOK'
  <2>1. CASE queue' = Append(queue, e) /\ pc' = [pc EXCEPT ![e] = "queued"]
    BY <1>0, <1>2, <2>1, QueueJoined DEF Choose
  <2>2. CASE UNCHANGED queue /\ pc' = [pc EXCEPT ![e] = "answered"]
    BY <1>0, <1>2, <2>2, QueueKept DEF Choose
  <2> QED
    BY <1>2, <2>1, <2>2 DEF Choose, Answer
<1>3. ASSUME NEW e \in Execs, Enter(e)
      PROVE  QueueOK'
  <2>1. e = Head(queue) /\ queue # <<>> /\ queue' = Tail(queue)
    BY <1>3 DEF Enter
  <2>2. \E p \in {"prompt", "validating", "answered"} : pc' = [pc EXCEPT ![e] = p]
    BY <1>3 DEF Enter, Reresolve, Answer
  <2>3. pc'[e] # "queued" /\ \A f \in Execs \ {e} : pc'[f] = pc[f]
    BY <2>2
  <2> QED
    BY <1>0, <2>1, <2>3, QueueServed
<1>4. ASSUME NEW e \in Execs, LeaveQueue(e)
      PROVE  QueueOK'
  <2>1. Leave(e) /\ pc'[e] # "queued" /\ \A f \in Execs \ {e} : pc'[f] = pc[f]
    BY <1>4 DEF LeaveQueue, Answer
  <2> QED
    BY <1>0, <2>1, QueueLeft
<1>5. ASSUME NEW e \in Execs, Approve(e)
      PROVE  Still
  BY <1>5 DEF Approve, Reresolve, Answer, Drop
<1>6. ASSUME NEW e \in Execs, Decline(e)
      PROVE  Still
  BY <1>6 DEF Decline, Answer, Drop
<1>7. ASSUME NEW e \in Execs, Refuse(e)
      PROVE  Still
  BY <1>7 DEF Refuse, Answer, Drop
<1>8. ASSUME NEW e \in Execs, Dispatch(e)
      PROVE  Still
  BY <1>8 DEF Dispatch
<1>9. ASSUME NEW e \in Execs, Act(e)
      PROVE  Still
  BY <1>9 DEF Act
<1>10. ASSUME NEW e \in Execs, Return(e)
       PROVE  Still
  BY <1>10 DEF Return, Answer
<1>11. ASSUME NEW e \in Execs, Interrupt(e)
       PROVE  Still
  BY <1>11 DEF Interrupt, Answer, Drop
<1>12. ASSUME NEW e \in Execs, Trail(e)
       PROVE  Still
  BY <1>12 DEF Trail
<1>13. ASSUME NEW e \in Execs, Doom(e)
       PROVE  Still
  BY <1>13 DEF Doom, Cancel, Revoke, Invalidate
<1>14. ASSUME NEW r \in Recipes, NEW e \in Execs, Attempt(r, e)
       PROVE  Still
  BY <1>14 DEF Attempt, Begin, NoStartRecord, Answer, Drop
<1>15. ASSUME NEW r \in Recipes, StepAnswered(r)
       PROVE  Still
  BY <1>15 DEF StepAnswered, Retryable
<1>16. ASSUME NEW r \in Recipes, StepDropped(r)
       PROVE  QueueOK'
  <2> DEFINE e == step[r].current
  <2>1. e \in Execs
    BY <1>16 DEF StepDropped, OnceInv
  <2>2. pc'[e] = "dropped" /\ \A f \in Execs \ {e} : pc'[f] = pc[f]
    BY <1>16, <2>1 DEF StepDropped
  <2>4. CASE pc[e] = "queued"
    <3>1. Leave(e)
      BY <1>16, <2>4 DEF StepDropped
    <3> HIDE DEF e
    <3> QED
      BY <1>0, <2>1, <2>2, <3>1, QueueLeft
  <2>5. CASE pc[e] # "queued"
    <3>1. UNCHANGED queue
      BY <1>16, <2>5 DEF StepDropped
    <3> HIDE DEF e
    <3> QED
      BY <1>0, <2>1, <2>2, <2>5, <3>1, QueueKept
  <2> QED
    BY <2>4, <2>5
<1>17. ASSUME NEW r \in Recipes, GiveUp(r)
       PROVE  Still
  BY <1>17 DEF GiveUp
<1>18. ASSUME UNCHANGED vars
       PROVE  Still
  BY <1>18 DEF vars
<1> HIDE DEF IInv, FieldsOK, Still
<1> QED
  BY <1>0, <1>1, <1>2, <1>3, <1>4, <1>5, <1>6, <1>7, <1>8, <1>9, <1>10, <1>11, <1>12, <1>13, <1>14, <1>15, <1>16, <1>17, <1>18 DEF Next, Execution, Recipe

\* Steps are attempted within their bound.
LEMMA StepStep == IInv /\ [Next]_vars => StepOK'
<1> SUFFICES ASSUME IInv, [Next]_vars
             PROVE  StepOK'
  OBVIOUS
<1> USE DEF IInv, StepOK, OnceInv, command, doomed
<1>1. ASSUME NEW e \in Execs, Receive(e)
      PROVE  StepOK'
  BY <1>1 DEF Receive, Begin, NoStartRecord, Answer, Drop
<1>2. ASSUME NEW e \in Execs, Choose(e)
      PROVE  StepOK'
  BY <1>2 DEF Choose, Answer, Drop
<1>3. ASSUME NEW e \in Execs, Enter(e)
      PROVE  StepOK'
  BY <1>3 DEF Enter, Reresolve, Answer, Drop
<1>4. ASSUME NEW e \in Execs, LeaveQueue(e)
      PROVE  StepOK'
  BY <1>4 DEF LeaveQueue, Leave, Answer, Drop
<1>5. ASSUME NEW e \in Execs, Approve(e)
      PROVE  StepOK'
  BY <1>5 DEF Approve, Reresolve, Answer, Drop
<1>6. ASSUME NEW e \in Execs, Decline(e)
      PROVE  StepOK'
  BY <1>6 DEF Decline, Answer, Drop
<1>7. ASSUME NEW e \in Execs, Refuse(e)
      PROVE  StepOK'
  BY <1>7 DEF Refuse, Answer, Drop
<1>8. ASSUME NEW e \in Execs, Dispatch(e)
      PROVE  StepOK'
  BY <1>8 DEF Dispatch
<1>9. ASSUME NEW e \in Execs, Act(e)
      PROVE  StepOK'
  BY <1>9 DEF Act
<1>10. ASSUME NEW e \in Execs, Return(e)
       PROVE  StepOK'
  BY <1>10 DEF Return, Answer, Drop
<1>11. ASSUME NEW e \in Execs, Interrupt(e)
       PROVE  StepOK'
  BY <1>11 DEF Interrupt, Answer, Drop
<1>12. ASSUME NEW e \in Execs, Trail(e)
       PROVE  StepOK'
  BY <1>12 DEF Trail
<1>13. ASSUME NEW e \in Execs, Doom(e)
       PROVE  StepOK'
  BY <1>13 DEF Doom, Cancel, Revoke, Invalidate
<1>14. ASSUME NEW r \in Recipes, NEW e \in Execs, Attempt(r, e)
       PROVE  StepOK'
  <2>1. step[r].tries + 1 \in 0..MaxAttempts
    BY <1>14, AttemptAssumption DEF Attempt
  <2>2. [now |-> "waiting", tries |-> step[r].tries + 1, current |-> e]
          \in [now : {"idle", "waiting", "backoff", "over"}, tries : 0..MaxAttempts,
              current : Execs \cup {Client}]
    BY <2>1
  <2> QED
    BY <1>14, <2>2 DEF Attempt
<1>15. ASSUME NEW r \in Recipes, StepAnswered(r)
       PROVE  StepOK'
  BY <1>15 DEF StepAnswered, Retryable
<1>16. ASSUME NEW r \in Recipes, StepDropped(r)
       PROVE  StepOK'
  <2>1. step' = [step EXCEPT ![r].now = "over"]
    BY <1>16 DEF StepDropped
  <2>2. [step[r] EXCEPT !.now = "over"] \in [now : {"idle", "waiting", "backoff", "over"},
          tries : 0..MaxAttempts, current : Execs \cup {Client}]
    OBVIOUS
  <2> QED
    BY <2>1, <2>2
<1>17. ASSUME NEW r \in Recipes, GiveUp(r)
       PROVE  StepOK'
  BY <1>17 DEF GiveUp
<1>18. CASE UNCHANGED vars
  BY <1>18 DEF vars
<1> HIDE DEF IInv, StepOK, OnceInv
<1> QED
  BY <1>1, <1>2, <1>3, <1>4, <1>5, <1>6, <1>7, <1>8, <1>9, <1>10, <1>11, <1>12, <1>13, <1>14, <1>15, <1>16, <1>17, <1>18 DEF Next, Execution, Recipe

\* Calls and records follow the program counter.
LEMMA WorkStep == IInv /\ [Next]_vars => WorkInv'
<1> SUFFICES ASSUME IInv, [Next]_vars
             PROVE  WorkInv'
  OBVIOUS
<1> USE DEF IInv, FieldsOK, WorkInv, Steps, Holding, Ended, Codes, command, doomed
<1>1. ASSUME NEW e \in Execs, Receive(e)
      PROVE  WorkInv'
  <2>1. /\ pc[e] = "idle" /\ UNCHANGED <<kind, work, effect>>
        /\ pc'[e] # "idle"
        /\ \A f \in Execs \ {e} : UNCHANGED <<pc[f], journal[f], answer[f]>>
    BY <1>1 DEF Receive, Begin, NoStartRecord, Answer, Drop
  <2>2. /\ pc'[e] \in {"answered", "choosing"}
        /\ pc'[e] = "choosing" => journal'[e] = "start"
    BY <1>1 DEF Receive, Begin, NoStartRecord, Answer
  <2> QED
    BY <2>1, <2>2
<1>2. ASSUME NEW e \in Execs, Choose(e)
      PROVE  WorkInv'
  BY <1>2 DEF Choose, Answer, Drop
<1>3. ASSUME NEW e \in Execs, Enter(e)
      PROVE  WorkInv'
  <2>1. pc[e] = "queued"
    BY <1>3 DEF Enter, QueueOK
  <2>2. CASE pc' = [pc EXCEPT ![e] = "prompt"] /\ UNCHANGED <<doomed, journal, answer>>
    BY <1>3, <2>1, <2>2 DEF Enter
  <2>3. CASE Reresolve(e)
    BY <1>3, <2>1, <2>3 DEF Enter, Reresolve, Answer, Drop
  <2> QED
    BY <1>3, <2>2, <2>3 DEF Enter
<1>4. ASSUME NEW e \in Execs, LeaveQueue(e)
      PROVE  WorkInv'
  BY <1>4 DEF LeaveQueue, Leave, Answer, Drop
<1>5. ASSUME NEW e \in Execs, Approve(e)
      PROVE  WorkInv'
  BY <1>5 DEF Approve, Reresolve, Answer, Drop
<1>6. ASSUME NEW e \in Execs, Decline(e)
      PROVE  WorkInv'
  BY <1>6 DEF Decline, Answer, Drop
<1>7. ASSUME NEW e \in Execs, Refuse(e)
      PROVE  WorkInv'
  BY <1>7 DEF Refuse, Answer, Drop
<1>8. ASSUME NEW e \in Execs, Dispatch(e)
      PROVE  WorkInv'
  BY <1>8 DEF Dispatch
<1>9. ASSUME NEW e \in Execs, Act(e)
      PROVE  WorkInv'
  BY <1>9 DEF Act
<1>10. ASSUME NEW e \in Execs, Return(e)
       PROVE  WorkInv'
  BY <1>10 DEF Return, Answer, Drop
<1>11. ASSUME NEW e \in Execs, Interrupt(e)
       PROVE  WorkInv'
  BY <1>11 DEF Interrupt, Answer, Drop
<1>12. ASSUME NEW e \in Execs, Trail(e)
       PROVE  WorkInv'
  BY <1>12 DEF Trail
<1>13. ASSUME NEW e \in Execs, Doom(e)
       PROVE  WorkInv'
  BY <1>13 DEF Doom, Cancel, Revoke, Invalidate
<1>14. ASSUME NEW r \in Recipes, NEW e \in Execs, Attempt(r, e)
       PROVE  WorkInv'
  BY <1>14 DEF Attempt, Begin, NoStartRecord, Answer, Drop
<1>15. ASSUME NEW r \in Recipes, StepAnswered(r)
       PROVE  WorkInv'
  BY <1>15 DEF StepAnswered, Retryable
<1>16. ASSUME NEW r \in Recipes, StepDropped(r)
       PROVE  WorkInv'
  <2> DEFINE e == step[r].current
  <2>1. e \in Execs
    BY <1>16 DEF StepDropped, OnceInv
  <2>2. pc[e] \notin Ended /\ pc' = [pc EXCEPT ![e] = "dropped"] /\ pc[e] # "idle"
    BY <1>16 DEF StepDropped, OnceInv
  <2>3. UNCHANGED <<kind, work, effect, journal, answer>>
    BY <1>16 DEF StepDropped
  <2> HIDE DEF e
  <2> QED
    BY <2>1, <2>2, <2>3
<1>17. ASSUME NEW r \in Recipes, GiveUp(r)
       PROVE  WorkInv'
  BY <1>17 DEF GiveUp
<1>18. CASE UNCHANGED vars
  BY <1>18 DEF vars
<1> HIDE DEF IInv, FieldsOK, WorkInv
<1> QED
  BY <1>1, <1>2, <1>3, <1>4, <1>5, <1>6, <1>7, <1>8, <1>9, <1>10, <1>11, <1>12, <1>13, <1>14, <1>15, <1>16, <1>17, <1>18 DEF Next, Execution, Recipe

\* The gate lets in nobody beside an exclusive holder.
LEMMA GateStep == IInv /\ [Next]_vars => GateInv'
<1> SUFFICES ASSUME IInv, [Next]_vars
             PROVE  GateInv'
  OBVIOUS
<1> USE DEF IInv, FieldsOK, WorkInv, GateInv, Exclusive, Free, Holders, Steps, Holding, Ended, command, doomed
<1>1. ASSUME NEW e \in Execs, Receive(e)
      PROVE  GateInv'
  BY <1>1 DEF Receive, Begin, NoStartRecord, Answer, Drop
<1>2. ASSUME NEW e \in Execs, Choose(e)
      PROVE  GateInv'
  BY <1>2 DEF Choose, Answer, Drop
<1>3. ASSUME NEW e \in Execs, Enter(e)
      PROVE  GateInv'
  BY <1>3 DEF Enter, Reresolve, Answer, Drop
<1>4. ASSUME NEW e \in Execs, LeaveQueue(e)
      PROVE  GateInv'
  BY <1>4 DEF LeaveQueue, Leave, Answer, Drop
<1>5. ASSUME NEW e \in Execs, Approve(e)
      PROVE  GateInv'
  <2>1. /\ pc[e] = "prompt" /\ pc'[e] \in {"validating", "answered"} /\ UNCHANGED kind
        /\ \A f \in Execs \ {e} : pc'[f] = pc[f]
    BY <1>5 DEF Approve, Reresolve, Answer
  <2>2. Holders' \subseteq Holders
    BY <2>1
  <2>3. \A f \in Execs : Exclusive(f)' = Exclusive(f)
    BY <2>1
  <2> QED
    BY <2>1, <2>2, <2>3
<1>6. ASSUME NEW e \in Execs, Decline(e)
      PROVE  GateInv'
  BY <1>6 DEF Decline, Answer, Drop
<1>7. ASSUME NEW e \in Execs, Refuse(e)
      PROVE  GateInv'
  BY <1>7 DEF Refuse, Answer, Drop
<1>8. ASSUME NEW e \in Execs, Dispatch(e)
      PROVE  GateInv'
  BY <1>8 DEF Dispatch
<1>9. ASSUME NEW e \in Execs, Act(e)
      PROVE  GateInv'
  BY <1>9 DEF Act
<1>10. ASSUME NEW e \in Execs, Return(e)
       PROVE  GateInv'
  BY <1>10 DEF Return, Answer, Drop
<1>11. ASSUME NEW e \in Execs, Interrupt(e)
       PROVE  GateInv'
  BY <1>11 DEF Interrupt, Answer, Drop
<1>12. ASSUME NEW e \in Execs, Trail(e)
       PROVE  GateInv'
  BY <1>12 DEF Trail
<1>13. ASSUME NEW e \in Execs, Doom(e)
       PROVE  GateInv'
  BY <1>13 DEF Doom, Cancel, Revoke, Invalidate
<1>14. ASSUME NEW r \in Recipes, NEW e \in Execs, Attempt(r, e)
       PROVE  GateInv'
  BY <1>14 DEF Attempt, Begin, NoStartRecord, Answer, Drop
<1>15. ASSUME NEW r \in Recipes, StepAnswered(r)
       PROVE  GateInv'
  BY <1>15 DEF StepAnswered, Retryable
<1>16. ASSUME NEW r \in Recipes, StepDropped(r)
       PROVE  GateInv'
  BY <1>16 DEF StepDropped, Leave, Drop
<1>17. ASSUME NEW r \in Recipes, GiveUp(r)
       PROVE  GateInv'
  BY <1>17 DEF GiveUp
<1>18. CASE UNCHANGED vars
  BY <1>18 DEF vars
<1> HIDE DEF IInv, FieldsOK, WorkInv, GateInv
<1> QED
  BY <1>1, <1>2, <1>3, <1>4, <1>5, <1>6, <1>7, <1>8, <1>9, <1>10, <1>11, <1>12, <1>13, <1>14, <1>15, <1>16, <1>17, <1>18 DEF Next, Execution, Recipe

\* An execution that was not over moves, and if it is answered with a failure to
\* be retried its call is quiet.
LEMMA OnceKept ==
  ASSUME IInv, NEW e \in Execs, UNCHANGED <<kind, origin, step>>,
         pc[e] \notin Ended, pc'[e] # "idle",
         \A f \in Execs \ {e} : /\ pc'[f] = pc[f] /\ work'[f] = work[f] /\ answer'[f] = answer[f]
                                /\ (f \in effect' <=> f \in effect),
         pc'[e] = "answered" /\ Retryable(answer[e])' => Quiet(e)'
  PROVE  OnceInv'
<1> USE DEF IInv, OnceInv
<1>1. ASSUME NEW f \in Execs \ {e}
      PROVE  /\ pc'[f] = pc[f] /\ (Quiet(f)' <=> Quiet(f))
             /\ Retryable(answer[f])' <=> Retryable(answer[f])
  <2>1. pc'[f] = pc[f] /\ answer'[f] = answer[f]
    OBVIOUS
  <2>2. Quiet(f)' <=> Quiet(f)
    BY DEF Quiet
  <2> QED
    BY <2>1, <2>2 DEF Retryable
<1>2. \A f \in Execs : pc'[f] = "answered" /\ Retryable(answer[f])' => Quiet(f)'
  BY <1>1
<1>3. ASSUME NEW r \in Recipes
      PROVE  /\ step'[r].now # "idle" => pc'[step'[r].current] # "idle"
             /\ \A f \in Execs :
                  origin'[f] = r /\ (f # step'[r].current \/ step'[r].now = "backoff")
                    => Quiet(f)' /\ pc'[f] \in Ended
  BY <1>1
<1> QED
  BY <1>2, <1>3

\* A step is attempted again only when its attempts are quiet.
LEMMA OnceStep == IInv /\ [Next]_vars => OnceInv'
<1> SUFFICES ASSUME IInv, [Next]_vars
             PROVE  OnceInv'
  OBVIOUS
<1> USE DEF IInv, FieldsOK, StepOK, WorkInv, OnceInv, Quiet, Retryable, Steps, Holding, Ended, Codes, command, doomed
<1>1. ASSUME NEW e \in Execs, Receive(e)
      PROVE  OnceInv'
  <2>1. pc[e] = "idle" /\ work[e] = "none" /\ e \notin effect
    BY <1>1 DEF Receive, Begin
  <2>2. UNCHANGED <<work, effect, kind, origin, step>>
    BY <1>1 DEF Receive, Begin
  <2>3. /\ \A f \in Execs \ {e} : pc'[f] = pc[f] /\ answer'[f] = answer[f]
        /\ pc'[e] # "idle"
    BY <1>1 DEF Receive, Begin, NoStartRecord, Answer
  <2>4. IInv /\ Quiet(e)' /\ pc[e] \notin Ended
    BY <2>1, <2>2
  <2> HIDE DEF IInv, OnceInv, Quiet, Retryable, Steps, FieldsOK, StepOK, WorkInv, Codes
  <2> QED
    BY <2>1, <2>2, <2>3, <2>4, OnceKept
<1>2. ASSUME NEW e \in Execs, Choose(e)
      PROVE  OnceInv'
  <2>1. pc[e] = "choosing" /\ work[e] = "none" /\ e \notin effect
    BY <1>2 DEF Choose
  <2>2. UNCHANGED <<work, effect, kind, origin, step>>
    BY <1>2 DEF Choose
  <2>3. /\ \A f \in Execs \ {e} : pc'[f] = pc[f] /\ answer'[f] = answer[f]
        /\ pc'[e] # "idle"
    BY <1>2 DEF Choose, Answer
  <2> QED
    BY <2>1, <2>2, <2>3, OnceKept
<1>3. ASSUME NEW e \in Execs, Enter(e)
      PROVE  OnceInv'
  <2>1. pc[e] = "queued" /\ work[e] = "none" /\ e \notin effect
    BY <1>3 DEF Enter, QueueOK
  <2>2. UNCHANGED <<work, effect, kind, origin, step>>
    BY <1>3 DEF Enter
  <2>3. /\ \A f \in Execs \ {e} : pc'[f] = pc[f] /\ answer'[f] = answer[f]
        /\ pc'[e] # "idle"
    BY <1>3 DEF Enter, Reresolve, Answer
  <2> QED
    BY <2>1, <2>2, <2>3, OnceKept
<1>4. ASSUME NEW e \in Execs, LeaveQueue(e)
      PROVE  OnceInv'
  <2>1. pc[e] = "queued" /\ work[e] = "none" /\ e \notin effect
    BY <1>4 DEF LeaveQueue
  <2>2. UNCHANGED <<work, effect, kind, origin, step>>
    BY <1>4 DEF LeaveQueue
  <2>3. /\ \A f \in Execs \ {e} : pc'[f] = pc[f] /\ answer'[f] = answer[f]
        /\ pc'[e] # "idle"
    BY <1>4 DEF LeaveQueue, Answer
  <2> QED
    BY <2>1, <2>2, <2>3, OnceKept
<1>5. ASSUME NEW e \in Execs, Approve(e)
      PROVE  OnceInv'
  <2>1. pc[e] = "prompt" /\ work[e] = "none" /\ e \notin effect
    BY <1>5 DEF Approve
  <2>2. UNCHANGED <<work, effect, kind, origin, step>>
    BY <1>5 DEF Approve
  <2>3. /\ \A f \in Execs \ {e} : pc'[f] = pc[f] /\ answer'[f] = answer[f]
        /\ pc'[e] # "idle"
    BY <1>5 DEF Approve, Reresolve, Answer
  <2> QED
    BY <2>1, <2>2, <2>3, OnceKept
<1>6. ASSUME NEW e \in Execs, Decline(e)
      PROVE  OnceInv'
  BY <1>6 DEF Decline, Answer, Drop
<1>7. ASSUME NEW e \in Execs, Refuse(e)
      PROVE  OnceInv'
  <2>1. pc[e] = "validating" /\ work[e] = "none" /\ e \notin effect
    BY <1>7 DEF Refuse
  <2>2. UNCHANGED <<work, effect, kind, origin, step>>
    BY <1>7 DEF Refuse
  <2>3. /\ \A f \in Execs \ {e} : pc'[f] = pc[f] /\ answer'[f] = answer[f]
        /\ pc'[e] # "idle"
    BY <1>7 DEF Refuse, Answer
  <2> QED
    BY <2>1, <2>2, <2>3, OnceKept
<1>8. ASSUME NEW e \in Execs, Dispatch(e)
      PROVE  OnceInv'
  BY <1>8 DEF Dispatch
<1>9. ASSUME NEW e \in Execs, Act(e)
      PROVE  OnceInv'
  BY <1>9 DEF Act
<1>10. ASSUME NEW e \in Execs, Return(e)
       PROVE  OnceInv'
  <2>1. PICK code \in Codes, known \in BOOLEAN :
          Result(e, code, known) /\ Answer(e, code, OutcomeKnown(e, code, known))
    BY <1>10 DEF Return
  <2>2. pc[e] = "acting" /\ work' = [work EXCEPT ![e] = "ended"] /\ UNCHANGED <<effect, kind, origin, step>>
    BY <1>10 DEF Return
  <2>3. /\ \A f \in Execs \ {e} : pc'[f] = pc[f] /\ answer'[f] = answer[f]
        /\ pc'[e] # "idle"
    BY <2>1 DEF Answer
  <2>4. ASSUME answer'[e].known, answer'[e].code \in {"BackendFailed", "Unavailable"}
        PROVE  e \notin effect
    <3>1. \/ answer' = [answer EXCEPT ![e] = [code |-> code, known |-> OutcomeKnown(e, code, known)]]
          \/ answer' = [answer EXCEPT ![e] = [code |-> "Other", known |-> FALSE]]
      BY <2>1 DEF Answer
    <3>2. answer'[e].code = code /\ OutcomeKnown(e, code, known)
      BY <2>4, <3>1
    <3> QED
      BY <2>1, <2>4, <3>2 DEF Result, OutcomeKnown
  <2>5. pc'[e] = "answered" /\ Retryable(answer[e])' => Quiet(e)'
    BY <2>2, <2>4
  <2> QED
    BY <2>2, <2>3, <2>5, OnceKept
<1>11. ASSUME NEW e \in Execs, Interrupt(e)
       PROVE  OnceInv'
  BY <1>11 DEF Interrupt, Answer, Drop
<1>12. ASSUME NEW e \in Execs, Trail(e)
       PROVE  OnceInv'
  BY <1>12 DEF Trail
<1>13. ASSUME NEW e \in Execs, Doom(e)
       PROVE  OnceInv'
  BY <1>13 DEF Doom, Cancel, Revoke, Invalidate
<1>14. ASSUME NEW r \in Recipes, NEW e \in Execs, Attempt(r, e)
       PROVE  OnceInv'
  <2>1. pc[e] = "idle" /\ work[e] = "none" /\ e \notin effect /\ origin[e] = Client
    BY <1>14 DEF Attempt
  <2>2. /\ UNCHANGED <<work, effect, kind>>
        /\ origin' = [origin EXCEPT ![e] = r]
        /\ step' = [step EXCEPT ![r] = [now |-> "waiting", tries |-> @.tries + 1, current |-> e]]
    BY <1>14 DEF Attempt, Begin
  <2>3. /\ \A f \in Execs \ {e} : pc'[f] = pc[f] /\ answer'[f] = answer[f]
        /\ pc'[e] # "idle"
    BY <1>14 DEF Attempt, Begin, NoStartRecord, Answer
  <2>4. \A f \in Execs : origin[f] = r => Quiet(f) /\ pc[f] \in Ended
    BY <1>14 DEF Attempt
  <2>5. \A f \in Execs : Quiet(f)' <=> Quiet(f)
    BY <2>2
  <2>6. \A f \in Execs : pc'[f] = "answered" /\ Retryable(answer[f])' => Quiet(f)'
    BY <2>1, <2>3, <2>5
  <2>7. ASSUME NEW q \in Recipes
        PROVE  /\ step'[q].now = "idle" => step'[q].tries = 0 /\ \A f \in Execs : origin'[f] # q
               /\ step'[q].now # "idle" => step'[q].current \in Execs /\ pc'[step'[q].current] # "idle"
               /\ step'[q].now = "backoff" => step'[q].tries < MaxAttempts
               /\ \A f \in Execs :
                    origin'[f] = q /\ (f # step'[q].current \/ step'[q].now = "backoff")
                      => Quiet(f)' /\ pc'[f] \in Ended
    <3>1. CASE q = r
      BY <2>1, <2>2, <2>3, <2>4, <2>5, <3>1
    <3>2. CASE q # r
      BY <2>1, <2>2, <2>3, <2>5, <3>2, OriginAssumption
    <3> QED
      BY <3>1, <3>2
  <2> QED
    BY <2>6, <2>7
<1>15. ASSUME NEW r \in Recipes, StepAnswered(r)
       PROVE  OnceInv'
  BY <1>15 DEF StepAnswered, Retryable
<1>16. ASSUME NEW r \in Recipes, StepDropped(r)
       PROVE  OnceInv'
  BY <1>16 DEF StepDropped, Leave, Drop
<1>17. ASSUME NEW r \in Recipes, GiveUp(r)
       PROVE  OnceInv'
  BY <1>17 DEF GiveUp
<1>18. CASE UNCHANGED vars
  BY <1>18 DEF vars
<1> HIDE DEF IInv, FieldsOK, StepOK, WorkInv, OnceInv, Quiet
<1> QED
  BY <1>1, <1>2, <1>3, <1>4, <1>5, <1>6, <1>7, <1>8, <1>9, <1>10, <1>11, <1>12, <1>13, <1>14, <1>15, <1>16, <1>17, <1>18 DEF Next, Execution, Recipe

-----------------------------------------------------------------------------
(* The theorems *)

LEMMA Invariance == Safety => []IInv
<1>1. IInv /\ [Next]_vars => IInv'
  BY FieldsStep, QueueStep, StepStep, WorkStep, GateStep, OnceStep DEF IInv
<1> QED
  BY InitIInv, <1>1, PTL DEF Safety

\* Everything stays in its type, and the gate's queue holds exactly who waits.
THEOREM TypeCorrectness == Safety => []TypeOK
<1>1. IInv => TypeOK
  BY DEF IInv, FieldsOK, QueueOK, StepOK, TypeOK
<1> QED
  BY Invariance, <1>1, PTL

\* However many executions there are, nobody is past the gate beside a prompt or a
\* mutation.
THEOREM GateExclusion == Safety => []GateHoldersAreAlone
<1>1. ASSUME IInv, NEW e \in Holders, NEW f \in Holders, e # f
      PROVE  pc[e] # "prompt" /\ ~kind[e].mutates
  <2>1. e \in Execs
    BY <1>1 DEF Holders
  <2>2. ~Exclusive(e)
    BY <1>1 DEF IInv, GateInv
  <2> QED
    BY <1>1, <2>1, <2>2 DEF IInv, GateInv, Exclusive
<1>2. IInv => GateHoldersAreAlone
  BY <1>1 DEF GateHoldersAreAlone
<1> QED
  BY Invariance, <1>2, PTL

\* However often a recipe retries its step, one attempt at most takes effect.
THEOREM EffectsAreNotRepeated == Safety => []StepsTakeEffectOnce
<1>1. ASSUME IInv
      PROVE  StepsTakeEffectOnce
  <2>1. ASSUME NEW e \in effect, NEW f \in effect, origin[e] # Client, origin[e] = origin[f]
        PROVE  e = f
    <3>1. e \in Execs /\ f \in Execs /\ origin[e] \in Recipes
      BY <1>1, <2>1 DEF IInv, FieldsOK
    <3>2. ~Quiet(e) /\ ~Quiet(f)
      BY <2>1 DEF Quiet
    <3> QED
      BY <1>1, <2>1, <3>1, <3>2 DEF IInv, OnceInv
  <2> QED
    BY <2>1 DEF StepsTakeEffectOnce
<1> QED
  BY Invariance, <1>1, PTL

\* Whatever happens to the audit files, an effect has its start record, and a
\* known answer about it its finish record.
THEOREM EffectsAreAudited == Safety => []EffectsAreOnRecord
<1>1. IInv => EffectsAreOnRecord
  BY DEF IInv, FieldsOK, WorkInv, EffectsAreOnRecord
<1> QED
  BY Invariance, <1>1, PTL

\* Who waits with a revoked reference, or holds a lease that is over, is done for.
Lost(e)     == pc[e] \in {"queued", "prompt"} /\ e \in revoked
Orphaned(e) == pc[e] \in {"queued", "prompt", "validating"} /\ e \in stale

LEMMA LostStaysLost ==
  ASSUME NEW e \in Execs
  PROVE  /\ IInv /\ [Next]_vars /\ (Lost(e) \/ pc[e] \in Ended) => (Lost(e) \/ pc[e] \in Ended)'
         /\ IInv /\ [Next]_vars /\ (Orphaned(e) \/ pc[e] \in Ended)
              => (Orphaned(e) \/ pc[e] \in Ended)'
<1> SUFFICES ASSUME IInv, [Next]_vars
             PROVE  /\ Lost(e) \/ pc[e] \in Ended => (Lost(e) \/ pc[e] \in Ended)'
                    /\ Orphaned(e) \/ pc[e] \in Ended => (Orphaned(e) \/ pc[e] \in Ended)'
  OBVIOUS
<1> DEFINE Kept == /\ Lost(e) \/ pc[e] \in Ended => (Lost(e) \/ pc[e] \in Ended)'
                   /\ Orphaned(e) \/ pc[e] \in Ended => (Orphaned(e) \/ pc[e] \in Ended)'
<1> USE DEF Lost, Orphaned, Ended, IInv, FieldsOK, command, doomed
<1>1. ASSUME NEW f \in Execs, Receive(f)
      PROVE  Kept
  BY <1>1 DEF Receive, Begin, NoStartRecord, Answer, Drop
<1>2. ASSUME NEW f \in Execs, Choose(f)
      PROVE  Kept
  BY <1>2 DEF Choose, Answer, Drop
<1>3. ASSUME NEW f \in Execs, Enter(f)
      PROVE  Kept
  <2>1. pc[f] = "queued" /\ f \notin stale
    BY <1>3 DEF Enter, QueueOK
  <2>2. CASE pc' = [pc EXCEPT ![f] = "prompt"] /\ UNCHANGED <<doomed, journal, answer>>
    BY <2>1, <2>2
  <2>3. CASE Reresolve(f)
    BY <2>1, <2>3 DEF Reresolve, Answer, Drop
  <2> QED
    BY <1>3, <2>2, <2>3 DEF Enter
<1>4. ASSUME NEW f \in Execs, LeaveQueue(f)
      PROVE  Kept
  BY <1>4 DEF LeaveQueue, Leave, Answer, Drop
<1>5. ASSUME NEW f \in Execs, Approve(f)
      PROVE  Kept
  BY <1>5 DEF Approve, Reresolve, Answer, Drop
<1>6. ASSUME NEW f \in Execs, Decline(f)
      PROVE  Kept
  BY <1>6 DEF Decline, Answer, Drop
<1>7. ASSUME NEW f \in Execs, Refuse(f)
      PROVE  Kept
  BY <1>7 DEF Refuse, Answer, Drop
<1>8. ASSUME NEW f \in Execs, Dispatch(f)
      PROVE  Kept
  BY <1>8 DEF Dispatch
<1>9. ASSUME NEW f \in Execs, Act(f)
      PROVE  Kept
  BY <1>9 DEF Act
<1>10. ASSUME NEW f \in Execs, Return(f)
       PROVE  Kept
  BY <1>10 DEF Return, Answer, Drop
<1>11. ASSUME NEW f \in Execs, Interrupt(f)
       PROVE  Kept
  BY <1>11 DEF Interrupt, Answer, Drop
<1>12. ASSUME NEW f \in Execs, Trail(f)
       PROVE  Kept
  BY <1>12 DEF Trail
<1>13. ASSUME NEW f \in Execs, Doom(f)
       PROVE  Kept
  BY <1>13 DEF Doom, Cancel, Revoke, Invalidate
<1>14. ASSUME NEW r \in Recipes, NEW f \in Execs, Attempt(r, f)
       PROVE  Kept
  BY <1>14 DEF Attempt, Begin, NoStartRecord, Answer, Drop
<1>15. ASSUME NEW r \in Recipes, StepAnswered(r)
       PROVE  Kept
  BY <1>15 DEF StepAnswered, Retryable
<1>16. ASSUME NEW r \in Recipes, StepDropped(r)
       PROVE  Kept
  BY <1>16 DEF StepDropped, Leave, Drop
<1>17. ASSUME NEW r \in Recipes, GiveUp(r)
       PROVE  Kept
  BY <1>17 DEF GiveUp
<1>18. CASE UNCHANGED vars
  BY <1>18 DEF vars
<1> HIDE DEF Lost, Orphaned, IInv, FieldsOK
<1> QED
  BY <1>1, <1>2, <1>3, <1>4, <1>5, <1>6, <1>7, <1>8, <1>9, <1>10, <1>11, <1>12, <1>13, <1>14, <1>15, <1>16, <1>17, <1>18 DEF Next, Execution, Recipe

\* Nothing that went stale while it waited for the gate or the operator acts.
THEOREM NoStaleStart == Safety => StaleWorkNeverStarts
<1>1. ASSUME NEW e \in Execs
      PROVE  []IInv /\ [][Next]_vars => (WentStale(e) => [](pc[e] # "acting"))
  <2>1. WentStale(e) => Lost(e) \/ Orphaned(e) \/ pc[e] \in Ended
    BY DEF WentStale, Lost, Orphaned
  <2>2. Lost(e) \/ Orphaned(e) \/ pc[e] \in Ended => pc[e] # "acting"
    BY DEF Lost, Orphaned, Ended
  <2> QED
    BY <2>1, <2>2, LostStaysLost, PTL
<1>2. []IInv /\ [][Next]_vars => \A e \in Execs : WentStale(e) => [](pc[e] # "acting")
  BY <1>1
<1> QED
  BY <1>2, Invariance, PTL DEF Safety, StaleWorkNeverStarts

=============================================================================
