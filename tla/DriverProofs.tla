----------------------------- MODULE DriverProofs -----------------------------
(***************************************************************************)
(* Proofs about the host's end of a driver, for any executions, checks,    *)
(* calls and limits: what an execution returns and why the process is      *)
(* killed (DriverLink), and the tools the driver runs through its host     *)
(* (HostTools).                                                            *)
(***************************************************************************)
EXTENDS DriverLink, HostTools, FiniteSetTheorems, TLAPS

(***************************************************************************)
(* The link.                                                               *)
(***************************************************************************)

\* The frames of the two pipes.
DriverFrames ==
  {Frame("execute", e) : e \in Executes} \cup {Frame("check", v) : v \in Checks}
    \cup {Frame("cancel", Cancelling(e)) : e \in Executes} \cup {Frame("shutdown", Bye), Torn}
HostFrames ==
  {Frame(k, e) : k \in {"result", "failure"}, e \in Executes}
    \cup {Frame("checked", v) : v \in Checks}
    \cup {Frame("cancelled", Cancelling(e)) : e \in Executes} \cup {Frame("shutdown", Bye)}

Unwritten == {"idle", "checked", "ready", "entered"}
Working   == {"queued", "running"}
Tasks     == Executes \cup Checks

HostTypeOK ==
  /\ call \in [Executes -> Live \cup {"idle", "over", "dropped"}]
  /\ returned \in [Executes -> {"none", "ok", "failed", "refused", "unknown"}]
  /\ stop \subseteq Executes
  /\ check \in [Checks -> {"idle", "waiting", "answered", "failed", "forgotten", "dropped"}]
  /\ closing \in {"no", "asked", "leaving", "failed", "done", "gone"}
  /\ requests \subseteq Ids
  /\ inbox \in [Ids -> {"none", "result", "failure", "checked", "cancelled", "shutdown",
                        "closed"}]
  /\ gate \in Executes \cup {Nobody}
PipesTypeOK ==
  /\ cooperative \in BOOLEAN /\ budgeted \in BOOLEAN
  /\ terminate \in BOOLEAN /\ disconnected \in BOOLEAN
  /\ reader \in {"reading", "broken", "over"}
  /\ toDriver \in Seq(DriverFrames) /\ toHost \in Seq(HostFrames)
  /\ child \in {"running", "leaving", "dead"}
  /\ job \in [Tasks -> {"none", "queued", "running", "done", "erred", "aborted"}]
  /\ lock \in Tasks \cup {Nobody}
LinkTypeOK == HostTypeOK /\ PipesTypeOK

\* What a pipe carries.  A torn frame is no request.
Carried(pipe) == {pipe[n].id : n \in {k \in DOMAIN pipe : pipe[k].kind # "torn"}}
Once(pipe)    == \A m, n \in DOMAIN pipe :
                   /\ pipe[m].kind # "torn" /\ pipe[n].kind # "torn"
                   /\ pipe[m].id = pipe[n].id
                   => m = n

\* A request is in one place: not yet written, in one of the pipes, or with the driver.
TrafficInv ==
  /\ Once(toDriver) /\ Once(toHost) /\ Carried(toDriver) \cap Carried(toHost) = {}
  /\ \A i \in Tasks : /\ job[i] # "none" => i \notin Carried(toDriver)
                      /\ job[i] \in Working \cup {"none"} => i \notin Carried(toHost)
  /\ \A e \in Executes :
       /\ call[e] \in Unwritten => job[e] = "none" /\ e \notin Carried(toDriver)
       /\ call[e] \in Unwritten \cup {"waiting"} =>
            Cancelling(e) \notin Carried(toDriver) \cup Carried(toHost)
  /\ \A v \in Checks : check[v] = "idle" => job[v] = "none" /\ v \notin Carried(toDriver)
  /\ closing = "no" => Bye \notin Carried(toDriver) \cup Carried(toHost)

\* What the host reads, holds and returns is what the driver said.
Says(kind, end) == /\ kind = "result" => end = "done"
                   /\ kind = "failure" => end = "erred"
AnswerInv ==
  /\ \A n \in DOMAIN toHost : Says(toHost[n].kind, job[toHost[n].id])
  /\ \A e \in Executes :
       /\ Says(inbox[e], job[e])
       /\ returned[e] = "ok" => job[e] = "done"
       /\ returned[e] = "failed" => job[e] = "erred"
       /\ returned[e] = "refused" => job[e] = "none" /\ e \notin Carried(toDriver)
       /\ returned[e] = "unknown" => terminate
       /\ call[e] = "over" <=> returned[e] # "none"

\* Until there is a reason to kill the process, the table has an entry for every request
\* that may still be answered.
Reason == \/ \E e \in Executes : returned[e] = "unknown"
          \/ \E v \in Checks : check[v] = "forgotten"
          \/ closing # "no"
          \/ child = "dead"
OwedInv ==
  /\ Carried(toDriver) \cup Carried(toHost) \subseteq requests
  /\ \A i \in Tasks : job[i] \in Working => i \in requests
  /\ \A e \in Executes : call[e] = "entered" => e \in requests
ReasonInv == /\ terminate \/ reader # "reading" => Reason
             /\ Reason \/ OwedInv

LinkInv == LinkTypeOK /\ TrafficInv /\ AnswerInv /\ ReasonInv

-----------------------------------------------------------------------------
(* Identities and pipes. *)

\* The identities of a cancellation and of the shutdown are nobody else's.
LEMMA IdsDiffer ==
  /\ \A e \in Executes : Cancelling(e) \notin Tasks /\ Cancelling(e) # Bye
  /\ \A e, f \in Executes : Cancelling(e) = Cancelling(f) => e = f
  /\ Bye \notin Tasks
  /\ \A e \in Executes : e \notin Checks /\ e \in Ids /\ Cancelling(e) \in Ids
  /\ \A v \in Checks : v \in Ids
  /\ Bye \in Ids
BY IdsAssumption, LinkAssumption DEF Cancelling, Bye, Tasks, Ids

\* A frame that is written goes to the end.
LEMMA PipeAppend ==
  ASSUME NEW F, NEW pipe \in Seq(F), NEW f \in F
  PROVE  /\ Append(pipe, f) \in Seq(F)
         /\ f.kind = "torn" => Carried(Append(pipe, f)) = Carried(pipe)
         /\ f.kind # "torn" => Carried(Append(pipe, f)) = Carried(pipe) \cup {f.id}
         /\ Once(pipe) /\ (f.kind = "torn" \/ f.id \notin Carried(pipe))
              => Once(Append(pipe, f))
<1>1. PICK longer : longer = Append(pipe, f)
  OBVIOUS
<1>2. /\ longer \in Seq(F) /\ Len(pipe) \in Nat
      /\ DOMAIN longer = 1 .. Len(pipe) + 1 /\ DOMAIN pipe = 1 .. Len(pipe)
      /\ longer[Len(pipe) + 1] = f
      /\ \A n \in DOMAIN pipe : longer[n] = pipe[n]
  BY <1>1
<1>3. DOMAIN longer = DOMAIN pipe \cup {Len(pipe) + 1} /\ Len(pipe) + 1 \notin DOMAIN pipe
  BY <1>2
<1>4. f.kind = "torn" => Carried(longer) = Carried(pipe)
  BY <1>2, <1>3 DEF Carried
<1>5. f.kind # "torn" => Carried(longer) = Carried(pipe) \cup {f.id}
  BY <1>2, <1>3 DEF Carried
<1>6. Once(pipe) /\ (f.kind = "torn" \/ f.id \notin Carried(pipe)) => Once(longer)
  BY <1>2, <1>3 DEF Carried, Once
<1> QED
  BY <1>1, <1>2, <1>4, <1>5, <1>6

\* A frame that is read was at the head, and only there.
LEMMA PipeTail ==
  ASSUME NEW F, NEW pipe \in Seq(F), pipe # <<>>
  PROVE  /\ Tail(pipe) \in Seq(F) /\ Head(pipe) \in F
         /\ 1 \in DOMAIN pipe /\ Head(pipe) = pipe[1]
         /\ \A n \in DOMAIN Tail(pipe) : n + 1 \in DOMAIN pipe /\ Tail(pipe)[n] = pipe[n + 1]
         /\ Carried(Tail(pipe)) \subseteq Carried(pipe)
         /\ Head(pipe).kind # "torn" => Head(pipe).id \in Carried(pipe)
         /\ Once(pipe) => /\ Once(Tail(pipe))
                          /\ Head(pipe).kind # "torn" => Head(pipe).id \notin Carried(Tail(pipe))
<1>1. PICK shorter : shorter = Tail(pipe)
  OBVIOUS
<1>2. /\ shorter \in Seq(F) /\ Len(pipe) \in Nat /\ Len(pipe) # 0
      /\ DOMAIN shorter = 1 .. Len(pipe) - 1 /\ DOMAIN pipe = 1 .. Len(pipe)
      /\ \A n \in DOMAIN shorter : shorter[n] = pipe[n + 1]
      /\ Head(pipe) = pipe[1]
  BY <1>1
<1>3. /\ 1 \in DOMAIN pipe /\ pipe[1] \in F
      /\ \A n \in DOMAIN shorter : n + 1 \in DOMAIN pipe /\ n + 1 # 1
      /\ \A m, n \in DOMAIN shorter : m + 1 = n + 1 => m = n
  BY <1>2
<1>4. Carried(shorter) \subseteq Carried(pipe)
  BY <1>2, <1>3 DEF Carried
<1>5. Head(pipe).kind # "torn" => Head(pipe).id \in Carried(pipe)
  BY <1>2, <1>3 DEF Carried
<1>6. Once(pipe) => Once(shorter)
  BY <1>2, <1>3 DEF Once
<1>7. Once(pipe) /\ Head(pipe).kind # "torn" => Head(pipe).id \notin Carried(shorter)
  BY <1>2, <1>3 DEF Once, Carried
<1> QED
  BY <1>1, <1>2, <1>3, <1>4, <1>5, <1>6, <1>7

\* An empty pipe.
LEMMA PipeEmpty ==
  /\ \A F : <<>> \in Seq(F)
  /\ Carried(<<>>) = {} /\ Once(<<>>) /\ DOMAIN <<>> = {}
BY DEF Carried, Once

\* What the frames of each pipe are.
LEMMA FrameTypes ==
  /\ \A e \in Executes : /\ Frame("execute", e) \in DriverFrames
                         /\ Frame("cancel", Cancelling(e)) \in DriverFrames
                         /\ Frame("cancelled", Cancelling(e)) \in HostFrames
                         /\ Frame("result", e) \in HostFrames
                         /\ Frame("failure", e) \in HostFrames
  /\ \A v \in Checks : Frame("check", v) \in DriverFrames /\ Frame("checked", v) \in HostFrames
  /\ Frame("shutdown", Bye) \in DriverFrames /\ Torn \in DriverFrames
  /\ Frame("shutdown", Bye) \in HostFrames
  /\ \A k, i : Frame(k, i).kind = k /\ Frame(k, i).id = i
  /\ Torn.kind = "torn"
<1>1. \A k, i : Frame(k, i).kind = k /\ Frame(k, i).id = i
  BY DEF Frame
<1>2. Torn.kind = "torn"
  BY <1>1 DEF Torn
<1>3. \A e \in Executes : /\ Frame("execute", e) \in DriverFrames
                          /\ Frame("cancel", Cancelling(e)) \in DriverFrames
  BY DEF DriverFrames
<1>4. \A e \in Executes : /\ Frame("cancelled", Cancelling(e)) \in HostFrames
                          /\ Frame("result", e) \in HostFrames
                          /\ Frame("failure", e) \in HostFrames
  BY DEF HostFrames
<1>5. \A v \in Checks : Frame("check", v) \in DriverFrames /\ Frame("checked", v) \in HostFrames
  BY DEF DriverFrames, HostFrames
<1>6. /\ Frame("shutdown", Bye) \in DriverFrames /\ Torn \in DriverFrames
      /\ Frame("shutdown", Bye) \in HostFrames
  BY DEF DriverFrames, HostFrames
<1> QED
  BY <1>1, <1>2, <1>3, <1>4, <1>5, <1>6

LEMMA DriverFrameKinds ==
  ASSUME NEW f \in DriverFrames
  PROVE  /\ f.kind \in {"execute", "check", "cancel", "shutdown", "torn"}
         /\ f.kind = "execute" => f.id \in Executes
         /\ f.kind = "check" => f.id \in Checks
         /\ f.kind = "cancel" => \E e \in Executes : f.id = Cancelling(e)
         /\ f.kind = "shutdown" => f.id = Bye
BY DEF DriverFrames, Frame, Torn

LEMMA HostFrameKinds ==
  ASSUME NEW f \in HostFrames
  PROVE  /\ f.kind \in {"result", "failure", "checked", "cancelled", "shutdown"}
         /\ f.kind \in {"result", "failure"} => f.id \in Executes
         /\ f.kind = "checked" => f.id \in Checks
         /\ f.kind = "cancelled" => \E e \in Executes : f.id = Cancelling(e)
         /\ f.kind = "shutdown" => f.id = Bye
         /\ f.id \in Ids
BY DEF HostFrames, Frame, Ids

-----------------------------------------------------------------------------
(* Types. *)

CallPlaces == Live \cup {"idle", "over", "dropped"}
Answers    == {"none", "result", "failure", "checked", "cancelled", "shutdown", "closed"}

\* The end of an execution's future.
LEMMA OverType ==
  ASSUME HostTypeOK, NEW e \in Executes, NEW place \in {"over", "dropped"}, Over(e, place)
  PROVE  /\ call' = [call EXCEPT ![e] = place] /\ call' \in [Executes -> CallPlaces]
         /\ stop' \subseteq Executes
         /\ inbox' = [inbox EXCEPT ![e] = "none", ![Cancelling(e)] = "none"]
         /\ inbox' \in [Ids -> Answers]
         /\ gate' \in Executes \cup {Nobody}
BY DEF HostTypeOK, Over, CallPlaces, Answers

\* The four ways on for a call.
LEMMA GoesType ==
  ASSUME HostTypeOK, NEW e \in Executes, NEW place \in Live, Goes(e, place)
  PROVE  /\ call' = [call EXCEPT ![e] = place] /\ call' \in [Executes -> CallPlaces]
         /\ UNCHANGED <<returned, stop, inbox, gate, terminate>>
BY DEF HostTypeOK, Goes, CallPlaces

LEMMA ReturnsType ==
  ASSUME HostTypeOK, NEW e \in Executes, NEW v \in {"ok", "failed", "refused"}, Returns(e, v)
  PROVE  /\ Over(e, "over") /\ UNCHANGED terminate
         /\ returned' = [returned EXCEPT ![e] = v]
         /\ returned' \in [Executes -> {"none", "ok", "failed", "refused", "unknown"}]
BY DEF HostTypeOK, Returns

LEMMA GivesUpType ==
  ASSUME HostTypeOK, NEW e \in Executes, GivesUp(e)
  PROVE  /\ Over(e, "over") /\ terminate' = TRUE
         /\ returned' = [returned EXCEPT ![e] = "unknown"]
         /\ returned' \in [Executes -> {"none", "ok", "failed", "refused", "unknown"}]
BY DEF HostTypeOK, GivesUp

\* What an action of a call may do, whichever it is.
CallMoves(e) ==
  \/ \E place \in Live : Goes(e, place)
  \/ \E v \in {"ok", "failed", "refused"} : Returns(e, v)
  \/ GivesUp(e)
  \/ Over(e, "dropped") /\ UNCHANGED <<returned, terminate>>
  \/ /\ gate' = e /\ call' = [call EXCEPT ![e] = "ready"]
     /\ UNCHANGED <<returned, stop, inbox, terminate>>
  \/ stop' = stop \cup {e} /\ UNCHANGED <<call, returned, inbox, gate, terminate>>

CallWrites(e) ==
  \/ UNCHANGED toDriver
  \/ \E f \in {Frame("execute", e), Frame("cancel", Cancelling(e)), Torn} :
       toDriver' = Append(toDriver, f)

LEMMA CallShape ==
  ASSUME HostTypeOK, NEW e \in Executes, CallStep(e) \/ DropCall(e) \/ CancelContext(e)
  PROVE  /\ CallMoves(e) /\ CallWrites(e)
         /\ requests' \in SUBSET (requests \cup {e, Cancelling(e)})
         /\ UNCHANGED rest
<1>1. CASE Start(e)
  BY <1>1 DEF Start, CallMoves, CallWrites, Live
<1>2. CASE EnterGate(e)
  BY <1>2 DEF EnterGate, CallMoves, CallWrites
<1>3. CASE EnterTable(e)
  BY <1>3 DEF EnterTable, CallMoves, CallWrites, Live
<1>4. CASE Write(e)
  BY <1>4 DEF Write, CallMoves, CallWrites, Live, InFlight
<1>5. CASE Conclude(e)
  BY <1>5 DEF Conclude, CallMoves, CallWrites
<1>6. CASE Overdue(e)
  BY <1>6 DEF Overdue, CallMoves, CallWrites
<1>7. CASE HearCancel(e)
  BY <1>7 DEF HearCancel, Ask, CallMoves, CallWrites, Live, InFlight
<1>8. CASE HearAcknowledgement(e)
  BY <1>8 DEF HearAcknowledgement, CallMoves, CallWrites, Live, InFlight
<1>9. CASE PatienceEnds(e)
  BY <1>9 DEF PatienceEnds, CallMoves, CallWrites
<1>10. CASE DropCall(e)
  BY <1>10 DEF DropCall, KeptWithout, CallMoves, CallWrites
<1>11. CASE CancelContext(e)
  BY <1>11 DEF CancelContext, CallMoves, CallWrites
<1> QED
  BY <1>1, <1>2, <1>3, <1>4, <1>5, <1>6, <1>7, <1>8, <1>9, <1>10, <1>11 DEF CallStep

LEMMA CallTypeStep ==
  ASSUME LinkTypeOK, NEW e \in Executes, CallStep(e) \/ DropCall(e) \/ CancelContext(e)
  PROVE  LinkTypeOK'
<1>1. HostTypeOK /\ PipesTypeOK
  BY DEF LinkTypeOK
<1>2. /\ CallMoves(e) /\ CallWrites(e) /\ requests' \in SUBSET (requests \cup {e, Cancelling(e)})
      /\ UNCHANGED rest
  BY <1>1, CallShape
<1>3. toDriver' \in Seq(DriverFrames)
  <2>1. CASE UNCHANGED toDriver
    BY <1>1, <2>1 DEF PipesTypeOK
  <2>2. CASE \E f \in {Frame("execute", e), Frame("cancel", Cancelling(e)), Torn} :
               toDriver' = Append(toDriver, f)
    BY <1>1, <2>2, FrameTypes, PipeAppend DEF PipesTypeOK
  <2> QED
    BY <1>2, <2>1, <2>2 DEF CallWrites
<1>4. /\ call' \in [Executes -> CallPlaces] /\ stop' \subseteq Executes
      /\ returned' \in [Executes -> {"none", "ok", "failed", "refused", "unknown"}]
      /\ inbox' \in [Ids -> Answers] /\ gate' \in Executes \cup {Nobody}
      /\ terminate' \in BOOLEAN
  <2>1. CASE \E place \in Live : Goes(e, place)
    BY <1>1, <2>1, GoesType DEF HostTypeOK, PipesTypeOK, Answers
  <2>2. CASE \E v \in {"ok", "failed", "refused"} : Returns(e, v)
    BY <1>1, <2>2, ReturnsType, OverType DEF PipesTypeOK
  <2>3. CASE GivesUp(e)
    BY <1>1, <2>3, GivesUpType, OverType
  <2>4. CASE Over(e, "dropped") /\ UNCHANGED <<returned, terminate>>
    BY <1>1, <2>4, OverType DEF HostTypeOK, PipesTypeOK
  <2>5. CASE /\ gate' = e /\ call' = [call EXCEPT ![e] = "ready"]
             /\ UNCHANGED <<returned, stop, inbox, terminate>>
    BY <1>1, <2>5 DEF HostTypeOK, PipesTypeOK, CallPlaces, Live, Answers
  <2>6. CASE stop' = stop \cup {e} /\ UNCHANGED <<call, returned, inbox, gate, terminate>>
    BY <1>1, <2>6 DEF HostTypeOK, PipesTypeOK, CallPlaces, Answers
  <2> QED
    BY <1>2, <2>1, <2>2, <2>3, <2>4, <2>5, <2>6 DEF CallMoves
<1>5. requests' \subseteq Ids
  BY <1>1, <1>2, IdsDiffer DEF HostTypeOK
<1>6. HostTypeOK'
  BY <1>1, <1>2, <1>4, <1>5 DEF HostTypeOK, CallPlaces, Answers, rest
<1>7. PipesTypeOK'
  BY <1>1, <1>2, <1>3, <1>4 DEF PipesTypeOK, rest, manifest, process
<1> QED
  BY <1>6, <1>7 DEF LinkTypeOK

LEMMA DiesType ==
  ASSUME PipesTypeOK, Dies
  PROVE  /\ toDriver' = <<>> /\ toDriver' \in Seq(DriverFrames) /\ child' = "dead"
         /\ job' \in [Tasks -> {"none", "queued", "running", "done", "erred", "aborted"}]
         /\ \A i \in Tasks : job'[i] = IF job[i] \in Working THEN "aborted" ELSE job[i]
         /\ lock' \in Tasks \cup {Nobody}
<1>1. toDriver' \in Seq(DriverFrames)
  BY PipeEmpty DEF Dies
<1> QED
  BY <1>1 DEF Dies, JobsAborted, PipesTypeOK, Working

\* A request that is entered and written at once.
LEMMA AskType ==
  ASSUME LinkTypeOK, NEW i \in Ids, NEW k, Frame(k, i) \in DriverFrames, Ask(i, k)
  PROVE  toDriver' \in Seq(DriverFrames) /\ requests' \subseteq Ids
BY PipeAppend DEF Ask, LinkTypeOK, HostTypeOK, PipesTypeOK

LEMMA HostTypeStep == LinkTypeOK /\ HostStep => LinkTypeOK'
<1> SUFFICES ASSUME LinkTypeOK, HostStep
             PROVE  LinkTypeOK'
  OBVIOUS
<1> USE DEF LinkTypeOK
<1>1. ASSUME NEW v \in Checks, BeginCheck(v)
      PROVE  LinkTypeOK'
  <2>1. toDriver' \in Seq(DriverFrames) /\ requests' \subseteq Ids
    <3>1. CASE Ask(v, "check")
      BY <3>1, AskType, FrameTypes, IdsDiffer
    <3>2. CASE UNCHANGED <<requests, toDriver>>
      BY <3>2 DEF HostTypeOK, PipesTypeOK
    <3> QED
      BY <1>1, <3>1, <3>2 DEF BeginCheck
  <2>2. /\ UNCHANGED <<manifest, call, returned, stop, closing, gate, inbox, fate, toHost, process>>
        /\ check' \in [Checks -> {"idle", "waiting", "answered", "failed", "forgotten", "dropped"}]
    BY <1>1 DEF BeginCheck, HostTypeOK
  <2>3. HostTypeOK'
    BY <2>1, <2>2 DEF HostTypeOK
  <2> QED
    BY <2>1, <2>2, <2>3 DEF PipesTypeOK, manifest, fate, process
<1>2. ASSUME NEW v \in Checks, EndCheck(v)
      PROVE  LinkTypeOK'
  <2>1. HostTypeOK'
    BY <1>2 DEF EndCheck, HostTypeOK
  <2> QED
    BY <1>2, <2>1 DEF EndCheck, PipesTypeOK, manifest, fate, process
<1>3. CASE BeginShutdown
  <2>1. toDriver' \in Seq(DriverFrames) /\ requests' \subseteq Ids
    <3>1. CASE Ask(Bye, "shutdown")
      BY <3>1, AskType, FrameTypes, IdsDiffer
    <3>2. CASE UNCHANGED <<requests, toDriver>>
      BY <3>2 DEF HostTypeOK, PipesTypeOK
    <3> QED
      BY <1>3, <3>1, <3>2 DEF BeginShutdown
  <2>2. HostTypeOK'
    BY <1>3, <2>1 DEF BeginShutdown, HostTypeOK
  <2> QED
    BY <1>3, <2>1, <2>2 DEF BeginShutdown, PipesTypeOK, manifest, fate, process
<1>4. CASE EndShutdown
  <2>1. HostTypeOK'
    BY <1>4 DEF EndShutdown, HostTypeOK
  <2> QED
    BY <1>4, <2>1 DEF EndShutdown, PipesTypeOK, manifest, process
<1>5. CASE DropProvider
  <2>1. HostTypeOK'
    BY <1>5 DEF DropProvider, HostTypeOK, table
  <2> QED
    BY <1>5, <2>1 DEF DropProvider, PipesTypeOK, manifest, process
<1>6. CASE ReadFrame
  <2>1. UNCHANGED <<manifest, host, toDriver, process>>
    BY <1>6 DEF ReadFrame
  <2>2. CASE ReaderBreaks /\ UNCHANGED table
    <3>1. toHost' \in Seq(HostFrames)
      BY <2>2, PipeEmpty DEF ReaderBreaks
    <3>2. HostTypeOK'
      BY <2>1, <2>2 DEF HostTypeOK, host, table
    <3> QED
      BY <2>1, <2>2, <3>1, <3>2 DEF ReaderBreaks, PipesTypeOK, manifest, process
  <2>3. ASSUME NEW f, f = Head(toHost), toHost # <<>>, requests' = requests \ {f.id},
               inbox' = [inbox EXCEPT ![f.id] = IF Listens(f.id) THEN f.kind ELSE "none"],
               toHost' = Tail(toHost), UNCHANGED fate
        PROVE  LinkTypeOK'
    <3>1. toHost' \in Seq(HostFrames) /\ f \in HostFrames
      BY <2>3, PipeTail DEF PipesTypeOK
    <3>2. f.kind \in {"result", "failure", "checked", "cancelled", "shutdown"} /\ f.id \in Ids
      BY <3>1, HostFrameKinds
    <3>3. HostTypeOK'
      BY <2>1, <2>3, <3>2 DEF HostTypeOK, host
    <3> QED
      BY <2>1, <2>3, <3>1, <3>3 DEF PipesTypeOK, manifest, fate, process
  <2> QED
    BY <1>6, <2>2, <2>3 DEF ReadFrame
<1>7. CASE Drain
  <2>1. HostTypeOK'
    BY <1>7 DEF Drain, HostTypeOK, host
  <2> QED
    BY <1>7, <2>1 DEF Drain, PipesTypeOK, manifest, process
<1>8. CASE Kill \/ NoticeExit
  <2>1. HostTypeOK'
    BY <1>8 DEF Kill, NoticeExit, HostTypeOK, host, table
  <2>2. CASE Kill
    BY <2>1, <2>2, DiesType DEF Kill, PipesTypeOK, manifest, fate
  <2>3. CASE NoticeExit
    BY <2>1, <2>3 DEF NoticeExit, PipesTypeOK, manifest, process
  <2> QED
    BY <1>8, <2>2, <2>3
<1> QED
  BY <1>1, <1>2, <1>3, <1>4, <1>5, <1>6, <1>7, <1>8 DEF HostStep

LEMMA DriverTypeStep == LinkTypeOK /\ DriverStep => LinkTypeOK'
<1> SUFFICES ASSUME LinkTypeOK, DriverStep
             PROVE  LinkTypeOK'
  OBVIOUS
<1> USE DEF LinkTypeOK
<1>0. UNCHANGED <<manifest, host, table, fate>>
  BY DEF DriverStep, Serve, Exit, BeginJob, EndJob
<1>1. HostTypeOK'
  BY <1>0 DEF HostTypeOK, host, table
<1>2. CASE Serve
  <2>1. PICK f : f = Head(toDriver)
    OBVIOUS
  <2>2. toDriver # <<>> /\ f \in DriverFrames /\ Tail(toDriver) \in Seq(DriverFrames)
    BY <1>2, <2>1, PipeTail DEF Serve, PipesTypeOK
  <2>3. CASE f.kind \in {"execute", "check"}
    <3>1. f.id \in Tasks
      BY <2>2, <2>3, DriverFrameKinds DEF Tasks
    <3>2. /\ job' = [job EXCEPT ![f.id] = "queued"] /\ toDriver' = Tail(toDriver)
          /\ UNCHANGED <<toHost, child, lock>>
      BY <1>2, <2>1, <2>3 DEF Serve
    <3> QED
      BY <1>0, <1>1, <2>2, <3>1, <3>2 DEF PipesTypeOK, manifest, fate
  <2>4. CASE f.kind = "cancel"
    <3>1. Frame("cancelled", f.id) \in HostFrames
      BY <2>2, <2>4, DriverFrameKinds, FrameTypes
    <3>2. /\ toHost' = Append(toHost, Frame("cancelled", f.id)) /\ toDriver' = Tail(toDriver)
          /\ UNCHANGED <<job, child, lock>>
      BY <1>2, <2>1, <2>4 DEF Serve, Say
    <3> QED
      BY <1>0, <1>1, <2>2, <3>1, <3>2, PipeAppend DEF PipesTypeOK, manifest, fate
  <2>5. CASE f.kind = "shutdown"
    <3>1. Frame("shutdown", f.id) \in HostFrames
      BY <2>2, <2>5, DriverFrameKinds, FrameTypes
    <3>2. /\ toHost' = Append(toHost, Frame("shutdown", f.id)) /\ toDriver' = Tail(toDriver)
          /\ job' = JobsAborted /\ lock' = Nobody /\ child' = "leaving"
      BY <1>2, <2>1, <2>5 DEF Serve, Say
    <3> QED
      BY <1>0, <1>1, <2>2, <3>1, <3>2, PipeAppend DEF PipesTypeOK, manifest, fate, JobsAborted
  <2>6. CASE f.kind = "torn"
    <3>1. Dies /\ UNCHANGED toHost
      BY <1>2, <2>1, <2>6 DEF Serve
    <3> QED
      BY <1>0, <1>1, <3>1, DiesType DEF PipesTypeOK, manifest, fate
  <2> QED
    BY <2>2, <2>3, <2>4, <2>5, <2>6, DriverFrameKinds
<1>3. CASE Exit
  BY <1>0, <1>1, <1>3, DiesType DEF Exit, PipesTypeOK, manifest, fate
<1>4. ASSUME NEW i \in Tasks, BeginJob(i)
      PROVE  LinkTypeOK'
  BY <1>0, <1>1, <1>4 DEF BeginJob, PipesTypeOK, manifest, fate
<1>5. ASSUME NEW i \in Tasks, EndJob(i)
      PROVE  LinkTypeOK'
  <2>1. toHost' \in Seq(HostFrames)
    <3>1. \E k \in {"result", "failure", "checked"} :
            Frame(k, i) \in HostFrames /\ toHost' = Append(toHost, Frame(k, i))
      BY <1>5, FrameTypes DEF EndJob, Say, Tasks
    <3> QED
      BY <3>1, PipeAppend DEF PipesTypeOK
  <2> QED
    BY <1>0, <1>1, <1>5, <2>1 DEF EndJob, PipesTypeOK, manifest, fate
<1> QED
  BY <1>2, <1>3, <1>4, <1>5 DEF DriverStep, Tasks

LEMMA LinkTypeStep == LinkTypeOK /\ [LinkNext]_linkVars => LinkTypeOK'
<1> SUFFICES ASSUME LinkTypeOK, [LinkNext]_linkVars
             PROVE  LinkTypeOK'
  OBVIOUS
<1>1. CASE UNCHANGED linkVars
  BY <1>1 DEF LinkTypeOK, HostTypeOK, PipesTypeOK, linkVars
<1>2. ASSUME NEW e \in Executes, CallStep(e) \/ DropCall(e) \/ CancelContext(e)
      PROVE  LinkTypeOK'
  BY <1>2, CallTypeStep
<1> QED
  BY <1>1, <1>2, HostTypeStep, DriverTypeStep DEF LinkNext

-----------------------------------------------------------------------------
(* What an action of a call does to the rest of the link. *)

\* Its place moves on; the others' calls and channels stay.
CallPlace(e) ==
  /\ \A f \in Executes \ {e} : /\ call'[f] = call[f] /\ returned'[f] = returned[f]
                               /\ inbox'[f] = inbox[f]
  /\ inbox'[e] \in {inbox[e], "none"}
  /\ call[e] # "over" /\ (call'[e] \in Unwritten => call[e] \in Unwritten)
  /\ call'[e] = "waiting" => call[e] \in Unwritten \cup {"waiting"}
  /\ call'[e] = "entered" => call[e] = "entered" \/ e \in requests'

\* It goes on, returns what it received, or gives up.
CallEnd(e) ==
  \/ /\ UNCHANGED <<returned, terminate>> /\ call'[e] # "over"
     /\ requests \subseteq requests'
  \/ /\ call'[e] = "over" /\ UNCHANGED <<terminate, requests>>
     /\ \/ returned'[e] = "ok" /\ inbox[e] = "result"
        \/ returned'[e] = "failed" /\ inbox[e] = "failure"
        \/ returned'[e] = "refused" /\ call[e] \in Unwritten /\ UNCHANGED toDriver
  \/ call'[e] = "over" /\ terminate' = TRUE /\ returned'[e] = "unknown"

\* It writes its request, its cancellation, or a part of a frame.
CallOutput(e) ==
  \/ UNCHANGED toDriver
  \/ /\ call[e] = "entered" /\ call'[e] = "waiting" /\ requests \subseteq requests'
     /\ toDriver' = Append(toDriver, Frame("execute", e))
  \/ /\ call[e] = "waiting" /\ call'[e] = "cancelling"
     /\ Cancelling(e) \in requests' /\ requests \subseteq requests'
     /\ toDriver' = Append(toDriver, Frame("cancel", Cancelling(e)))
  \/ toDriver' = Append(toDriver, Torn)

CallEffect(e) == CallPlace(e) /\ CallEnd(e) /\ CallOutput(e) /\ UNCHANGED rest

LEMMA GoesEffect ==
  ASSUME HostTypeOK, NEW e \in Executes, NEW place \in Live, Goes(e, place)
  PROVE  /\ UNCHANGED <<returned, inbox, terminate>> /\ call'[e] = place
         /\ \A f \in Executes \ {e} : call'[f] = call[f]
BY GoesType DEF HostTypeOK

LEMMA OverEffect ==
  ASSUME HostTypeOK, NEW e \in Executes, NEW place \in {"over", "dropped"}, Over(e, place)
  PROVE  /\ call'[e] = place /\ inbox'[e] = "none"
         /\ \A f \in Executes \ {e} : call'[f] = call[f] /\ inbox'[f] = inbox[f]
<1>1. /\ call' = [call EXCEPT ![e] = place]
      /\ inbox' = [inbox EXCEPT ![e] = "none", ![Cancelling(e)] = "none"]
  BY OverType
<1>2. \A f \in Executes : f # Cancelling(e) /\ f \in DOMAIN inbox
  BY IdsDiffer DEF HostTypeOK, Tasks
<1> QED
  BY <1>1, <1>2 DEF HostTypeOK

LEMMA ReturnsEffect ==
  ASSUME HostTypeOK, NEW e \in Executes, NEW v \in {"ok", "failed", "refused"}, Returns(e, v)
  PROVE  /\ call'[e] = "over" /\ returned'[e] = v /\ UNCHANGED terminate
         /\ inbox'[e] = "none"
         /\ \A f \in Executes \ {e} : /\ call'[f] = call[f] /\ returned'[f] = returned[f]
                                      /\ inbox'[f] = inbox[f]
BY ReturnsType, OverEffect DEF HostTypeOK

LEMMA GivesUpEffect ==
  ASSUME HostTypeOK, NEW e \in Executes, GivesUp(e)
  PROVE  /\ call'[e] = "over" /\ returned'[e] = "unknown" /\ terminate' = TRUE
         /\ inbox'[e] = "none"
         /\ \A f \in Executes \ {e} : /\ call'[f] = call[f] /\ returned'[f] = returned[f]
                                      /\ inbox'[f] = inbox[f]
<1>1. /\ Over(e, "over") /\ terminate' = TRUE
      /\ returned' = [returned EXCEPT ![e] = "unknown"]
  BY GivesUpType
<1>2. /\ returned'[e] = "unknown"
      /\ \A f \in Executes \ {e} : returned'[f] = returned[f]
  BY <1>1 DEF HostTypeOK
<1>3. /\ call'[e] = "over" /\ inbox'[e] = "none"
      /\ \A f \in Executes \ {e} : call'[f] = call[f] /\ inbox'[f] = inbox[f]
  BY <1>1, OverEffect
<1> QED
  BY <1>1, <1>2, <1>3

LEMMA CallHasEffect ==
  ASSUME HostTypeOK, NEW e \in Executes, CallStep(e) \/ DropCall(e) \/ CancelContext(e)
  PROVE  CallEffect(e)
<1> USE DEF CallEffect
<1>u. UNCHANGED rest
  BY CallShape
<1>g. ASSUME GivesUp(e), UNCHANGED toDriver, call[e] # "over"
      PROVE  CallEffect(e)
  BY <1>u, <1>g, GivesUpEffect DEF CallPlace, CallEnd, CallOutput, Unwritten
<1>1. CASE Start(e)
  <2>1. call[e] = "idle" /\ UNCHANGED <<requests, toDriver>>
    BY <1>1 DEF Start
  <2>2. CASE Returns(e, "refused")
    BY <1>u, <2>1, <2>2, ReturnsEffect DEF CallPlace, CallEnd, CallOutput, Unwritten
  <2>3. CASE Goes(e, "checked") \/ Goes(e, "ready")
    BY <1>u, <2>1, <2>3, GoesEffect DEF CallPlace, CallEnd, CallOutput, Unwritten, Live
  <2> QED
    BY <1>1, <2>2, <2>3 DEF Start
<1>2. CASE EnterGate(e)
  <2>1. call[e] = "checked" /\ UNCHANGED <<requests, toDriver>>
    BY <1>2 DEF EnterGate
  <2>2. CASE Returns(e, "refused")
    BY <1>u, <2>1, <2>2, ReturnsEffect DEF CallPlace, CallEnd, CallOutput, Unwritten
  <2>3. CASE /\ call' = [call EXCEPT ![e] = "ready"] /\ UNCHANGED <<returned, inbox, terminate>>
    BY <1>u, <2>1, <2>3 DEF CallPlace, CallEnd, CallOutput, Unwritten, HostTypeOK
  <2> QED
    BY <1>2, <2>2, <2>3 DEF EnterGate
<1>3. CASE EnterTable(e)
  <2>1. call[e] = "ready" /\ UNCHANGED toDriver
    BY <1>3 DEF EnterTable
  <2>2. CASE Goes(e, "entered") /\ requests' = requests \cup {e}
    BY <1>u, <2>1, <2>2, GoesEffect DEF CallPlace, CallEnd, CallOutput, Unwritten, Live
  <2> QED
    BY <1>3, <1>g, <2>1, <2>2 DEF EnterTable
<1>4. CASE Write(e)
  <2>1. call[e] = "entered"
    BY <1>4 DEF Write
  <2>2. CASE /\ Goes(e, "waiting") /\ UNCHANGED requests
             /\ toDriver' = Append(toDriver, Frame("execute", e))
    BY <1>u, <2>1, <2>2, GoesEffect DEF CallPlace, CallEnd, CallOutput, Unwritten, Live, InFlight
  <2> QED
    BY <1>4, <1>g, <2>1, <2>2 DEF Write
<1>5. CASE Conclude(e)
  <2>1. call[e] \in {"waiting", "draining"} /\ UNCHANGED <<requests, toDriver>>
    BY <1>5 DEF Conclude
  <2>2. CASE \/ inbox[e] = "result" /\ Returns(e, "ok")
             \/ inbox[e] = "failure" /\ Returns(e, "failed")
    BY <1>u, <2>1, <2>2, ReturnsEffect DEF CallPlace, CallEnd, CallOutput, Unwritten
  <2> QED
    BY <1>5, <1>g, <2>1, <2>2 DEF Conclude
<1>6. CASE Overdue(e)
  BY <1>6, <1>g DEF Overdue, InFlight
<1>7. CASE HearCancel(e)
  <2>1. call[e] = "waiting"
    BY <1>7 DEF HearCancel
  <2>2. CASE Ask(Cancelling(e), "cancel") /\ Goes(e, "cancelling")
    BY <1>u, <2>1, <2>2, GoesEffect
       DEF Ask, CallPlace, CallEnd, CallOutput, Unwritten, Live, InFlight
  <2> QED
    BY <1>7, <1>g, <2>1, <2>2 DEF HearCancel
<1>8. CASE HearAcknowledgement(e)
  <2>1. call[e] = "cancelling" /\ UNCHANGED toDriver
    BY <1>8 DEF HearAcknowledgement
  <2>2. CASE Goes(e, "draining") /\ UNCHANGED requests
    BY <1>u, <2>1, <2>2, GoesEffect DEF CallPlace, CallEnd, CallOutput, Unwritten, Live, InFlight
  <2> QED
    BY <1>8, <1>g, <2>1, <2>2 DEF HearAcknowledgement
<1>9. CASE PatienceEnds(e)
  BY <1>9, <1>g DEF PatienceEnds
<1>10. CASE DropCall(e)
  <2>1. /\ call[e] \in Live /\ Over(e, "dropped") /\ requests' = requests
        /\ UNCHANGED <<returned, terminate>>
        /\ UNCHANGED toDriver \/ toDriver' = Append(toDriver, Torn)
    BY <1>10 DEF DropCall, KeptWithout
  <2> QED
    BY <1>u, <2>1, OverEffect DEF CallPlace, CallEnd, CallOutput, Unwritten, Live, InFlight
<1>11. CASE CancelContext(e)
  BY <1>u, <1>11 DEF CancelContext, CallPlace, CallEnd, CallOutput, Unwritten
<1> QED
  BY <1>1, <1>2, <1>3, <1>4, <1>5, <1>6, <1>7, <1>8, <1>9, <1>10, <1>11 DEF CallStep

-----------------------------------------------------------------------------
(* A request is in one place. *)

\* Nothing moves, and nothing is unwritten again.
LEMMA TrafficStays ==
  ASSUME TrafficInv, UNCHANGED <<toDriver, toHost, job>>,
         \A e \in Executes : call'[e] \in Unwritten => call[e] \in Unwritten,
         \A e \in Executes : call'[e] \in Unwritten \cup {"waiting"}
                             => call[e] \in Unwritten \cup {"waiting"},
         \A v \in Checks : check'[v] = "idle" => check[v] = "idle",
         closing' = "no" => closing = "no"
  PROVE  TrafficInv'
BY DEF TrafficInv

\* The driver's end of the pipes: what it reads is gone from the one, what it says was not
\* in the other.
LEMMA TrafficServed ==
  ASSUME TrafficInv, UNCHANGED <<call, check, closing>>,
         Once(toDriver'), Once(toHost'),
         Carried(toDriver') \subseteq Carried(toDriver),
         Carried(toHost') \subseteq Carried(toHost) \cup Carried(toDriver),
         Carried(toDriver') \cap Carried(toHost') = {},
         \A i \in Tasks : /\ job'[i] # "none" => i \notin Carried(toDriver')
                          /\ job'[i] \in Working \cup {"none"} => i \notin Carried(toHost')
                          /\ job'[i] # job[i] => job[i] # "none" \/ i \in Carried(toDriver)
  PROVE  TrafficInv'
<1>1. \A e \in Executes :
        /\ call'[e] \in Unwritten => job'[e] = "none" /\ e \notin Carried(toDriver')
        /\ call'[e] \in Unwritten \cup {"waiting"} =>
             Cancelling(e) \notin Carried(toDriver') \cup Carried(toHost')
  BY DEF TrafficInv, Tasks
<1>2. \A v \in Checks : check'[v] = "idle" => job'[v] = "none" /\ v \notin Carried(toDriver')
  BY DEF TrafficInv, Tasks
<1>3. closing' = "no" => Bye \notin Carried(toDriver') \cup Carried(toHost')
  BY DEF TrafficInv
<1> QED
  BY <1>1, <1>2, <1>3 DEF TrafficInv

LEMMA TrafficCall ==
  ASSUME LinkTypeOK, TrafficInv, NEW e \in Executes, CallEffect(e)
  PROVE  TrafficInv'
<1>1. /\ UNCHANGED <<check, closing, toHost, job>> /\ toDriver \in Seq(DriverFrames)
      /\ \A f \in Executes \ {e} : call'[f] = call[f]
      /\ call'[e] \in Unwritten => call[e] \in Unwritten
      /\ call'[e] = "waiting" => call[e] \in Unwritten \cup {"waiting"}
  BY DEF CallEffect, CallPlace, rest, process, LinkTypeOK, PipesTypeOK
<1>2. CASE UNCHANGED toDriver
  BY <1>1, <1>2, TrafficStays
<1>3. CASE /\ call[e] = "entered" /\ call'[e] = "waiting"
           /\ toDriver' = Append(toDriver, Frame("execute", e))
  <2>1. job[e] = "none" /\ e \notin Carried(toDriver) /\ e \notin Carried(toHost)
    BY <1>3 DEF TrafficInv, Unwritten, Tasks, Working
  <2>2. Carried(toDriver') = Carried(toDriver) \cup {e} /\ Once(toDriver')
    BY <1>1, <1>3, <2>1, FrameTypes, PipeAppend DEF TrafficInv
  <2> QED
    BY <1>1, <1>3, <2>1, <2>2, IdsDiffer DEF TrafficInv, Unwritten, Tasks
<1>4. CASE /\ call[e] = "waiting" /\ call'[e] = "cancelling"
           /\ toDriver' = Append(toDriver, Frame("cancel", Cancelling(e)))
  <2>1. Cancelling(e) \notin Carried(toDriver) \cup Carried(toHost)
    BY <1>4 DEF TrafficInv
  <2>2. Carried(toDriver') = Carried(toDriver) \cup {Cancelling(e)} /\ Once(toDriver')
    BY <1>1, <1>4, <2>1, FrameTypes, PipeAppend DEF TrafficInv
  <2> QED
    BY <1>1, <1>4, <2>1, <2>2, IdsDiffer DEF TrafficInv, Unwritten, Tasks
<1>5. CASE toDriver' = Append(toDriver, Torn)
  <2>1. Carried(toDriver') = Carried(toDriver) /\ Once(toDriver')
    BY <1>1, <1>5, FrameTypes, PipeAppend DEF TrafficInv
  <2> QED
    BY <1>1, <2>1 DEF TrafficInv
<1> QED
  BY <1>2, <1>3, <1>4, <1>5 DEF CallEffect, CallOutput

LEMMA TrafficHost ==
  ASSUME LinkTypeOK, TrafficInv, HostStep
  PROVE  TrafficInv'
<1> USE DEF LinkTypeOK
<1>1. ASSUME NEW v \in Checks, BeginCheck(v)
      PROVE  TrafficInv'
  <2>1. /\ UNCHANGED <<call, closing, toHost, job>> /\ check[v] = "idle" /\ check'[v] # "idle"
        /\ \A w \in Checks \ {v} : check'[w] = check[w]
    BY <1>1 DEF BeginCheck, process, HostTypeOK
  <2>2. CASE UNCHANGED toDriver
    BY <2>1, <2>2, TrafficStays
  <2>3. CASE toDriver' = Append(toDriver, Frame("check", v))
    <3>1. job[v] = "none" /\ v \notin Carried(toDriver) /\ v \notin Carried(toHost)
      BY <2>1 DEF TrafficInv, Tasks, Working
    <3>2. Carried(toDriver') = Carried(toDriver) \cup {v} /\ Once(toDriver')
      BY <2>3, <3>1, FrameTypes, PipeAppend DEF TrafficInv, PipesTypeOK
    <3> QED
      BY <2>1, <3>1, <3>2, IdsDiffer DEF TrafficInv, Tasks
  <2> QED
    BY <1>1, <2>2, <2>3 DEF BeginCheck, Ask
<1>2. ASSUME NEW v \in Checks, EndCheck(v)
      PROVE  TrafficInv'
  <2>1. \A w \in Checks : check'[w] = "idle" => check[w] = "idle"
    BY <1>2 DEF EndCheck, HostTypeOK
  <2> QED
    BY <1>2, <2>1, TrafficStays DEF EndCheck, process
<1>3. CASE BeginShutdown
  <2>1. UNCHANGED <<call, check, toHost, job>> /\ closing = "no" /\ closing' # "no"
    BY <1>3 DEF BeginShutdown, process
  <2>2. CASE UNCHANGED toDriver
    BY <2>1, <2>2, TrafficStays
  <2>3. CASE toDriver' = Append(toDriver, Frame("shutdown", Bye))
    <3>1. Bye \notin Carried(toDriver) \cup Carried(toHost)
      BY <2>1 DEF TrafficInv
    <3>2. Carried(toDriver') = Carried(toDriver) \cup {Bye} /\ Once(toDriver')
      BY <2>3, <3>1, FrameTypes, PipeAppend DEF TrafficInv, PipesTypeOK
    <3> QED
      BY <2>1, <3>1, <3>2, IdsDiffer DEF TrafficInv, Tasks
  <2> QED
    BY <1>3, <2>2, <2>3 DEF BeginShutdown, Ask
<1>4. CASE EndShutdown
  BY <1>4, TrafficStays DEF EndShutdown, process
<1>5. CASE DropProvider
  BY <1>5, TrafficStays DEF DropProvider, process
<1>6. CASE ReadFrame
  <2>1. UNCHANGED <<call, check, closing, toDriver, job>>
    BY <1>6 DEF ReadFrame, host, process
  <2>2. Once(toHost') /\ Carried(toHost') \subseteq Carried(toHost)
    <3>1. CASE toHost' = <<>>
      BY <3>1, PipeEmpty
    <3>2. CASE toHost # <<>> /\ toHost' = Tail(toHost)
      BY <3>2, PipeTail DEF TrafficInv, PipesTypeOK
    <3> QED
      BY <1>6, <3>1, <3>2 DEF ReadFrame, ReaderBreaks
  <2> QED
    BY <2>1, <2>2, TrafficServed DEF TrafficInv
<1>7. CASE Drain \/ NoticeExit
  BY <1>7, TrafficStays DEF Drain, NoticeExit, host, process
<1>8. CASE Kill
  <2>1. UNCHANGED <<call, check, closing, toHost>> /\ Dies
    BY <1>8 DEF Kill, host
  <2> QED
    BY <2>1, DiesType, PipeEmpty, TrafficServed DEF TrafficInv, Working
<1> QED
  BY <1>1, <1>2, <1>3, <1>4, <1>5, <1>6, <1>7, <1>8 DEF HostStep

\* The driver takes a frame.
LEMMA TrafficTaken ==
  ASSUME LinkTypeOK, TrafficInv, Serve
  PROVE  TrafficInv'
<1>1. PICK f : f = Head(toDriver)
  OBVIOUS
<1>2. /\ toDriver \in Seq(DriverFrames) /\ toDriver # <<>> /\ toHost \in Seq(HostFrames)
      /\ UNCHANGED <<call, check, closing>> /\ Once(toDriver) /\ Once(toHost)
  BY DEF Serve, host, LinkTypeOK, PipesTypeOK, TrafficInv
<1>3. /\ f \in DriverFrames /\ Carried(Tail(toDriver)) \subseteq Carried(toDriver)
      /\ Once(Tail(toDriver))
      /\ f.kind # "torn" => f.id \in Carried(toDriver) /\ f.id \notin Carried(Tail(toDriver))
  BY <1>1, <1>2, PipeTail
<1>4. CASE f.kind \in {"execute", "check"}
  <2>1. /\ job' = [job EXCEPT ![f.id] = "queued"] /\ toDriver' = Tail(toDriver)
        /\ UNCHANGED toHost
    BY <1>1, <1>4 DEF Serve
  <2>2. f.id \in Tasks /\ \A i \in Tasks : job'[i] = IF i = f.id THEN "queued" ELSE job[i]
    BY <1>3, <1>4, <2>1, DriverFrameKinds DEF Tasks, LinkTypeOK, PipesTypeOK
  <2> QED
    BY <1>2, <1>3, <1>4, <2>1, <2>2, TrafficServed DEF TrafficInv, Working
<1>5. CASE f.kind \in {"cancel", "shutdown"}
  <2>1. /\ toDriver' = Tail(toDriver)
        /\ \E k \in {"cancelled", "shutdown"} :
             toHost' = Append(toHost, Frame(k, f.id)) /\ Frame(k, f.id) \in HostFrames
    <3>1. CASE f.kind = "cancel"
      <4>1. Frame("cancelled", f.id) \in HostFrames
        BY <1>3, <3>1, DriverFrameKinds, FrameTypes
      <4> QED
        BY <1>1, <3>1, <4>1 DEF Serve, Say
    <3>2. CASE f.kind = "shutdown"
      <4>1. Frame("shutdown", f.id) \in HostFrames
        BY <1>3, <3>2, DriverFrameKinds, FrameTypes
      <4> QED
        BY <1>1, <3>2, <4>1 DEF Serve, Say
    <3> QED
      BY <1>5, <3>1, <3>2
  <2>2. f.id \in Carried(toDriver) /\ f.id \notin Carried(toHost) /\ f.id \notin Tasks
    BY <1>3, <1>5, DriverFrameKinds, IdsDiffer DEF TrafficInv
  <2>3. Carried(toHost') = Carried(toHost) \cup {f.id} /\ Once(toHost')
    BY <1>2, <2>1, <2>2, FrameTypes, PipeAppend
  <2>4. \A i \in Tasks : job'[i] = job[i] \/ (job[i] \in Working /\ job'[i] = "aborted")
    BY <1>1, <1>5 DEF Serve, JobsAborted, LinkTypeOK, PipesTypeOK, Working
  <2>5. \A i \in Tasks : /\ job'[i] # "none" => i \notin Carried(toDriver')
                         /\ job'[i] \in Working \cup {"none"} => i \notin Carried(toHost')
                         /\ job'[i] # job[i] => job[i] # "none" \/ i \in Carried(toDriver)
    BY <1>3, <2>1, <2>2, <2>3, <2>4 DEF TrafficInv, Working
  <2>6. Carried(toDriver') \cap Carried(toHost') = {}
    BY <1>3, <1>5, <2>1, <2>3 DEF TrafficInv
  <2>7. /\ Once(toDriver') /\ Carried(toDriver') \subseteq Carried(toDriver)
        /\ Carried(toHost') \subseteq Carried(toHost) \cup Carried(toDriver)
    BY <1>3, <1>5, <2>1, <2>2, <2>3
  <2> QED
    BY <1>2, <2>3, <2>5, <2>6, <2>7, TrafficServed
<1>6. CASE f.kind = "torn"
  <2>1. Dies /\ UNCHANGED toHost
    BY <1>1, <1>6 DEF Serve
  <2> QED
    BY <1>2, <2>1, DiesType, PipeEmpty, TrafficServed DEF TrafficInv, Working, LinkTypeOK
<1> QED
  BY <1>3, <1>4, <1>5, <1>6, DriverFrameKinds

LEMMA TrafficDriver ==
  ASSUME LinkTypeOK, TrafficInv, DriverStep
  PROVE  TrafficInv'
<1> USE DEF LinkTypeOK
<1>1. UNCHANGED <<call, check, closing>>
  BY DEF DriverStep, Serve, Exit, BeginJob, EndJob, host
<1>2. CASE Exit
  BY <1>1, <1>2, DiesType, PipeEmpty, TrafficServed DEF Exit, TrafficInv, Working
<1>3. ASSUME NEW i \in Tasks, BeginJob(i)
      PROVE  TrafficInv'
  <2>1. UNCHANGED <<toDriver, toHost>>
    BY <1>3 DEF BeginJob
  <2>2. job[i] = "queued" /\ \A k \in Tasks : job'[k] = IF k = i THEN "running" ELSE job[k]
    BY <1>3 DEF BeginJob, PipesTypeOK
  <2> QED
    BY <1>1, <2>1, <2>2, TrafficServed DEF TrafficInv, Working
<1>4. ASSUME NEW i \in Tasks, EndJob(i)
      PROVE  TrafficInv'
  <2>1. PICK k \in {"result", "failure", "checked"} :
          Frame(k, i) \in HostFrames /\ toHost' = Append(toHost, Frame(k, i))
    BY <1>4, FrameTypes DEF EndJob, Say, Tasks
  <2>2. /\ job[i] = "running" /\ UNCHANGED toDriver /\ job'[i] \in {"done", "erred"}
        /\ \A n \in Tasks \ {i} : job'[n] = job[n]
    BY <1>4 DEF EndJob, PipesTypeOK
  <2>3. i \notin Carried(toHost) /\ i \notin Carried(toDriver)
    BY <2>2 DEF TrafficInv, Working
  <2>4. Carried(toHost') = Carried(toHost) \cup {i} /\ Once(toHost')
    BY <2>1, <2>3, FrameTypes, PipeAppend DEF TrafficInv, PipesTypeOK
  <2>5. /\ \A n \in Tasks : /\ job'[n] # "none" => n \notin Carried(toDriver')
                            /\ job'[n] \in Working \cup {"none"} => n \notin Carried(toHost')
        /\ Carried(toDriver') \cap Carried(toHost') = {} /\ Once(toDriver')
    BY <2>2, <2>3, <2>4 DEF TrafficInv, Working
  <2>6. \A e \in Executes : call[e] \in Unwritten => e # i
    BY <2>2 DEF TrafficInv
  <2>7. \A e \in Executes : Cancelling(e) # i
    BY IdsDiffer
  <2>8. Bye # i /\ \A v \in Checks : check[v] = "idle" => v # i
    BY <2>2, IdsDiffer DEF TrafficInv
  <2> QED
    BY <1>1, <2>2, <2>4, <2>5, <2>6, <2>7, <2>8 DEF TrafficInv, Tasks
<1> QED
  BY <1>2, <1>3, <1>4, TrafficTaken DEF DriverStep, Tasks

-----------------------------------------------------------------------------
(* What is read, held and returned is what the driver said. *)

\* The end of a task is not forgotten.
EndsStay == \A i \in Tasks : job[i] \in {"done", "erred"} => job'[i] = job[i]

LEMMA SaidRemains ==
  ASSUME LinkTypeOK, AnswerInv, EndsStay
  PROVE  /\ \A n \in DOMAIN toHost : Says(toHost[n].kind, job'[toHost[n].id])
         /\ \A e \in Executes : Says(inbox[e], job'[e])
<1>1. ASSUME NEW n \in DOMAIN toHost
      PROVE  Says(toHost[n].kind, job'[toHost[n].id])
  <2>1. toHost[n] \in HostFrames
    BY DEF LinkTypeOK, PipesTypeOK
  <2>2. toHost[n].kind \in {"result", "failure"} => toHost[n].id \in Tasks
    BY <2>1, HostFrameKinds DEF Tasks
  <2> QED
    BY <2>2 DEF AnswerInv, Says, EndsStay
<1> QED
  BY <1>1 DEF AnswerInv, Says, EndsStay, Tasks

\* A step that is no call's.
LEMMA AnswersStay ==
  ASSUME LinkTypeOK, AnswerInv, EndsStay, UNCHANGED <<call, returned>>, terminate => terminate',
         \A e \in Executes : job[e] = "none" /\ e \notin Carried(toDriver)
                             => job'[e] = "none" /\ e \notin Carried(toDriver'),
         \A n \in DOMAIN toHost' : Says(toHost'[n].kind, job'[toHost'[n].id]),
         \A e \in Executes : Says(inbox'[e], job'[e])
  PROVE  AnswerInv'
<1>1. ASSUME NEW e \in Executes
      PROVE  /\ returned'[e] = "ok" => job'[e] = "done"
             /\ returned'[e] = "failed" => job'[e] = "erred"
             /\ returned'[e] = "refused" => job'[e] = "none" /\ e \notin Carried(toDriver')
             /\ returned'[e] = "unknown" => terminate'
             /\ call'[e] = "over" <=> returned'[e] # "none"
  BY DEF AnswerInv, EndsStay, Tasks
<1> QED
  BY <1>1 DEF AnswerInv

LEMMA AnswersCall ==
  ASSUME LinkTypeOK, AnswerInv, TrafficInv, NEW e \in Executes, CallEffect(e)
  PROVE  AnswerInv'
<1>1. /\ UNCHANGED <<toHost, job>> /\ CallPlace(e) /\ CallEnd(e) /\ CallOutput(e)
  BY DEF CallEffect, rest, process
<1>2. \A f \in Executes \ {e} : f \notin Carried(toDriver) => f \notin Carried(toDriver')
  <2>1. toDriver \in Seq(DriverFrames)
    BY DEF LinkTypeOK, PipesTypeOK
  <2>2. ASSUME NEW f \in DriverFrames, f.kind # "torn" => f.id \in {e, Cancelling(e)},
               toDriver' = Append(toDriver, f)
        PROVE  Carried(toDriver') \subseteq Carried(toDriver) \cup {e, Cancelling(e)}
    BY <2>1, <2>2, PipeAppend
  <2>3. Carried(toDriver') \subseteq Carried(toDriver) \cup {e, Cancelling(e)}
    <3>1. CASE toDriver' = Append(toDriver, Frame("execute", e))
      BY <2>2, <3>1, FrameTypes
    <3>2. CASE toDriver' = Append(toDriver, Frame("cancel", Cancelling(e)))
      BY <2>2, <3>2, FrameTypes
    <3>3. CASE toDriver' = Append(toDriver, Torn)
      BY <2>2, <3>3, FrameTypes
    <3> QED
      BY <1>1, <3>1, <3>2, <3>3 DEF CallOutput
  <2> QED
    BY <2>3, IdsDiffer DEF Tasks
<1>3. returned[e] = "none"
  BY <1>1 DEF CallPlace, AnswerInv
<1>4. /\ \A n \in DOMAIN toHost' : Says(toHost'[n].kind, job'[toHost'[n].id])
      /\ \A f \in Executes : Says(inbox'[f], job'[f])
  BY <1>1 DEF AnswerInv, CallPlace, Says
<1>5. \A f \in Executes \ {e} :
        /\ returned'[f] = "ok" => job'[f] = "done"
        /\ returned'[f] = "failed" => job'[f] = "erred"
        /\ returned'[f] = "refused" => job'[f] = "none" /\ f \notin Carried(toDriver')
        /\ returned'[f] = "unknown" => terminate'
        /\ call'[f] = "over" <=> returned'[f] # "none"
  <2>1. terminate => terminate'
    BY <1>1 DEF CallEnd
  <2> QED
    BY <1>1, <1>2, <2>1 DEF AnswerInv, CallPlace
<1>6. /\ returned'[e] = "ok" => job'[e] = "done"
      /\ returned'[e] = "failed" => job'[e] = "erred"
      /\ returned'[e] = "refused" => job'[e] = "none" /\ e \notin Carried(toDriver')
      /\ returned'[e] = "unknown" => terminate'
      /\ call'[e] = "over" <=> returned'[e] # "none"
  BY <1>1, <1>3 DEF CallEnd, AnswerInv, TrafficInv, Says
<1> QED
  BY <1>4, <1>5, <1>6 DEF AnswerInv

LEMMA AnswersHost ==
  ASSUME LinkTypeOK, TrafficInv, AnswerInv, HostStep
  PROVE  AnswerInv'
<1> USE DEF LinkTypeOK
<1>q. ASSUME UNCHANGED <<call, returned, inbox, toHost, job>>, terminate => terminate',
             \A e \in Executes : e \notin Carried(toDriver) => e \notin Carried(toDriver')
      PROVE  AnswerInv'
  <2>1. EndsStay
    BY <1>q DEF EndsStay
  <2> QED
    BY <1>q, <2>1, SaidRemains, AnswersStay
<1>1. ASSUME NEW v \in Checks, BeginCheck(v)
      PROVE  AnswerInv'
  <2>1. toDriver' = toDriver \/ toDriver' = Append(toDriver, Frame("check", v))
    BY <1>1 DEF BeginCheck, Ask
  <2>2. Carried(toDriver') \subseteq Carried(toDriver) \cup {v}
    <3>1. PICK f \in DriverFrames : f = Frame("check", v)
      BY FrameTypes
    <3>2. f.kind # "torn" /\ f.id = v /\ toDriver \in Seq(DriverFrames)
      BY <3>1, FrameTypes DEF PipesTypeOK
    <3>3. toDriver' = Append(toDriver, f) => Carried(toDriver') = Carried(toDriver) \cup {v}
      BY <3>2, PipeAppend
    <3> QED
      BY <2>1, <3>1, <3>3
  <2>3. \A e \in Executes : e \notin Carried(toDriver) => e \notin Carried(toDriver')
    BY <2>2, IdsDiffer DEF Tasks
  <2> QED
    BY <1>1, <1>q, <2>3 DEF BeginCheck, process, fate
<1>2. ASSUME NEW v \in Checks, EndCheck(v)
      PROVE  AnswerInv'
  BY <1>2, <1>q DEF EndCheck, process, fate
<1>3. CASE BeginShutdown
  <2>1. toDriver' = toDriver \/ toDriver' = Append(toDriver, Frame("shutdown", Bye))
    BY <1>3 DEF BeginShutdown, Ask
  <2>2. Carried(toDriver') \subseteq Carried(toDriver) \cup {Bye}
    <3>1. PICK f \in DriverFrames : f = Frame("shutdown", Bye)
      BY FrameTypes
    <3>2. f.kind # "torn" /\ f.id = Bye /\ toDriver \in Seq(DriverFrames)
      BY <3>1, FrameTypes DEF PipesTypeOK
    <3>3. toDriver' = Append(toDriver, f) => Carried(toDriver') = Carried(toDriver) \cup {Bye}
      BY <3>2, PipeAppend
    <3> QED
      BY <2>1, <3>1, <3>3
  <2>3. \A e \in Executes : e \notin Carried(toDriver) => e \notin Carried(toDriver')
    BY <2>2, IdsDiffer DEF Tasks
  <2> QED
    BY <1>3, <1>q, <2>3 DEF BeginShutdown, process, fate
<1>4. CASE EndShutdown
  BY <1>4, <1>q DEF EndShutdown, process
<1>5. CASE DropProvider
  BY <1>5, <1>q DEF DropProvider, process, table
<1>6. CASE ReadFrame
  <2>1. UNCHANGED <<call, returned, toDriver, job>> /\ EndsStay /\ (terminate => terminate')
    BY <1>6 DEF ReadFrame, host, process, EndsStay, ReaderBreaks, fate
  <2>2. CASE ReaderBreaks /\ UNCHANGED table
    <3>1. \A n \in DOMAIN toHost' : Says(toHost'[n].kind, job'[toHost'[n].id])
      BY <2>2, PipeEmpty DEF ReaderBreaks
    <3> QED
      BY <2>1, <2>2, <3>1, SaidRemains, AnswersStay DEF table
  <2>3. ASSUME NEW f, f = Head(toHost), toHost # <<>>,
               inbox' = [inbox EXCEPT ![f.id] = IF Listens(f.id) THEN f.kind ELSE "none"],
               toHost' = Tail(toHost)
        PROVE  AnswerInv'
    <3>1. /\ f \in HostFrames /\ 1 \in DOMAIN toHost /\ f = toHost[1]
          /\ \A n \in DOMAIN toHost' : n + 1 \in DOMAIN toHost /\ toHost'[n] = toHost[n + 1]
      BY <2>3, PipeTail DEF PipesTypeOK
    <3>2. Says(f.kind, job'[f.id])
      BY <2>1, <3>1 DEF AnswerInv
    <3>3. \A e \in Executes : \/ inbox'[e] = inbox[e] \/ inbox'[e] = "none"
                              \/ (inbox'[e] = f.kind /\ e = f.id)
      BY <2>3, IdsDiffer DEF HostTypeOK
    <3>4. \A e \in Executes : Says(inbox'[e], job'[e])
      BY <2>1, <3>2, <3>3 DEF AnswerInv, Says
    <3>5. \A n \in DOMAIN toHost' : Says(toHost'[n].kind, job'[toHost'[n].id])
      BY <2>1, <3>1 DEF AnswerInv
    <3> QED
      BY <2>1, <3>4, <3>5, AnswersStay
  <2> QED
    BY <1>6, <2>2, <2>3 DEF ReadFrame
<1>7. CASE Drain
  <2>1. UNCHANGED <<call, returned, toDriver, toHost, job>> /\ EndsStay /\ UNCHANGED terminate
    BY <1>7 DEF Drain, host, process, EndsStay
  <2>2. \A e \in Executes : inbox'[e] \in {inbox[e], "closed"}
    BY <1>7, IdsDiffer DEF Drain
  <2>3. \A e \in Executes : Says(inbox'[e], job'[e])
    BY <2>1, <2>2 DEF AnswerInv, Says
  <2> QED
    BY <2>1, <2>3, SaidRemains, AnswersStay
<1>8. CASE NoticeExit
  BY <1>8, <1>q DEF NoticeExit, host, table, process
<1>9. CASE Kill
  <2>1. UNCHANGED <<call, returned, inbox, toHost, terminate>> /\ Dies
    BY <1>9 DEF Kill, host, table, fate
  <2>2. EndsStay /\ \A i \in Tasks : job[i] = "none" => job'[i] = "none"
    BY <2>1, DiesType DEF EndsStay, Working
  <2> QED
    BY <2>1, <2>2, DiesType, PipeEmpty, SaidRemains, AnswersStay DEF Tasks
<1> QED
  BY <1>1, <1>2, <1>3, <1>4, <1>5, <1>6, <1>7, <1>8, <1>9 DEF HostStep

\* The driver adds to what it said.
LEMMA AnswerSaid ==
  ASSUME LinkTypeOK, AnswerInv, EndsStay, NEW f \in HostFrames, toHost' = Append(toHost, f),
         Says(f.kind, job'[f.id])
  PROVE  \A n \in DOMAIN toHost' : Says(toHost'[n].kind, job'[toHost'[n].id])
<1>1. /\ toHost \in Seq(HostFrames) /\ Len(toHost) \in Nat
      /\ DOMAIN toHost' = 1 .. Len(toHost) + 1 /\ DOMAIN toHost = 1 .. Len(toHost)
      /\ toHost'[Len(toHost) + 1] = f
      /\ \A n \in DOMAIN toHost : toHost'[n] = toHost[n]
  BY DEF LinkTypeOK, PipesTypeOK
<1>2. \A n \in DOMAIN toHost' : n \in DOMAIN toHost \/ n = Len(toHost) + 1
  BY <1>1
<1> QED
  BY <1>1, <1>2, SaidRemains

LEMMA AnswersDriver ==
  ASSUME LinkTypeOK, TrafficInv, AnswerInv, DriverStep
  PROVE  AnswerInv'
<1> USE DEF LinkTypeOK
<1>0. UNCHANGED <<call, returned, inbox, terminate>>
  BY DEF DriverStep, Serve, Exit, BeginJob, EndJob, host, table, fate
<1>d. ASSUME Dies, UNCHANGED toHost
      PROVE  AnswerInv'
  <2>1. EndsStay /\ \A i \in Tasks : job[i] = "none" => job'[i] = "none"
    BY <1>d, DiesType DEF EndsStay, Working
  <2> QED
    BY <1>0, <1>d, <2>1, DiesType, PipeEmpty, SaidRemains, AnswersStay DEF Tasks
<1>1. CASE Serve
  <2>1. PICK f : f = Head(toDriver)
    OBVIOUS
  <2>2. /\ f \in DriverFrames /\ Carried(Tail(toDriver)) \subseteq Carried(toDriver)
        /\ f.kind # "torn" => f.id \in Carried(toDriver)
    BY <1>1, <2>1, PipeTail DEF Serve, PipesTypeOK
  <2>3. CASE f.kind \in {"execute", "check"}
    <3>1. /\ job' = [job EXCEPT ![f.id] = "queued"] /\ toDriver' = Tail(toDriver)
          /\ UNCHANGED toHost
      BY <1>1, <2>1, <2>3 DEF Serve
    <3>2. f.id \in Tasks /\ job[f.id] = "none"
      BY <2>2, <2>3, DriverFrameKinds DEF Tasks, TrafficInv
    <3>3. EndsStay
      BY <3>1, <3>2 DEF EndsStay, PipesTypeOK
    <3>4. \A e \in Executes : job[e] = "none" /\ e \notin Carried(toDriver)
                             => job'[e] = "none" /\ e \notin Carried(toDriver')
      BY <2>2, <2>3, <3>1, <3>2 DEF PipesTypeOK, Tasks
    <3> QED
      BY <1>0, <3>1, <3>3, <3>4, SaidRemains, AnswersStay
  <2>4. CASE f.kind \in {"cancel", "shutdown"}
    <3>1. PICK k \in {"cancelled", "shutdown"} :
            toHost' = Append(toHost, Frame(k, f.id)) /\ Frame(k, f.id) \in HostFrames
      <4>1. CASE f.kind = "cancel"
        <5>1. Frame("cancelled", f.id) \in HostFrames
          BY <2>2, <4>1, DriverFrameKinds, FrameTypes
        <5> QED
          BY <1>1, <2>1, <4>1, <5>1 DEF Serve, Say
      <4>2. CASE f.kind = "shutdown"
        <5>1. Frame("shutdown", f.id) \in HostFrames
          BY <2>2, <4>2, DriverFrameKinds, FrameTypes
        <5> QED
          BY <1>1, <2>1, <4>2, <5>1 DEF Serve, Say
      <4> QED
        BY <2>4, <4>1, <4>2
    <3>2. toDriver' = Tail(toDriver) /\ (UNCHANGED job \/ job' = JobsAborted)
      BY <1>1, <2>1, <2>4 DEF Serve
    <3>3. /\ EndsStay
          /\ \A e \in Executes : job[e] = "none" /\ e \notin Carried(toDriver)
                             => job'[e] = "none" /\ e \notin Carried(toDriver')
      BY <2>2, <3>2 DEF EndsStay, JobsAborted, PipesTypeOK, Tasks
    <3>4. \A n \in DOMAIN toHost' : Says(toHost'[n].kind, job'[toHost'[n].id])
      BY <3>1, <3>3, FrameTypes, AnswerSaid DEF Says
    <3> QED
      BY <1>0, <3>3, <3>4, SaidRemains, AnswersStay
  <2>5. CASE f.kind = "torn"
    BY <1>1, <1>d, <2>1, <2>5 DEF Serve
  <2> QED
    BY <2>2, <2>3, <2>4, <2>5, DriverFrameKinds
<1>2. CASE Exit
  BY <1>2, <1>d DEF Exit
<1>3. ASSUME NEW i \in Tasks, BeginJob(i)
      PROVE  AnswerInv'
  <2>1. UNCHANGED <<toDriver, toHost>> /\ job[i] = "queued" /\ job' = [job EXCEPT ![i] = "running"]
    BY <1>3 DEF BeginJob
  <2>2. /\ EndsStay
        /\ \A e \in Executes : job[e] = "none" => job'[e] = "none"
    BY <2>1 DEF EndsStay, PipesTypeOK, Tasks
  <2> QED
    BY <1>0, <2>1, <2>2, SaidRemains, AnswersStay
<1>4. ASSUME NEW i \in Tasks, EndJob(i)
      PROVE  AnswerInv'
  <2>1. UNCHANGED toDriver /\ job[i] = "running"
    BY <1>4 DEF EndJob
  <2>2. PICK k \in {"result", "failure", "checked"} :
          /\ Frame(k, i) \in HostFrames /\ toHost' = Append(toHost, Frame(k, i))
          /\ job' = [job EXCEPT ![i] = IF k = "failure" THEN "erred" ELSE "done"]
    BY <1>4, FrameTypes DEF EndJob, Say, Tasks
  <2>3. /\ EndsStay
        /\ \A e \in Executes : job[e] = "none" => job'[e] = "none"
        /\ Says(k, job'[i])
    BY <2>1, <2>2 DEF EndsStay, PipesTypeOK, Tasks, Says
  <2>4. \A n \in DOMAIN toHost' : Says(toHost'[n].kind, job'[toHost'[n].id])
    BY <2>2, <2>3, FrameTypes, AnswerSaid
  <2> QED
    BY <1>0, <2>1, <2>3, <2>4, SaidRemains, AnswersStay
<1> QED
  BY <1>1, <1>2, <1>3, <1>4 DEF DriverStep, Tasks

-----------------------------------------------------------------------------
(* No reason to kill the process without a request that was given up. *)

\* A reason stays one.
LEMMA ReasonStays ==
  ASSUME LinkTypeOK, Reason,
         \A e \in Executes : returned[e] = "unknown" => returned'[e] = "unknown",
         \A v \in Checks : check[v] = "forgotten" => check'[v] = "forgotten",
         closing # "no" => closing' # "no", child = "dead" => child' = "dead"
  PROVE  Reason' /\ ReasonInv'
BY DEF Reason, ReasonInv

\* Without one, the table grows, or the entry of what was read goes.
LEMMA OwedStays ==
  ASSUME OwedInv, UNCHANGED <<terminate, reader>>, ReasonInv,
         Reason => Reason',
         requests \subseteq requests',
         Carried(toDriver') \cup Carried(toHost') \subseteq requests',
         \A i \in Tasks : job'[i] \in Working => job[i] \in Working \/ i \in requests',
         \A e \in Executes : call'[e] = "entered" => call[e] = "entered" \/ e \in requests'
  PROVE  ReasonInv'
BY DEF OwedInv, ReasonInv

LEMMA ReasonCall ==
  ASSUME LinkTypeOK, AnswerInv, ReasonInv, NEW e \in Executes, CallEffect(e)
  PROVE  ReasonInv'
<1>1. /\ UNCHANGED <<toHost, job, check, closing, child, reader>>
      /\ CallPlace(e) /\ CallEnd(e) /\ CallOutput(e) /\ toDriver \in Seq(DriverFrames)
  BY DEF CallEffect, rest, process, LinkTypeOK, PipesTypeOK
<1>2. returned[e] = "none"
  BY <1>1 DEF CallPlace, AnswerInv
<1>3. \A f \in Executes : returned[f] = "unknown" => returned'[f] = "unknown"
  BY <1>1, <1>2 DEF CallPlace
<1>4. CASE Reason
  BY <1>1, <1>3, <1>4, ReasonStays
<1>5. CASE ~Reason /\ returned'[e] = "unknown"
  BY <1>5 DEF Reason, ReasonInv
<1>6. CASE ~Reason /\ returned'[e] # "unknown"
  <2>1. OwedInv /\ requests \subseteq requests' /\ UNCHANGED terminate
    BY <1>1, <1>6 DEF ReasonInv, CallEnd
  <2>2. Carried(toDriver') \subseteq requests'
    <3>1. CASE UNCHANGED toDriver
      BY <2>1, <3>1 DEF OwedInv
    <3>2. CASE call[e] = "entered" /\ toDriver' = Append(toDriver, Frame("execute", e))
      <4>1. Carried(toDriver') = Carried(toDriver) \cup {e}
        BY <1>1, <3>2, FrameTypes, PipeAppend
      <4> QED
        BY <2>1, <3>2, <4>1 DEF OwedInv
    <3>3. CASE /\ Cancelling(e) \in requests'
               /\ toDriver' = Append(toDriver, Frame("cancel", Cancelling(e)))
      <4>1. Carried(toDriver') = Carried(toDriver) \cup {Cancelling(e)}
        BY <1>1, <3>3, FrameTypes, PipeAppend
      <4> QED
        BY <2>1, <3>3, <4>1 DEF OwedInv
    <3>4. CASE toDriver' = Append(toDriver, Torn)
      <4>1. Carried(toDriver') = Carried(toDriver)
        BY <1>1, <3>4, FrameTypes, PipeAppend
      <4> QED
        BY <2>1, <4>1 DEF OwedInv
    <3> QED
      BY <1>1, <3>1, <3>2, <3>3, <3>4 DEF CallOutput
  <2>3. \A f \in Executes : call'[f] = "entered" => call[f] = "entered" \/ f \in requests'
    BY <1>1 DEF CallPlace
  <2> QED
    BY <1>1, <1>6, <2>1, <2>2, <2>3, OwedStays DEF OwedInv
<1> QED
  BY <1>4, <1>5, <1>6

LEMMA ReasonHost ==
  ASSUME LinkTypeOK, TrafficInv, ReasonInv, HostStep
  PROVE  ReasonInv'
<1> USE DEF LinkTypeOK
<1>1. ASSUME NEW v \in Checks, BeginCheck(v)
      PROVE  ReasonInv'
  <2>1. /\ UNCHANGED <<call, returned, closing, terminate, reader, toHost, child, job>>
        /\ \A w \in Checks : check[w] = "forgotten" => check'[w] = "forgotten"
    BY <1>1 DEF BeginCheck, fate, process, HostTypeOK
  <2>2. Reason => Reason'
    BY <2>1, ReasonStays
  <2>3. CASE ~Reason
    <3>1. requests \subseteq requests' /\ Carried(toDriver') \subseteq requests'
      <4>1. CASE UNCHANGED <<requests, toDriver>>
        BY <2>3, <4>1 DEF ReasonInv, OwedInv
      <4>2. CASE Ask(v, "check")
        <5>1. toDriver \in Seq(DriverFrames)
          BY DEF PipesTypeOK
        <5>2. Carried(toDriver') = Carried(toDriver) \cup {v}
          BY <4>2, <5>1, FrameTypes, PipeAppend DEF Ask
        <5> QED
          BY <2>3, <4>2, <5>2 DEF Ask, ReasonInv, OwedInv
      <4> QED
        BY <1>1, <4>1, <4>2 DEF BeginCheck
    <3> QED
      BY <2>1, <2>2, <2>3, <3>1, OwedStays DEF ReasonInv, OwedInv
  <2> QED
    BY <2>1, <2>3, ReasonStays
<1>2. ASSUME NEW v \in Checks, EndCheck(v)
      PROVE  ReasonInv'
  <2>1. /\ UNCHANGED <<call, returned, closing, terminate, reader, toDriver, toHost, child, job>>
        /\ \A w \in Checks : check[w] = "forgotten" => check'[w] = "forgotten"
        /\ check'[v] = "forgotten" \/ UNCHANGED requests
    BY <1>2 DEF EndCheck, fate, process, HostTypeOK
  <2>2. Reason => Reason' /\ ReasonInv'
    BY <2>1, ReasonStays
  <2>3. CASE ~Reason /\ check'[v] = "forgotten"
    BY <2>3 DEF ReasonInv, Reason
  <2>4. CASE ~Reason /\ UNCHANGED requests
    BY <2>1, <2>2, <2>4, OwedStays DEF ReasonInv, OwedInv
  <2> QED
    BY <2>1, <2>2, <2>3, <2>4
<1>3. CASE BeginShutdown \/ EndShutdown \/ DropProvider
  <2>1. closing' # "no"
    BY <1>3 DEF BeginShutdown, EndShutdown, DropProvider
  <2> QED
    BY <2>1 DEF ReasonInv, Reason
<1>4. CASE ReadFrame
  <2>1. UNCHANGED <<call, returned, check, closing, toDriver, child, job>> /\ reader = "reading"
    BY <1>4 DEF ReadFrame, host, process
  <2>2. CASE Reason
    BY <2>1, <2>2, ReasonStays
  <2>3. CASE ~Reason /\ toHost # <<>>
    <3>1. PICK f : f = Head(toHost)
      OBVIOUS
    <3>2. /\ f \in HostFrames /\ f.id \in Carried(toHost)
          /\ Carried(Tail(toHost)) \subseteq Carried(toHost) /\ f.id \notin Carried(Tail(toHost))
      <4>1. toHost \in Seq(HostFrames) /\ Once(toHost)
        BY DEF PipesTypeOK, TrafficInv
      <4>2. f \in HostFrames
        BY <2>3, <3>1, <4>1, PipeTail
      <4>3. f.kind # "torn"
        BY <4>2, HostFrameKinds
      <4> QED
        BY <2>3, <3>1, <4>1, <4>2, <4>3, PipeTail
    <3>3. OwedInv /\ f.id \in requests
      BY <2>3, <3>2 DEF ReasonInv, OwedInv
    <3>4. /\ requests' = requests \ {f.id} /\ toHost' = Tail(toHost)
          /\ UNCHANGED <<terminate, reader>>
      BY <1>4, <2>3, <3>1, <3>3, <2>1 DEF ReadFrame, fate, Reason
    <3>5. f.id \notin Carried(toDriver)
      BY <3>2 DEF TrafficInv
    <3>6. \A i \in Tasks : job[i] \in Working => i # f.id
      BY <3>2 DEF TrafficInv
    <3>7. \A e \in Executes : call[e] = "entered" => e # f.id
      BY <3>2 DEF TrafficInv, Unwritten, Tasks
    <3>8. OwedInv'
      BY <2>1, <3>2, <3>3, <3>4, <3>5, <3>6, <3>7 DEF OwedInv
    <3>9. ~(terminate \/ reader # "reading")
      BY <2>3 DEF ReasonInv
    <3> QED
      BY <3>4, <3>8, <3>9 DEF ReasonInv
  <2>4. CASE ~Reason /\ toHost = <<>>
    BY <1>4, <2>1, <2>4 DEF ReadFrame, Reason
  <2> QED
    BY <2>2, <2>3, <2>4
<1>5. CASE Drain
  <2>1. UNCHANGED <<returned, check, closing, child>> /\ reader = "broken"
    BY <1>5 DEF Drain, host, process
  <2> QED
    BY <2>1, ReasonStays DEF ReasonInv
<1>6. CASE Kill
  BY <1>6 DEF Kill, Dies, ReasonInv, Reason
<1>7. CASE NoticeExit
  BY <1>7 DEF NoticeExit, process, ReasonInv, Reason
<1> QED
  BY <1>1, <1>2, <1>3, <1>4, <1>5, <1>6, <1>7 DEF HostStep

LEMMA ReasonDriver ==
  ASSUME LinkTypeOK, TrafficInv, ReasonInv, DriverStep
  PROVE  ReasonInv'
<1> USE DEF LinkTypeOK
<1>0. UNCHANGED <<call, returned, check, closing, requests, terminate, reader>>
  BY DEF DriverStep, Serve, Exit, BeginJob, EndJob, host, table, fate
<1>1. CASE child' = "dead"
  BY <1>1 DEF ReasonInv, Reason
<1>2. CASE Reason /\ child' # "dead"
  <2>1. child # "dead"
    BY <1>2 DEF DriverStep, Serve, Exit, BeginJob, EndJob, Dies
  <2> QED
    BY <1>0, <1>2, <2>1, ReasonStays
<1>3. CASE ~Reason /\ child' # "dead"
  <2>0. OwedInv /\ (Reason => Reason')
    BY <1>3 DEF ReasonInv
  <2>9. ASSUME Carried(toDriver') \cup Carried(toHost')
                 \subseteq Carried(toDriver) \cup Carried(toHost)
                                                                 \cup requests,
               \A i \in Tasks : job'[i] \in Working => job[i] \in Working \/ i \in requests
        PROVE  ReasonInv'
    BY <1>0, <2>0, <2>9, OwedStays DEF OwedInv
  <2>1. CASE Serve
    <3>1. PICK f : f = Head(toDriver)
      OBVIOUS
    <3>2. /\ f \in DriverFrames /\ Carried(Tail(toDriver)) \subseteq Carried(toDriver)
          /\ f.kind # "torn" => f.id \in Carried(toDriver)
      BY <2>1, <3>1, PipeTail DEF Serve, PipesTypeOK
    <3>3. f.kind # "torn" => f.id \in requests
      BY <2>0, <3>2 DEF OwedInv
    <3>4. CASE f.kind \in {"execute", "check"}
      <4>1. /\ job' = [job EXCEPT ![f.id] = "queued"] /\ toDriver' = Tail(toDriver)
            /\ UNCHANGED toHost
        BY <2>1, <3>1, <3>4 DEF Serve
      <4>2. \A i \in Tasks : job'[i] \in Working => job[i] \in Working \/ i \in requests
        BY <3>3, <3>4, <4>1 DEF PipesTypeOK
      <4> QED
        BY <2>9, <3>2, <4>1, <4>2
    <3>5. CASE f.kind = "cancel"
      <4>1. /\ toHost' = Append(toHost, Frame("cancelled", f.id)) /\ toDriver' = Tail(toDriver)
            /\ UNCHANGED job
        BY <2>1, <3>1, <3>5 DEF Serve, Say
      <4>2. Frame("cancelled", f.id) \in HostFrames /\ toHost \in Seq(HostFrames)
        BY <3>2, <3>5, DriverFrameKinds, FrameTypes DEF PipesTypeOK
      <4>3. Carried(toHost') = Carried(toHost) \cup {f.id}
        BY <4>1, <4>2, FrameTypes, PipeAppend
      <4> QED
        BY <2>9, <3>2, <3>3, <3>5, <4>1, <4>3
    <3>6. CASE f.kind = "shutdown"
      <4>1. f.id = Bye /\ closing = "no"
        BY <1>3, <3>2, <3>6, DriverFrameKinds DEF Reason
      <4> QED
        BY <3>2, <3>6, <4>1 DEF TrafficInv
    <3>7. CASE f.kind = "torn"
      BY <1>3, <2>1, <3>1, <3>7 DEF Serve, Dies
    <3> QED
      BY <3>2, <3>4, <3>5, <3>6, <3>7, DriverFrameKinds
  <2>2. CASE Exit
    BY <1>3, <2>2 DEF Exit, Dies
  <2>3. ASSUME NEW i \in Tasks, BeginJob(i)
        PROVE  ReasonInv'
    <3>1. /\ UNCHANGED <<toDriver, toHost>>
          /\ job[i] = "queued" /\ job' = [job EXCEPT ![i] = "running"]
      BY <2>3 DEF BeginJob
    <3>2. \A k \in Tasks : job'[k] \in Working => job[k] \in Working
      BY <3>1 DEF PipesTypeOK, Working
    <3> QED
      BY <2>9, <3>1, <3>2
  <2>4. ASSUME NEW i \in Tasks, EndJob(i)
        PROVE  ReasonInv'
    <3>1. UNCHANGED toDriver /\ job[i] = "running"
      BY <2>4 DEF EndJob
    <3>2. PICK k \in {"result", "failure", "checked"} :
            /\ Frame(k, i) \in HostFrames /\ toHost' = Append(toHost, Frame(k, i))
            /\ job' = [job EXCEPT ![i] = IF k = "failure" THEN "erred" ELSE "done"]
      BY <2>4, FrameTypes DEF EndJob, Say, Tasks
    <3>3. toHost \in Seq(HostFrames)
      BY DEF PipesTypeOK
    <3>4. Carried(toHost') = Carried(toHost) \cup {i}
      BY <3>2, <3>3, FrameTypes, PipeAppend
    <3>5. i \in requests /\ \A n \in Tasks : job'[n] \in Working => job[n] \in Working
      BY <2>0, <3>1, <3>2 DEF OwedInv, PipesTypeOK, Working
    <3> QED
      BY <2>9, <3>1, <3>4, <3>5
  <2> QED
    BY <2>1, <2>2, <2>3, <2>4 DEF DriverStep, Tasks
<1> QED
  BY <1>1, <1>2, <1>3

-----------------------------------------------------------------------------
(* The link's theorems. *)

LEMMA LinkInitInv == LinkInit => LinkInv
<1> SUFFICES ASSUME LinkInit
             PROVE  LinkInv
  OBVIOUS
<1> USE DEF LinkInit
<1>1. LinkTypeOK
  BY PipeEmpty DEF LinkTypeOK, HostTypeOK, PipesTypeOK, Tasks
<1>2. TrafficInv
  BY PipeEmpty DEF TrafficInv, Tasks
<1>3. AnswerInv
  BY PipeEmpty, IdsDiffer DEF AnswerInv, Says, Tasks
<1>4. ReasonInv
  BY PipeEmpty DEF ReasonInv, OwedInv, Working, Tasks
<1> QED
  BY <1>1, <1>2, <1>3, <1>4 DEF LinkInv

LEMMA LinkStep == LinkInv /\ [LinkNext]_linkVars => LinkInv'
<1> SUFFICES ASSUME LinkInv, [LinkNext]_linkVars
             PROVE  LinkInv'
  OBVIOUS
<1>1. LinkTypeOK /\ TrafficInv /\ AnswerInv /\ ReasonInv
  BY DEF LinkInv
<1>2. LinkTypeOK'
  BY <1>1, LinkTypeStep
<1>3. ASSUME NEW e \in Executes, CallStep(e) \/ DropCall(e) \/ CancelContext(e)
      PROVE  TrafficInv' /\ AnswerInv' /\ ReasonInv'
  <2>1. CallEffect(e)
    BY <1>1, <1>3, CallHasEffect DEF LinkTypeOK
  <2> QED
    BY <1>1, <2>1, TrafficCall, AnswersCall, ReasonCall
<1>4. ASSUME HostStep
      PROVE  TrafficInv' /\ AnswerInv' /\ ReasonInv'
  BY <1>1, <1>4, TrafficHost, AnswersHost, ReasonHost
<1>5. ASSUME DriverStep
      PROVE  TrafficInv' /\ AnswerInv' /\ ReasonInv'
  BY <1>1, <1>5, TrafficDriver, AnswersDriver, ReasonDriver
<1>6. ASSUME UNCHANGED linkVars
      PROVE  TrafficInv' /\ AnswerInv' /\ ReasonInv'
  BY <1>1, <1>6 DEF linkVars, TrafficInv, AnswerInv, ReasonInv, Reason, OwedInv
<1> QED
  BY <1>2, <1>3, <1>4, <1>5, <1>6 DEF LinkNext, LinkInv

\* At any moment of a link, its requests are in one place each, nothing but what the driver
\* said is answered, and what may still be answered has its entry (driver-host lib.rs).
THEOREM LinkInvariance == LinkSafety => []LinkInv
BY LinkInitInv, LinkStep, PTL DEF LinkSafety

\* Whatever is lost, dropped, late or killed: what execute returns is what the driver did
\* (driver-host lib.rs execution_result).
THEOREM VerdictsHold == LinkSafety => []VerdictsAreTrue
<1>1. LinkInv => VerdictsAreTrue
  <2> SUFFICES ASSUME LinkInv, NEW e \in Executes
               PROVE  /\ returned[e] = "ok" => job[e] = "done"
                      /\ returned[e] = "failed" => job[e] = "erred"
                      /\ returned[e] = "refused" => job[e] = "none" /\ ~AtWork(e)
    BY DEF VerdictsAreTrue
  <2>1. e \notin Carried(toDriver) => ~InPipe(Frame("execute", e), toDriver)
    BY FrameTypes DEF InPipe, Carried
  <2> QED
    BY <2>1 DEF LinkInv, AnswerInv, AtWork
<1> QED
  BY LinkInvariance, <1>1, PTL

\* Once execute has returned, the driver is through with the command, never got it, or is to
\* die (driver-host lib.rs execute).
THEOREM NoExecutionRunsAway == LinkSafety => []NoRunawayExecution
<1>1. LinkInv => NoRunawayExecution
  <2> SUFFICES ASSUME LinkInv, NEW e \in Executes, call[e] = "over", ~terminate
               PROVE  ~AtWork(e)
    BY DEF NoRunawayExecution
  <2>1. e \notin Carried(toDriver) => ~InPipe(Frame("execute", e), toDriver)
    BY FrameTypes DEF InPipe, Carried
  <2>2. returned[e] \in {"ok", "failed", "refused"}
    BY DEF LinkInv, AnswerInv, LinkTypeOK, HostTypeOK
  <2>3. job[e] # "none" => e \notin Carried(toDriver)
    BY DEF LinkInv, TrafficInv, Tasks
  <2> QED
    BY <2>1, <2>2, <2>3 DEF LinkInv, AnswerInv, AtWork
<1> QED
  BY LinkInvariance, <1>1, PTL

\* The host kills no driver that behaves, but for a request it gave up or its own shutdown
\* (driver-host lib.rs, the reader and the monitor).
THEOREM KilledWithReason == LinkSafety => []KilledForAReason
<1>1. LinkInv => KilledForAReason
  BY DEF LinkInv, ReasonInv, Reason, KilledForAReason
<1> QED
  BY LinkInvariance, <1>1, PTL

(***************************************************************************)
(* The tools.                                                              *)
(***************************************************************************)

\* What the driver writes.
Written == {Call(c) : c \in Calls} \cup {Result(p) : p \in Parents}

CallsOn(w)   == {c \in Calls : \E n \in DOMAIN w : w[n] = Call(c)}
ResultsOn(w) == {p \in Parents : \E n \in DOMAIN w : w[n] = Result(p)}
CalledOnce(w) == \A m, n \in DOMAIN w, c \in Calls : w[m] = Call(c) /\ w[n] = Call(c) => m = n

ParentTypeOK ==
  /\ repertoire \in Repertoires /\ home \in Homes
  /\ turn \in [Parents -> {"idle", "running", "over"}]
  /\ tokens \subseteq Parents /\ lost \subseteq Parents /\ known \subseteq Parents
  /\ awaits \in [Parents -> Calls \cup {NoCall}]
  /\ up \in BOOLEAN /\ wire \in Seq(Written)
CallTypeOK ==
  /\ made \in Seq([kind : Kinds, parent : Parents, subject : Calls \cup {NoCall}])
  /\ Len(made) <= MaxMade
  /\ stage \in [Calls -> {"none", "working", "launched", "exchanging", "reaping",
                          "closing", "answering", "over"}]
  /\ outcome \in [Calls -> {"none", "other", "started"}]
OwnedTypeOK ==
  /\ proc \in [Calls -> {"none", "running", "told", "ended"}]
  /\ loop \in {"reading", "closing", "broken", "over", "parents", "jobs"}

\* Only what was made is anywhere.
MadeInv ==
  /\ handles \cup learned \cup registered \cup jobs \cup sessions \subseteq DOMAIN made
  /\ refused \in DOMAIN made \cup {NoCall}
  /\ CallsOn(wire) \subseteq DOMAIN made
  /\ \A c \in Calls \ DOMAIN made : stage[c] = "none"
ShapeInv == ParentTypeOK /\ CallTypeOK /\ OwnedTypeOK /\ MadeInv

\* A call is of the kind of what it does, and names a job or session the driver has heard of.
KindInv ==
  /\ \A c \in jobs : Kind(c) = "start"
  /\ \A c \in sessions : Kind(c) = "open"
  /\ \A c \in handles : Kind(c) \in Opening /\ stage[c] = "over"
  /\ \A c \in DOMAIN made :
       /\ stage[c] = "launched" => Kind(c) = "open"
       /\ stage[c] \in {"exchanging", "reaping"} => Kind(c) = "use"
       /\ stage[c] = "closing" => Kind(c) = "close"
  /\ \A c \in Calls : outcome[c] = "started" => c \in DOMAIN made /\ Kind(c) \in Opening
SubjectInv ==
  \A c \in DOMAIN made :
    /\ Kind(c) \in OnJob \cup OnSession =>
         Subject(c) \in DOMAIN made /\ stage[Subject(c)] = "over"
    /\ Kind(c) \in OnJob => Kind(Subject(c)) = "start"
    /\ Kind(c) \in OnSession => Kind(Subject(c)) = "open"

\* The execution that runs is the one that waits, and the host knows it.
TurnInv ==
  /\ up => loop \in {"reading", "closing"}
  /\ ~up => wire = <<>>
  /\ \A p \in Parents : turn[p] = "running" => up /\ p \in known
  /\ \A p, q \in Parents : turn[p] = "running" /\ turn[q] = "running" => p = q
  /\ \A p \in ResultsOn(wire) : turn[p] = "over"
  /\ \A p \in Parents : awaits[p] # NoCall =>
       turn[p] = "running" /\ awaits[p] \in DOMAIN made /\ Parent(awaits[p]) = p

\* A call that is not over is waited for, unless its parent gave up.
Active == {"working", "launched", "exchanging", "reaping", "closing"}
CallInv ==
  /\ CalledOnce(wire)
  /\ \A c \in CallsOn(wire) : stage[c] = "none"
  /\ up => \A c \in DOMAIN made :
             /\ c \in CallsOn(wire) \/ stage[c] \notin {"none", "over"}
             /\ Parent(c) \notin lost
             => awaits[Parent(c)] = c
  /\ \A c \in registered : stage[c] \in Active
  /\ \A c, d \in registered : Parent(c) = Parent(d) => c = d

ProcInv ==
  /\ \A c \in learned : proc[c] = "ended" /\ stage[c] = "over" /\ c \notin jobs \cup sessions
  /\ NoProcessIsForgotten /\ \A c \in Calls : proc[c] = "running" => stage[c] # "none"
  /\ \A c \in DOMAIN made : stage[c] = "closing" => Subject(c) \notin sessions

\* What the reader has emptied stays empty, and what is stopped stays stopped.
DrainInv ==
  /\ loop \in {"parents", "jobs", "over"} => known = {}
  /\ \A c \in DOMAIN made : proc[c] = "running" /\ stage[c] = "over" =>
       /\ loop \in {"jobs", "over"} => Kind(c) # "start"
       /\ loop = "over" => Kind(c) # "open"

LimitInv == /\ Cardinality(registered) <= CallLimit
            /\ Cardinality(jobs) <= JobLimit
            /\ Cardinality(sessions) <= SessionLimit

ToolsInv == /\ ShapeInv /\ KindInv /\ SubjectInv /\ TurnInv /\ CallInv /\ ProcInv
            /\ DrainInv /\ LimitInv /\ RefusedOnlyAfterGivingUp

-----------------------------------------------------------------------------
(* The wire and the list of calls. *)

LEMMA WrittenDiffer ==
  /\ \A c, d : Call(c) = Call(d) => c = d
  /\ \A p, q : Result(p) = Result(q) => p = q
  /\ \A c, p : Call(c) # Result(p)
  /\ \A c : "call" \in DOMAIN Call(c) /\ "result" \notin DOMAIN Call(c) /\ Call(c).call = c
  /\ \A p : "result" \in DOMAIN Result(p) /\ "call" \notin DOMAIN Result(p)
            /\ Result(p).result = p
<1>1. \A c : "call" \in DOMAIN Call(c) /\ "result" \notin DOMAIN Call(c) /\ Call(c).call = c
  BY DEF Call
<1>2. \A p : "result" \in DOMAIN Result(p) /\ "call" \notin DOMAIN Result(p)
             /\ Result(p).result = p
  BY DEF Result
<1> QED
  BY <1>1, <1>2

LEMMA WireGrows ==
  ASSUME NEW w \in Seq(Written), NEW m \in Written
  PROVE  /\ Append(w, m) \in Seq(Written) /\ Append(w, m) # <<>>
         /\ \A c \in Calls : m = Call(c) =>
              /\ CallsOn(Append(w, m)) = CallsOn(w) \cup {c}
              /\ ResultsOn(Append(w, m)) = ResultsOn(w)
              /\ CalledOnce(w) /\ c \notin CallsOn(w) => CalledOnce(Append(w, m))
         /\ \A p \in Parents : m = Result(p) =>
              /\ CallsOn(Append(w, m)) = CallsOn(w)
              /\ ResultsOn(Append(w, m)) = ResultsOn(w) \cup {p}
              /\ CalledOnce(w) => CalledOnce(Append(w, m))
<1>1. PICK longer : longer = Append(w, m)
  OBVIOUS
<1>2. /\ longer \in Seq(Written) /\ Len(w) \in Nat
      /\ DOMAIN longer = 1 .. Len(w) + 1 /\ DOMAIN w = 1 .. Len(w)
      /\ longer[Len(w) + 1] = m
      /\ \A n \in DOMAIN w : longer[n] = w[n]
  BY <1>1
<1>3. DOMAIN longer = DOMAIN w \cup {Len(w) + 1} /\ Len(w) + 1 \notin DOMAIN w
  BY <1>2
<1>4. longer # <<>>
  BY <1>3
<1>5. ASSUME NEW c \in Calls, m = Call(c)
      PROVE  /\ CallsOn(longer) = CallsOn(w) \cup {c}
             /\ ResultsOn(longer) = ResultsOn(w)
             /\ CalledOnce(w) /\ c \notin CallsOn(w) => CalledOnce(longer)
  <2>1. CallsOn(longer) = CallsOn(w) \cup {c}
    BY <1>2, <1>3, <1>5, WrittenDiffer DEF CallsOn
  <2>2. ResultsOn(longer) = ResultsOn(w)
    BY <1>2, <1>3, <1>5, WrittenDiffer DEF ResultsOn
  <2>3. CalledOnce(w) /\ c \notin CallsOn(w) => CalledOnce(longer)
    BY <1>2, <1>3, <1>5, WrittenDiffer DEF CallsOn, CalledOnce
  <2> QED
    BY <2>1, <2>2, <2>3
<1>6. ASSUME NEW p \in Parents, m = Result(p)
      PROVE  /\ CallsOn(longer) = CallsOn(w)
             /\ ResultsOn(longer) = ResultsOn(w) \cup {p}
             /\ CalledOnce(w) => CalledOnce(longer)
  <2>1. CallsOn(longer) = CallsOn(w)
    BY <1>2, <1>3, <1>6, WrittenDiffer DEF CallsOn
  <2>2. ResultsOn(longer) = ResultsOn(w) \cup {p}
    BY <1>2, <1>3, <1>6, WrittenDiffer DEF ResultsOn
  <2>3. CalledOnce(w) => CalledOnce(longer)
    BY <1>2, <1>3, <1>6, WrittenDiffer DEF CalledOnce
  <2> QED
    BY <2>1, <2>2, <2>3
<1> QED
  BY <1>1, <1>2, <1>4, <1>5, <1>6

LEMMA WireIsRead ==
  ASSUME NEW w \in Seq(Written), w # <<>>
  PROVE  /\ Head(w) \in Written /\ Tail(w) \in Seq(Written)
         /\ ResultsOn(Tail(w)) \subseteq ResultsOn(w)
         /\ CallsOn(Tail(w)) \subseteq CallsOn(w)
         /\ CalledOnce(w) => CalledOnce(Tail(w))
         /\ \A c \in Calls : Head(w) = Call(c) =>
              /\ c \in CallsOn(w)
              /\ CalledOnce(w) => CallsOn(Tail(w)) = CallsOn(w) \ {c}
         /\ \A p \in Parents : Head(w) = Result(p) =>
              p \in ResultsOn(w) /\ CallsOn(Tail(w)) = CallsOn(w)
<1>1. PICK shorter : shorter = Tail(w)
  OBVIOUS
<1>2. Len(w) \in Nat \ {0} /\ DOMAIN w = 1 .. Len(w) /\ Head(w) = w[1] /\ w[1] \in Written
  BY Z3
<1>3. shorter \in Seq(Written)
  BY <1>1
<1>4. DOMAIN shorter = 1 .. Len(w) - 1 /\ \A n \in DOMAIN shorter : shorter[n] = w[n + 1]
  BY <1>1, <1>2
<1>5. /\ \A n \in DOMAIN shorter : n + 1 \in DOMAIN w /\ shorter[n] = w[n + 1]
      /\ \A n \in DOMAIN w : n # 1 => n - 1 \in DOMAIN shorter /\ w[n] = shorter[n - 1]
      /\ 1 \in DOMAIN w
  BY <1>2, <1>4
<1>6. ResultsOn(shorter) \subseteq ResultsOn(w) /\ CallsOn(shorter) \subseteq CallsOn(w)
  BY <1>5 DEF ResultsOn, CallsOn
<1>7. CalledOnce(w) => CalledOnce(shorter)
  <2> SUFFICES ASSUME CalledOnce(w), NEW m \in DOMAIN shorter, NEW n \in DOMAIN shorter,
                      NEW c \in Calls, shorter[m] = Call(c), shorter[n] = Call(c)
               PROVE  m = n
    BY DEF CalledOnce
  <2>1. m + 1 = n + 1
    BY <1>5 DEF CalledOnce
  <2> QED
    BY <2>1, <1>2, <1>4
<1>8. ASSUME NEW c \in Calls, Head(w) = Call(c)
      PROVE  c \in CallsOn(w) /\ (CalledOnce(w) => CallsOn(shorter) = CallsOn(w) \ {c})
  <2>1. c \in CallsOn(w)
    BY <1>2, <1>5, <1>8 DEF CallsOn
  <2>2. ASSUME CalledOnce(w), c \in CallsOn(shorter)
        PROVE  FALSE
    <3>1. PICK n \in DOMAIN shorter : shorter[n] = Call(c)
      BY <2>2 DEF CallsOn
    <3>2. n + 1 \in DOMAIN w /\ w[n + 1] = Call(c) /\ w[1] = Call(c) /\ n + 1 # 1
      BY <3>1, <1>2, <1>4, <1>5, <1>8
    <3> QED
      BY <3>2, <2>2, <1>5 DEF CalledOnce
  <2>3. CallsOn(w) \ {c} \subseteq CallsOn(shorter)
    BY <1>2, <1>5, <1>8, WrittenDiffer DEF CallsOn
  <2> QED
    BY <2>1, <2>2, <2>3, <1>6
<1>9. ASSUME NEW p \in Parents, Head(w) = Result(p)
      PROVE  p \in ResultsOn(w) /\ CallsOn(shorter) = CallsOn(w)
  <2>1. p \in ResultsOn(w)
    BY <1>2, <1>5, <1>9 DEF ResultsOn
  <2>2. CallsOn(w) \subseteq CallsOn(shorter)
    BY <1>2, <1>5, <1>9, WrittenDiffer DEF CallsOn
  <2> QED
    BY <2>1, <2>2, <1>6
<1> QED
  BY <1>1, <1>2, <1>3, <1>6, <1>7, <1>8, <1>9

LEMMA WireEmpty == /\ <<>> \in Seq(Written) /\ CalledOnce(<<>>)
                   /\ CallsOn(<<>>) = {} /\ ResultsOn(<<>>) = {}
<1>1. <<>> \in Seq(Written)
  OBVIOUS
<1> QED
  BY <1>1 DEF CallsOn, ResultsOn, CalledOnce

\* Calls are numbered as they are made.
LEMMA MadeType ==
  ASSUME CallTypeOK
  PROVE  /\ DOMAIN made = 1 .. Len(made) /\ DOMAIN made \subseteq Calls
         /\ \A c \in DOMAIN made : /\ Kind(c) \in Kinds /\ Parent(c) \in Parents
                                   /\ Subject(c) \in Calls \cup {NoCall}
<1>1. DOMAIN made = 1 .. Len(made) /\ Len(made) \in Nat /\ Len(made) <= MaxMade
  BY DEF CallTypeOK
<1>2. DOMAIN made \subseteq Calls
  BY <1>1, ToolsAssumption DEF Calls
<1>3. \A S : made \in Seq(S) => \A c \in DOMAIN made : made[c] \in S
  BY <1>1
<1>4. \A c \in DOMAIN made :
        made[c] \in [kind : Kinds, parent : Parents, subject : Calls \cup {NoCall}]
  BY <1>3 DEF CallTypeOK
<1> QED
  BY <1>1, <1>2, <1>4 DEF Kind, Parent, Subject

LEMMA MadeGrows ==
  ASSUME CallTypeOK, Len(made) < MaxMade,
         NEW r \in [kind : Kinds, parent : Parents, subject : Calls \cup {NoCall}],
         made' = Append(made, r)
  PROVE  /\ Len(made) + 1 \in Calls \ DOMAIN made
         /\ DOMAIN made' = DOMAIN made \cup {Len(made) + 1}
         /\ made' \in Seq([kind : Kinds, parent : Parents, subject : Calls \cup {NoCall}])
         /\ Len(made') <= MaxMade
         /\ \A c \in DOMAIN made : made'[c] = made[c]
         /\ made'[Len(made) + 1] = r
<1>1. Len(made) \in Nat /\ MaxMade \in Nat /\ Len(made') = Len(made) + 1
  BY ToolsAssumption DEF CallTypeOK
<1>2. /\ DOMAIN made = 1 .. Len(made) /\ DOMAIN made' = 1 .. Len(made) + 1
      /\ made'[Len(made) + 1] = r /\ \A c \in DOMAIN made : made'[c] = made[c]
  BY DEF CallTypeOK
<1>3. made' \in Seq([kind : Kinds, parent : Parents, subject : Calls \cup {NoCall}])
  BY DEF CallTypeOK
<1> QED
  BY <1>1, <1>2, <1>3 DEF Calls

-----------------------------------------------------------------------------
(* Types. *)

\* A call moves to a stage.
LEMMA StageMoves ==
  ASSUME CallTypeOK, MadeInv, NEW c \in DOMAIN made,
         NEW to \in {"working", "launched", "exchanging", "reaping", "closing", "answering",
                     "over"},
         stage' = [stage EXCEPT ![c] = to], UNCHANGED made
  PROVE  /\ stage' \in [Calls -> {"none", "working", "launched", "exchanging", "reaping",
                                  "closing", "answering", "over"}]
         /\ stage'[c] = to /\ \A d \in Calls : d # c => stage'[d] = stage[d]
         /\ \A d \in Calls \ DOMAIN made' : stage'[d] = "none"
BY MadeType DEF CallTypeOK, MadeInv

LEMMA ProcMoves ==
  ASSUME OwnedTypeOK, NEW c \in Calls, NEW to \in {"running", "told", "ended"},
         proc' = [proc EXCEPT ![c] = to]
  PROVE  /\ proc' \in [Calls -> {"none", "running", "told", "ended"}]
         /\ proc'[c] = to /\ \A d \in Calls : d # c => proc'[d] = proc[d]
BY DEF OwnedTypeOK

LEMMA ReapedType ==
  ASSUME OwnedTypeOK, NEW c \in Calls, proc' = Reaped(c)
  PROVE  /\ proc' \in [Calls -> {"none", "running", "told", "ended"}]
         /\ proc'[c] = IF c \in sessions THEN "told" ELSE proc[c]
         /\ \A d \in Calls : d # c => proc'[d] = proc[d]
BY DEF OwnedTypeOK, Reaped

LEMMA StoppedType ==
  ASSUME OwnedTypeOK, NEW S, proc' = Stopped(S)
  PROVE  /\ proc' \in [Calls -> {"none", "running", "told", "ended"}]
         /\ \A c \in Calls : /\ proc'[c] = "running" <=> proc[c] = "running" /\ c \notin S
                             /\ proc'[c] # "told" => proc'[c] = proc[c]
                             /\ proc[c] = "ended" => proc'[c] = "ended"
BY DEF OwnedTypeOK, Stopped

\* What the driver hears of a call.
Heard(c, o) ==
  /\ turn' = turn /\ tokens' = tokens /\ lost' = lost
  /\ \/ awaits' = awaits
     \/ awaits' = [awaits EXCEPT ![Parent(c)] = NoCall] /\ awaits[Parent(c)] = c
  /\ handles' = handles \/ (handles' = handles \cup {c} /\ o = "started")
  /\ learned' = learned \/ (learned' = learned \cup {Subject(c)} /\ o = "ended")

LEMMA HearsEffect == \A c, o : Hears(c, o) => Heard(c, o)
BY DEF Hears, Heard, driverVars

LEMMA HearsType ==
  ASSUME ParentTypeOK, CallTypeOK, MadeInv, SubjectInv, NEW c \in DOMAIN made, NEW o, Heard(c, o),
         o = "ended" => Kind(c) \in OnJob \cup OnSession
  PROVE  /\ turn' \in [Parents -> {"idle", "running", "over"}]
         /\ tokens' \subseteq Parents /\ lost' \subseteq Parents
         /\ awaits' \in [Parents -> Calls \cup {NoCall}]
         /\ handles' \cup learned' \subseteq DOMAIN made
<1>1. Parent(c) \in Parents
  BY MadeType
<1>2. awaits' \in [Parents -> Calls \cup {NoCall}]
  BY <1>1 DEF ParentTypeOK, Heard
<1>3. o = "ended" => Subject(c) \in DOMAIN made
  BY DEF SubjectInv
<1> QED
  BY <1>2, <1>3 DEF ParentTypeOK, MadeInv, Heard

\* What a call's task, or its answer, does to the types.
LEMMA GoneType ==
  ASSUME DriverGoes
  PROVE  /\ up' \in BOOLEAN /\ wire' \in Seq(Written)
         /\ turn' \in [Parents -> {"idle", "running", "over"}]
         /\ awaits' \in [Parents -> Calls \cup {NoCall}]
         /\ CallsOn(wire') = {} /\ handles' = {}
BY WireEmpty DEF DriverGoes

LEMMA ParentShape ==
  ASSUME ShapeInv, NEW p \in Parents, ParentStep(p)
  PROVE  ShapeInv'
<1> USE DEF ShapeInv
<1>1. CASE BeginParent(p)
  <2>1. turn' \in [Parents -> {"idle", "running", "over"}]
    BY <1>1 DEF BeginParent, ParentTypeOK
  <2> QED
    BY <1>1, <2>1 DEF BeginParent, ParentTypeOK, CallTypeOK, OwnedTypeOK, MadeInv, callVars,
                      ownedVars, loopVars
<1>2. CASE CancelParent(p)
  BY <1>2 DEF CancelParent, ParentTypeOK, CallTypeOK, OwnedTypeOK, MadeInv, callVars,
              ownedVars, loopVars
<1>3. CASE GiveUpCall(p)
  <2>1. awaits' \in [Parents -> Calls \cup {NoCall}]
    BY <1>3 DEF GiveUpCall, ParentTypeOK
  <2> QED
    BY <1>3, <2>1 DEF GiveUpCall, ParentTypeOK, CallTypeOK, OwnedTypeOK, MadeInv, callVars,
                      ownedVars, loopVars
<1>4. CASE EndParent(p)
  <2>1. turn' \in [Parents -> {"idle", "running", "over"}]
    BY <1>4 DEF EndParent, ParentTypeOK
  <2>2. Result(p) \in Written
    BY DEF Written
  <2>3. wire' \in Seq(Written) /\ CallsOn(wire') = CallsOn(wire)
    BY <1>4, <2>2, WireGrows DEF EndParent, ParentTypeOK
  <2> QED
    BY <1>4, <2>1, <2>3 DEF EndParent, ParentTypeOK, CallTypeOK, OwnedTypeOK, MadeInv, callVars,
                            ownedVars, loopVars
<1>5. ASSUME NEW k \in repertoire, NEW s \in handles \cup {NoCall}, MakeCall(p, k, s)
      PROVE  ShapeInv'
  <2> DEFINE c == Len(made) + 1
             r == [kind |-> k, parent |-> p, subject |-> s]
  <2>1. r \in [kind : Kinds, parent : Parents, subject : Calls \cup {NoCall}]
    BY ToolsAssumption, MadeType DEF ParentTypeOK, MadeInv
  <2>2. made' = Append(made, r) /\ Len(made) < MaxMade
    BY <1>5 DEF MakeCall
  <2>3. /\ c \in Calls /\ DOMAIN made' = DOMAIN made \cup {c} /\ Len(made') <= MaxMade
        /\ made' \in Seq([kind : Kinds, parent : Parents, subject : Calls \cup {NoCall}])
    BY <2>1, <2>2, MadeGrows
  <2>4. awaits' \in [Parents -> Calls \cup {NoCall}]
    BY <1>5, <2>3 DEF MakeCall, ParentTypeOK
  <2>5. Call(c) \in Written /\ wire' = Append(wire, Call(c))
    BY <1>5, <2>3 DEF Written, MakeCall
  <2>6. wire' \in Seq(Written) /\ CallsOn(wire') = CallsOn(wire) \cup {c}
    BY <2>3, <2>5, WireGrows DEF ParentTypeOK
  <2>7. ParentTypeOK'
    BY <1>5, <2>4, <2>6 DEF MakeCall, ParentTypeOK
  <2>8. CallTypeOK' /\ OwnedTypeOK'
    BY <1>5, <2>3 DEF MakeCall, CallTypeOK, OwnedTypeOK, callVars, ownedVars, loopVars
  <2>9. MadeInv'
    BY <1>5, <2>3, <2>6 DEF MakeCall, MadeInv, callVars, ownedVars, loopVars
  <2> QED
    BY <2>7, <2>8, <2>9
<1> QED
  BY <1>1, <1>2, <1>3, <1>4, <1>5 DEF ParentStep

LEMMA DeathShape == ASSUME ShapeInv, DriverDies
                    PROVE  ShapeInv'
<1>1. ParentTypeOK'
  BY GoneType DEF DriverDies, ShapeInv, ParentTypeOK
<1>2. CallTypeOK' /\ OwnedTypeOK'
  BY DEF DriverDies, ShapeInv, CallTypeOK, OwnedTypeOK, callVars, ownedVars, loopVars
<1>3. MadeInv'
  BY GoneType DEF DriverDies, ShapeInv, MadeInv, callVars, ownedVars, loopVars
<1> QED
  BY <1>1, <1>2, <1>3 DEF ShapeInv

-----------------------------------------------------------------------------
(* What one step does to a call. *)

\* A task goes on with a call, or is through with it and has an answer.
Goal(k, to) == /\ to = "launched" => k = "open"
               /\ to \in {"exchanging", "reaping"} => k = "use"
               /\ to = "closing" => k = "close"
TaskMove(c, to, o) ==
  /\ c \in DOMAIN made /\ stage[c] \in Active /\ Goal(Kind(c), to)
  /\ stage' = [stage EXCEPT ![c] = to]
  /\ \/ to \in Active /\ registered' = registered /\ outcome' = outcome
     \/ /\ to = "answering" /\ registered' = registered \ {c}
        /\ outcome' = [outcome EXCEPT ![c] = o] /\ o \in {"other", "started"}
        /\ o = "started" => Kind(c) \in Opening
  /\ UNCHANGED <<repertoire, home, driverVars, wire, up, known, made, loopVars>>

Places == {"launched", "exchanging", "reaping", "answering"}

\* What its process and the tables see of that.
TaskOwned(c, to) ==
  \/ UNCHANGED ownedVars /\ stage[c] # "launched"
  \/ /\ Kind(c) = "start" /\ to = "answering" /\ Cardinality(jobs) < JobLimit
     /\ jobs' = jobs \cup {c} /\ sessions' = sessions
     /\ proc' = [proc EXCEPT ![c] = "running"]
  \/ /\ Kind(c) = "open" /\ to = "launched" /\ jobs' = jobs /\ sessions' = sessions
     /\ proc' = [proc EXCEPT ![c] = "running"]
  \/ /\ Kind(c) = "open" /\ to = "answering" /\ Cardinality(sessions) < SessionLimit
     /\ jobs' = jobs /\ sessions' = sessions \cup {c} /\ proc' = proc
  \/ /\ Kind(c) = "open" /\ to = "answering" /\ jobs' = jobs /\ sessions' = sessions
     /\ proc' = [proc EXCEPT ![c] = "ended"]
  \/ /\ Kind(c) = "use" /\ to = "reaping" /\ jobs' = jobs
     /\ sessions' = sessions \ {Subject(c)} /\ proc' = Reaped(Subject(c))

Works(c) == EndTool(c) \/ StartJob(c) \/ LaunchSession(c) \/ EnterSession(c) \/ UseSession(c)
              \/ EndUse(c) \/ EndReaping(c)

LEMMA FinishesMove ==
  ASSUME NEW c, NEW o \in {"other", "started"}, c \in DOMAIN made, stage[c] \in Active,
         Finishes(c, o), o = "started" => Kind(c) \in Opening,
         UNCHANGED hostRest
  PROVE  TaskMove(c, "answering", o)
BY DEF TaskMove, Finishes, hostRest, Goal

LEMMA TaskHasMoved ==
  ASSUME NEW c, Works(c)
  PROVE  \E to \in Places, o \in {"other", "started"} : TaskMove(c, to, o) /\ TaskOwned(c, to)
<1> USE DEF Is, Places
<1>1. CASE EndTool(c)
  <2>1. TaskMove(c, "answering", "other")
    BY <1>1, FinishesMove DEF EndTool, Active
  <2> QED
    BY <1>1, <2>1 DEF EndTool, TaskOwned
<1>2. CASE StartJob(c)
  <2>1. CASE Cardinality(jobs) < JobLimit
    <3>1. TaskMove(c, "answering", "started")
      BY <1>2, <2>1, FinishesMove DEF StartJob, Active, Opening
    <3>2. TaskOwned(c, "answering")
      BY <1>2, <2>1 DEF StartJob, TaskOwned
    <3> QED
      BY <3>1, <3>2
  <2>2. CASE ~(Cardinality(jobs) < JobLimit)
    <3>1. TaskMove(c, "answering", "other")
      BY <1>2, <2>2, FinishesMove DEF StartJob, Active
    <3> QED
      BY <1>2, <2>2, <3>1 DEF StartJob, TaskOwned, ownedVars
  <2> QED
    BY <2>1, <2>2
<1>3. CASE LaunchSession(c)
  <2>1. CASE Finishes(c, "other") /\ UNCHANGED proc
    <3>1. TaskMove(c, "answering", "other")
      BY <1>3, <2>1, FinishesMove DEF LaunchSession, Active
    <3> QED
      BY <1>3, <2>1, <3>1 DEF LaunchSession, TaskOwned, ownedVars
  <2>2. CASE ~(Finishes(c, "other") /\ UNCHANGED proc)
    <3>1. TaskMove(c, "launched", "other")
      BY <1>3, <2>2 DEF LaunchSession, Active, TaskMove, hostRest, Goal
    <3> QED
      BY <1>3, <2>2, <3>1 DEF LaunchSession, TaskOwned, Active
  <2> QED
    BY <2>1, <2>2
<1>4. CASE EnterSession(c)
  <2>1. CASE RoomForSession
    <3>1. TaskMove(c, "answering", "started")
      BY <1>4, <2>1, FinishesMove DEF EnterSession, Active, Opening
    <3>2. TaskOwned(c, "answering")
      BY <1>4, <2>1 DEF EnterSession, RoomForSession, TaskOwned
    <3> QED
      BY <3>1, <3>2
  <2>2. CASE ~RoomForSession
    <3>1. TaskMove(c, "answering", "other")
      BY <1>4, <2>2, FinishesMove DEF EnterSession, Active
    <3> QED
      BY <1>4, <2>2, <3>1 DEF EnterSession, TaskOwned
  <2> QED
    BY <2>1, <2>2
<1>5. CASE UseSession(c)
  <2>1. CASE Finishes(c, "other")
    <3>1. TaskMove(c, "answering", "other")
      BY <1>5, <2>1, FinishesMove DEF UseSession, Active
    <3> QED
      BY <1>5, <3>1 DEF UseSession, TaskOwned
  <2>2. CASE ~Finishes(c, "other")
    <3>1. TaskMove(c, "exchanging", "other")
      BY <1>5, <2>2 DEF UseSession, Active, TaskMove, hostRest, Goal
    <3> QED
      BY <1>5, <3>1 DEF UseSession, TaskOwned, Active
  <2> QED
    BY <2>1, <2>2
<1>6. CASE EndUse(c)
  <2>1. CASE Finishes(c, "other") /\ UNCHANGED ownedVars
    <3>1. TaskMove(c, "answering", "other")
      BY <1>6, <2>1, FinishesMove DEF EndUse, Active
    <3> QED
      BY <1>6, <2>1, <3>1 DEF EndUse, TaskOwned
  <2>2. CASE ~(Finishes(c, "other") /\ UNCHANGED ownedVars)
    <3>1. TaskMove(c, "reaping", "other")
      BY <1>6, <2>2 DEF EndUse, Active, TaskMove, hostRest, Goal
    <3> QED
      BY <1>6, <2>2, <3>1 DEF EndUse, TaskOwned, Active
  <2> QED
    BY <2>1, <2>2
<1>7. CASE EndReaping(c)
  <2>1. TaskMove(c, "answering", "other")
    BY <1>7, FinishesMove DEF EndReaping, Active
  <2> QED
    BY <1>7, <2>1 DEF EndReaping, TaskOwned
<1> QED
  BY <1>1, <1>2, <1>3, <1>4, <1>5, <1>6, <1>7 DEF Works

\* Processes only end, and tables only shrink.
Shrinks == /\ jobs' \subseteq jobs /\ sessions' \subseteq sessions
           /\ proc' \in [Calls -> {"none", "running", "told", "ended"}]
           /\ \A s \in Calls : /\ proc'[s] = "running" => proc[s] = "running"
                               /\ proc[s] = "ended" /\ s \notin jobs \cup sessions
                                    => proc'[s] = "ended"
                               /\ proc'[s] = "running" /\ s \in jobs \cup sessions
                                    => s \in jobs' \cup sessions'

\* An answer: the call is over, and the driver hears of it if it still waits.
Spoken(c, o) == /\ o = "ended" => /\ Kind(c) \in OnJob \cup OnSession
                                  /\ proc'[Subject(c)] = "ended"
                                  /\ Subject(c) \notin jobs' \cup sessions'
                /\ o = "started" => Kind(c) \in Opening
                /\ proc'[c] = "running" => known # {}
Answered(c, o) ==
  /\ c \in DOMAIN made /\ stage' = [stage EXCEPT ![c] = "over"]
  /\ registered' = registered \ {c} /\ outcome' \in {outcome, [outcome EXCEPT ![c] = "none"]}
  /\ Heard(c, o) /\ Spoken(c, o) /\ Shrinks
  /\ UNCHANGED <<repertoire, home, up, known, made, refused>>

\* A call that is given to a task, or that the reader waits for.
Entered(c, to) ==
  /\ c \in DOMAIN made /\ to \in {"working", "closing"} /\ Goal(Kind(c), to)
  /\ stage' = [stage EXCEPT ![c] = to]
  /\ AdmitsCall(c) /\ registered' = registered \cup {c} /\ outcome' = outcome
  /\ Shrinks /\ (to = "closing" => Subject(c) \notin sessions')
  /\ loop' \in {"reading", "closing"}
  /\ UNCHANGED <<repertoire, home, driverVars, up, known, made, refused>>

Refuses(c) ==
  /\ c \in DOMAIN made /\ ~AdmitsCall(c) /\ stage' = [stage EXCEPT ![c] = "over"]
  /\ loop' = "broken" /\ refused' = c /\ DriverGoes
  /\ UNCHANGED <<repertoire, home, known, made, tokens, lost, learned, outcome, registered,
                 ownedVars>>

ReadsCall(c) == /\ wire # <<>> /\ Head(wire) = Call(c) /\ loop = "reading"
                /\ \/ /\ wire' = Tail(wire)
                      /\ \/ \E o : Answered(c, o) /\ loop' = loop
                         \/ \E to : Entered(c, to)
                   \/ Refuses(c)
ReadsResult(p) ==
  /\ wire # <<>> /\ Head(wire) = Result(p) /\ wire' = Tail(wire) /\ known' = known \ {p}
  /\ UNCHANGED <<repertoire, home, driverVars, up, made, callVars, ownedVars, loopVars>>

\* Only jobs and sessions have a process that runs.
LEMMA RunningKinds ==
  ASSUME ShapeInv, KindInv, ProcInv, NEW c \in Calls, proc[c] = "running"
  PROVE  c \in DOMAIN made /\ ((Kind(c) = "start" /\ c \in jobs) \/ Kind(c) = "open")
<1>1. c \in jobs \cup sessions \/ stage[c] = "launched"
  BY DEF ProcInv, NoProcessIsForgotten
<1>2. c \in DOMAIN made
  BY <1>1 DEF ShapeInv, MadeInv
<1> QED
  BY <1>1, <1>2 DEF KindInv

LEMMA SameShrinks == ASSUME OwnedTypeOK, UNCHANGED ownedVars
                     PROVE  Shrinks
BY DEF Shrinks, OwnedTypeOK, ownedVars

LEMMA ReapedShrinks ==
  ASSUME ShapeInv, KindInv, NEW s \in Calls, jobs' = jobs, sessions' = sessions \ {s},
         proc' = Reaped(s)
  PROVE  Shrinks
<1>1. /\ proc' \in [Calls -> {"none", "running", "told", "ended"}]
      /\ proc'[s] = IF s \in sessions THEN "told" ELSE proc[s]
      /\ \A d \in Calls : d # s => proc'[d] = proc[d]
  BY ReapedType DEF ShapeInv
<1> QED
  BY <1>1 DEF Shrinks

LEMMA StoppedShrinks ==
  ASSUME ShapeInv, NEW S, proc' = Stopped(S), jobs' = jobs \ S, sessions' = sessions \ S
  PROVE  Shrinks
<1>1. /\ proc' \in [Calls -> {"none", "running", "told", "ended"}]
      /\ \A c \in Calls : /\ proc'[c] = "running" <=> proc[c] = "running" /\ c \notin S
                          /\ proc[c] = "ended" => proc'[c] = "ended"
  BY StoppedType DEF ShapeInv
<1> QED
  BY <1>1 DEF Shrinks

LEMMA AnswerHasEffect ==
  ASSUME ShapeInv, KindInv, CallInv, ProcInv, NEW c \in Calls, AnswerCall(c)
  PROVE  stage[c] \in {"answering", "closing"} /\ \E o : Answered(c, o) /\ UNCHANGED <<wire, loop>>
<1>1. /\ c \in DOMAIN made /\ stage[c] = "answering" /\ stage' = [stage EXCEPT ![c] = "over"]
      /\ registered' = registered \ {c} /\ outcome' = [outcome EXCEPT ![c] = "none"]
      /\ UNCHANGED <<repertoire, home, up, known, made, refused, wire, loop>>
  BY DEF AnswerCall, loopVars, CallInv, Active
<1>2. CASE Parent(c) \in known \/ Kind(c) = "use"
  <2>1. Heard(c, outcome[c]) /\ UNCHANGED ownedVars
    BY <1>2, HearsEffect DEF AnswerCall
  <2>2. Shrinks
    BY <2>1, SameShrinks DEF ShapeInv
  <2>3. outcome[c] # "ended" /\ (outcome[c] = "started" => Kind(c) \in Opening)
    BY <1>1 DEF ShapeInv, CallTypeOK, KindInv
  <2>4. proc'[c] = "running" => known # {}
    BY <1>2, <2>1, RunningKinds DEF ownedVars
  <2> QED
    BY <1>1, <2>1, <2>2, <2>3, <2>4 DEF Answered, Spoken
<1>3. CASE ~(Parent(c) \in known \/ Kind(c) = "use")
  <2>1. /\ jobs' = jobs \ {c} /\ sessions' = sessions \ {c}
        /\ proc' = Stopped({c} \cap (jobs \cup sessions))
        /\ UNCHANGED driverVars
    BY <1>3 DEF AnswerCall
  <2>2. /\ proc' \in [Calls -> {"none", "running", "told", "ended"}]
        /\ \A d \in Calls :
             /\ proc'[d] = "running" <=>
                  proc[d] = "running" /\ d \notin {c} \cap (jobs \cup sessions)
             /\ proc[d] = "ended" => proc'[d] = "ended"
    BY <2>1, StoppedType DEF ShapeInv
  <2>3. Shrinks
    BY <2>1, <2>2 DEF Shrinks
  <2>4. proc'[c] # "running"
    BY <1>1, <2>2 DEF ProcInv, NoProcessIsForgotten
  <2>5. Heard(c, "other") /\ Spoken(c, "other")
    BY <2>1, <2>4 DEF Heard, Spoken, driverVars
  <2> QED
    BY <1>1, <2>3, <2>5 DEF Answered
<1> QED
  BY <1>2, <1>3

LEMMA ClosingHasEffect ==
  ASSUME ShapeInv, KindInv, SubjectInv, ProcInv, NEW c \in Calls, FinishClose(c)
  PROVE  stage[c] = "closing" /\ Answered(c, "ended") /\ UNCHANGED wire /\ loop' = "reading"
<1>1. /\ c \in DOMAIN made /\ Kind(c) = "close" /\ stage[c] = "closing"
      /\ proc[Subject(c)] = "ended"
      /\ stage' = [stage EXCEPT ![c] = "over"] /\ registered' = registered \ {c}
      /\ outcome' = outcome /\ loop' = "reading" /\ Heard(c, "ended")
      /\ UNCHANGED <<repertoire, home, up, known, made, refused, wire, ownedVars>>
  BY HearsEffect DEF FinishClose, Is
<1>2. Shrinks
  BY <1>1, SameShrinks DEF ShapeInv
<1>3. Kind(Subject(c)) = "open" /\ Subject(c) \notin jobs \cup sessions
  BY <1>1 DEF SubjectInv, OnSession, ProcInv, KindInv
<1>4. proc'[c] # "running"
  BY <1>1, RunningKinds DEF ownedVars
<1>5. Spoken(c, "ended")
  BY <1>1, <1>3, <1>4 DEF Spoken, OnSession, ownedVars
<1> QED
  BY <1>1, <1>2, <1>5 DEF Answered

\* What the reader says by itself.
LEMMA RepliesEffect ==
  ASSUME NEW c \in DOMAIN made, NEW o, Replies(c, o), c \notin registered,
         Spoken(c, o), Shrinks, UNCHANGED <<repertoire, home, up, known, made, refused>>
  PROVE  Answered(c, o)
BY HearsEffect DEF Answered, Replies

LEMMA SilentReply ==
  ASSUME ShapeInv, KindInv, ProcInv, NEW c \in DOMAIN made, Kind(c) \notin Opening,
         Shrinks, NEW o, o \notin {"ended", "started"}
  PROVE  Spoken(c, o)
<1>1. c \in Calls
  BY MadeType DEF ShapeInv
<1>2. proc[c] # "running"
  BY <1>1, RunningKinds DEF Opening
<1> QED
  BY <1>1, <1>2 DEF Spoken, Shrinks

LEMMA CollectEffect ==
  ASSUME ShapeInv, KindInv, SubjectInv, ProcInv, NEW c \in DOMAIN made, Kind(c) \in OnJob,
         OwnJob(c), proc[Subject(c)] = "ended", Collect(c), c \notin registered,
         UNCHANGED <<repertoire, home, up, known, made, refused>>
  PROVE  Answered(c, "ended") /\ loop' = loop
<1>1. /\ Replies(c, "ended") /\ jobs' = jobs \ {Subject(c)}
      /\ UNCHANGED <<sessions, proc, loop>>
  BY DEF Collect
<1>2. Shrinks
  BY <1>1 DEF Shrinks, ShapeInv, OwnedTypeOK
<1>3. Subject(c) \notin sessions
  BY DEF SubjectInv, KindInv
<1>4. c \in Calls
  BY MadeType DEF ShapeInv
<1>5. proc[c] # "running"
  BY <1>4, RunningKinds DEF OnJob
<1>6. Spoken(c, "ended")
  BY <1>1, <1>3, <1>5 DEF Spoken
<1> QED
  BY <1>1, <1>2, <1>6, RepliesEffect

LEMMA TakenHasEffect ==
  ASSUME ShapeInv, KindInv, SubjectInv, ProcInv, NEW c \in DOMAIN made, TakeCall(c),
         loop = "reading", c \notin registered, UNCHANGED <<repertoire, home, known, made>>
  PROVE  \/ /\ wire' = Tail(wire)
            /\ \/ \E o : Answered(c, o) /\ loop' = loop
               \/ \E to : Entered(c, to)
         \/ Refuses(c)
<1>1. CASE ~AdmitsCall(c)
  BY <1>1 DEF TakeCall, Refuses
<1>2. ASSUME AdmitsCall(c)
      PROVE  wire' = Tail(wire) /\ UNCHANGED <<up, refused>>
  BY <1>2 DEF TakeCall
<1>3. ASSUME AdmitsCall(c), Replies(c, "other"), UNCHANGED <<ownedVars, loop>>,
             Kind(c) \notin Opening
      PROVE  Answered(c, "other") /\ loop' = loop
  <2>1. Shrinks
    BY <1>3, SameShrinks DEF ShapeInv
  <2>2. Spoken(c, "other")
    BY <1>3, <2>1, SilentReply
  <2> QED
    BY <1>2, <1>3, <2>1, <2>2, RepliesEffect
<1>4. ASSUME AdmitsCall(c), Kind(c) = "status", AnswerStatus(c)
      PROVE  \E o : Answered(c, o) /\ loop' = loop
  <2>1. CASE OwnJob(c) /\ proc[Subject(c)] = "ended" /\ Collect(c)
    BY <1>2, <1>4, <2>1, CollectEffect DEF OnJob
  <2>2. CASE Replies(c, "other") /\ UNCHANGED <<ownedVars, loop>>
    BY <1>3, <1>4, <2>2 DEF Opening
  <2> QED
    BY <1>4, <2>1, <2>2 DEF AnswerStatus
<1>5. ASSUME AdmitsCall(c), Kind(c) = "cancel", AnswerCancel(c)
      PROVE  \E o : Answered(c, o) /\ loop' = loop
  <2>1. CASE OwnJob(c) /\ proc[Subject(c)] = "ended" /\ Collect(c)
    BY <1>2, <1>5, <2>1, CollectEffect DEF OnJob
  <2>2. CASE Replies(c, "other") /\ UNCHANGED <<ownedVars, loop>>
    BY <1>3, <1>5, <2>2 DEF Opening
  <2>3. ASSUME OwnJob(c), proc[Subject(c)] # "ended",
               proc' = [proc EXCEPT ![Subject(c)] = "told"], Replies(c, "other"),
               UNCHANGED <<jobs, sessions, loop>>
        PROVE  Answered(c, "other") /\ loop' = loop
    <3>1. Subject(c) \in Calls
      BY <2>3, MadeType DEF OwnJob, ShapeInv, MadeInv
    <3>2. /\ proc' \in [Calls -> {"none", "running", "told", "ended"}]
          /\ proc'[Subject(c)] = "told"
          /\ \A d \in Calls : d # Subject(c) => proc'[d] = proc[d]
      BY <2>3, <3>1, ProcMoves DEF ShapeInv
    <3>3. Shrinks
      BY <2>3, <3>1, <3>2 DEF Shrinks
    <3>4. Spoken(c, "other")
      BY <1>5, <3>3, SilentReply DEF Opening
    <3> QED
      BY <1>2, <1>5, <2>3, <3>3, <3>4, RepliesEffect
  <2> QED
    BY <1>5, <2>1, <2>2, <2>3 DEF AnswerCancel
<1>6. ASSUME AdmitsCall(c), Kind(c) = "close", AnswerClose(c)
      PROVE  \/ \E o : Answered(c, o) /\ loop' = loop
             \/ \E to : Entered(c, to)
  <2>1. CASE Subject(c) \notin sessions
    BY <1>3, <1>6, <2>1 DEF AnswerClose, Opening
  <2>2. CASE Subject(c) \in sessions
    <3>1. /\ sessions' = sessions \ {Subject(c)} /\ proc' = Reaped(Subject(c))
          /\ jobs' = jobs /\ loop' = "closing" /\ stage' = [stage EXCEPT ![c] = "closing"]
          /\ registered' = registered \cup {c} /\ UNCHANGED <<outcome, driverVars>>
      BY <1>6, <2>2 DEF AnswerClose
    <3>2. Subject(c) \in Calls
      BY <2>2, MadeType DEF ShapeInv, MadeInv
    <3>3. Shrinks
      BY <3>1, <3>2, ReapedShrinks
    <3>4. Entered(c, "closing")
      BY <1>2, <1>6, <3>1, <3>3 DEF Entered, Goal
    <3> QED
      BY <3>4
  <2> QED
    BY <2>1, <2>2
<1>7. ASSUME AdmitsCall(c), Spawn(c)
      PROVE  Entered(c, "working")
  <2>1. Shrinks
    BY <1>7, SameShrinks DEF Spawn, ShapeInv
  <2> QED
    BY <1>2, <1>7, <2>1 DEF Spawn, Entered, Goal
<1> QED
  BY <1>1, <1>2, <1>4, <1>5, <1>6, <1>7 DEF TakeCall

LEMMA ReadHasEffect ==
  ASSUME ShapeInv, KindInv, SubjectInv, CallInv, ProcInv, ReadWire
  PROVE  \/ \E c \in DOMAIN made : ReadsCall(c)
         \/ \E p \in Parents : ReadsResult(p)
<1>1. wire # <<>> /\ wire \in Seq(Written) /\ loop = "reading"
      /\ UNCHANGED <<repertoire, home, made>>
  BY DEF ReadWire, ShapeInv, ParentTypeOK
<1>2. Head(wire) \in Written
  BY <1>1, WireIsRead
<1>3. CASE \E c \in Calls : Head(wire) = Call(c)
  <2>1. PICK c \in Calls : Head(wire) = Call(c)
    BY <1>3
  <2>2. c \in CallsOn(wire)
    BY <1>1, <2>1, WireIsRead
  <2>3. c \in DOMAIN made /\ c \notin registered
    BY <2>2 DEF ShapeInv, MadeInv, CallInv, Active
  <2>4. TakeCall(c) /\ UNCHANGED known
    BY <2>1, WrittenDiffer DEF ReadWire
  <2> QED
    BY <1>1, <2>1, <2>3, <2>4, TakenHasEffect DEF ReadsCall
<1>4. CASE \E p \in Parents : Head(wire) = Result(p)
  <2>1. PICK p \in Parents : Head(wire) = Result(p)
    BY <1>4
  <2> QED
    BY <1>1, <2>1, WrittenDiffer DEF ReadWire, ReadsResult
<1> QED
  BY <1>2, <1>3, <1>4 DEF Written

\* Processes that end by themselves, or for being told to.
Ends == /\ Shrinks
        /\ UNCHANGED <<repertoire, home, driverVars, wire, up, known, made, callVars, loopVars>>

LEMMA EndsEffect ==
  ASSUME ShapeInv, KindInv, NEW c \in Calls, Reap(c) \/ EndJobProcess(c) \/ ExpireSession(c)
  PROVE  Ends
<1>1. CASE proc' = [proc EXCEPT ![c] = "ended"] /\ UNCHANGED <<hostRest, callVars, jobs, sessions>>
  <2>1. /\ proc' \in [Calls -> {"none", "running", "told", "ended"}]
        /\ proc'[c] = "ended" /\ \A d \in Calls : d # c => proc'[d] = proc[d]
    BY <1>1, ProcMoves DEF ShapeInv
  <2> QED
    BY <1>1, <2>1 DEF Ends, Shrinks, hostRest
<1>2. CASE ExpireSession(c)
  <2>1. Shrinks
    BY <1>2, ReapedShrinks DEF ExpireSession
  <2> QED
    BY <1>2, <2>1 DEF Ends, ExpireSession, hostRest
<1> QED
  BY <1>1, <1>2 DEF Reap, EndJobProcess

\* A step of the whole, in these terms.
LEMMA ToolsMoves ==
  ASSUME ShapeInv, KindInv, SubjectInv, CallInv, ProcInv, ToolsNext
  PROVE  \/ \E p \in Parents : ParentStep(p) \/ ReadsResult(p)
         \/ DriverDies \/ ReadEnd \/ DrainNext \/ Ends
         \/ \E c \in DOMAIN made : ReadsCall(c)
         \/ \E c \in Calls, to \in Places, o \in {"other", "started"} :
              TaskMove(c, to, o) /\ TaskOwned(c, to)
         \/ \E c \in Calls : \E o :
              /\ Answered(c, o) /\ stage[c] \in {"answering", "closing"}
              /\ wire' = wire /\ loop' \in {loop, "reading"}
<1>1. CASE \E p \in Parents : ParentStep(p)
  BY <1>1
<1>2. CASE DriverDies \/ ReadEnd \/ DrainNext
  BY <1>2
<1>3. CASE ReadWire
  BY <1>3, ReadHasEffect
<1>4. ASSUME NEW c \in Calls, ToolTask(c) \/ EndJobProcess(c) \/ ExpireSession(c)
      PROVE  \/ Ends
             \/ \E to \in Places, o \in {"other", "started"} :
                  TaskMove(c, to, o) /\ TaskOwned(c, to)
             \/ \E o : /\ Answered(c, o) /\ stage[c] \in {"answering", "closing"}
                       /\ wire' = wire /\ loop' \in {loop, "reading"}
  <2>1. CASE Works(c)
    BY <2>1, TaskHasMoved
  <2>2. CASE Reap(c) \/ EndJobProcess(c) \/ ExpireSession(c)
    BY <2>2, EndsEffect
  <2>3. CASE AnswerCall(c)
    BY <2>3, AnswerHasEffect
  <2>4. CASE FinishClose(c)
    BY <2>4, ClosingHasEffect
  <2> QED
    BY <1>4, <2>1, <2>2, <2>3, <2>4 DEF ToolTask, Works
<1> QED
  BY <1>1, <1>2, <1>3, <1>4 DEF ToolsNext, Reader

-----------------------------------------------------------------------------
(* Shapes. *)

LEMMA ShrinksShape ==
  ASSUME ShapeInv, Shrinks, UNCHANGED made
  PROVE  jobs' \cup sessions' \subseteq DOMAIN made'
BY DEF ShapeInv, MadeInv, Shrinks

LEMMA AnsweredShape ==
  ASSUME ShapeInv, SubjectInv, NEW c, NEW o, Answered(c, o), wire' \in {wire, Tail(wire)},
         wire = <<>> => wire' = wire, loop' \in {loop, "reading"}
  PROVE  ShapeInv'
<1>1. c \in DOMAIN made /\ c \in Calls
  BY MadeType DEF ShapeInv, Answered
<1>2. wire' \in Seq(Written) /\ CallsOn(wire') \subseteq CallsOn(wire)
  BY WireIsRead DEF ShapeInv, ParentTypeOK
<1>3. /\ turn' \in [Parents -> {"idle", "running", "over"}]
      /\ tokens' \subseteq Parents /\ lost' \subseteq Parents
      /\ awaits' \in [Parents -> Calls \cup {NoCall}]
      /\ handles' \cup learned' \subseteq DOMAIN made
  BY <1>1, HearsType DEF ShapeInv, Answered, Spoken
<1>4. /\ stage' \in [Calls -> {"none", "working", "launched", "exchanging", "reaping",
                               "closing", "answering", "over"}]
      /\ \A d \in Calls \ DOMAIN made' : stage'[d] = "none"
  BY <1>1, StageMoves DEF ShapeInv, Answered
<1>5. ParentTypeOK'
  BY <1>2, <1>3 DEF ParentTypeOK, ShapeInv, Answered
<1>6. CallTypeOK' /\ OwnedTypeOK'
  <2>1. outcome' \in [Calls -> {"none", "other", "started"}]
    BY <1>1 DEF CallTypeOK, ShapeInv, Answered
  <2> QED
    BY <1>4, <2>1 DEF CallTypeOK, OwnedTypeOK, ShapeInv, Answered, Shrinks
<1>7. MadeInv'
  BY <1>2, <1>3, <1>4, ShrinksShape DEF MadeInv, ShapeInv, Answered
<1> QED
  BY <1>5, <1>6, <1>7 DEF ShapeInv

LEMMA EnteredShape ==
  ASSUME ShapeInv, NEW c, NEW to, Entered(c, to), wire # <<>>, wire' = Tail(wire)
  PROVE  ShapeInv'
<1>1. c \in DOMAIN made /\ c \in Calls
  BY MadeType DEF ShapeInv, Entered
<1>2. wire' \in Seq(Written) /\ CallsOn(wire') \subseteq CallsOn(wire)
  BY WireIsRead DEF ShapeInv, ParentTypeOK
<1>3. /\ stage' \in [Calls -> {"none", "working", "launched", "exchanging", "reaping",
                               "closing", "answering", "over"}]
      /\ \A d \in Calls \ DOMAIN made' : stage'[d] = "none"
  BY <1>1, StageMoves DEF ShapeInv, Entered
<1>4. ParentTypeOK'
  BY <1>2 DEF ParentTypeOK, ShapeInv, Entered, driverVars
<1>5. CallTypeOK' /\ OwnedTypeOK'
  BY <1>3 DEF CallTypeOK, OwnedTypeOK, ShapeInv, Entered, Shrinks
<1>6. MadeInv'
  BY <1>1, <1>2, <1>3, ShrinksShape DEF MadeInv, ShapeInv, Entered, driverVars
<1> QED
  BY <1>4, <1>5, <1>6 DEF ShapeInv

LEMMA RefusesShape ==
  ASSUME ShapeInv, NEW c, Refuses(c)
  PROVE  ShapeInv'
<1>1. c \in DOMAIN made /\ c \in Calls
  BY MadeType DEF ShapeInv, Refuses
<1>2. /\ stage' \in [Calls -> {"none", "working", "launched", "exchanging", "reaping",
                               "closing", "answering", "over"}]
      /\ \A d \in Calls \ DOMAIN made' : stage'[d] = "none"
  BY <1>1, StageMoves DEF ShapeInv, Refuses
<1>3. ParentTypeOK'
  BY GoneType DEF ParentTypeOK, ShapeInv, Refuses
<1>4. CallTypeOK' /\ OwnedTypeOK'
  BY <1>2 DEF CallTypeOK, OwnedTypeOK, ShapeInv, Refuses, ownedVars
<1>5. MadeInv'
  BY <1>1, <1>2, GoneType DEF MadeInv, ShapeInv, Refuses, ownedVars
<1> QED
  BY <1>3, <1>4, <1>5 DEF ShapeInv

LEMMA TaskShape ==
  ASSUME ShapeInv, NEW c \in Calls, NEW to \in Places, NEW o \in {"other", "started"},
         TaskMove(c, to, o), TaskOwned(c, to)
  PROVE  ShapeInv'
<1>1. c \in DOMAIN made
  BY DEF TaskMove
<1>2. /\ stage' \in [Calls -> {"none", "working", "launched", "exchanging", "reaping",
                               "closing", "answering", "over"}]
      /\ \A d \in Calls \ DOMAIN made' : stage'[d] = "none"
  BY <1>1, StageMoves DEF ShapeInv, TaskMove, Places, Active
<1>3. outcome' \in [Calls -> {"none", "other", "started"}] /\ registered' \subseteq registered
  BY DEF ShapeInv, CallTypeOK, TaskMove
<1>4. /\ proc' \in [Calls -> {"none", "running", "told", "ended"}]
      /\ jobs' \subseteq jobs \cup {c} /\ sessions' \subseteq sessions \cup {c}
  <2>1. ASSUME Kind(c) = "use", proc' = Reaped(Subject(c)), sessions' = sessions \ {Subject(c)},
               jobs' = jobs
        PROVE  proc' \in [Calls -> {"none", "running", "told", "ended"}]
    BY <2>1 DEF ShapeInv, OwnedTypeOK, Reaped
  <2> QED
    BY <2>1 DEF ShapeInv, OwnedTypeOK, TaskOwned, ownedVars
<1>5. ParentTypeOK'
  BY DEF ParentTypeOK, ShapeInv, TaskMove, driverVars
<1>6. CallTypeOK' /\ OwnedTypeOK'
  BY <1>2, <1>3, <1>4 DEF CallTypeOK, OwnedTypeOK, ShapeInv, TaskMove, loopVars
<1>7. MadeInv'
  BY <1>1, <1>2, <1>3, <1>4 DEF MadeInv, ShapeInv, TaskMove, driverVars, loopVars
<1> QED
  BY <1>5, <1>6, <1>7 DEF ShapeInv

LEMMA DrainShape == ASSUME ShapeInv, DrainNext
                    PROVE  ShapeInv'
<1>1. loop' \in {"parents", "jobs", "over"}
  BY DEF DrainNext, After, DrainOrder
<1>2. proc' \in [Calls -> {"none", "running", "told", "ended"}]
  BY DEF DrainNext, Draining, DrainOrder, ShapeInv, OwnedTypeOK, Stopped
<1>3. known' \subseteq known /\ jobs' \subseteq jobs /\ sessions' \subseteq sessions
  BY DEF DrainNext
<1>4. ParentTypeOK'
  BY <1>3 DEF ParentTypeOK, ShapeInv, DrainNext, driverVars
<1>5. CallTypeOK' /\ OwnedTypeOK'
  BY <1>1, <1>2 DEF CallTypeOK, OwnedTypeOK, ShapeInv, DrainNext, callVars
<1>6. MadeInv'
  BY <1>3 DEF MadeInv, ShapeInv, DrainNext, driverVars, callVars
<1> QED
  BY <1>4, <1>5, <1>6 DEF ShapeInv

LEMMA ShapeStep ==
  ASSUME ShapeInv, KindInv, SubjectInv, CallInv, ProcInv, [ToolsNext]_toolsVars
  PROVE  ShapeInv'
<1>1. ASSUME NEW p \in Parents, ReadsResult(p)
      PROVE  ShapeInv'
  <2>1. /\ wire # <<>> /\ wire' = Tail(wire) /\ known' \subseteq known
        /\ wire' \in Seq(Written) /\ CallsOn(wire') \subseteq CallsOn(wire)
    BY <1>1, WireIsRead DEF ReadsResult, ShapeInv, ParentTypeOK
  <2>2. ParentTypeOK'
    BY <1>1, <2>1 DEF ParentTypeOK, ShapeInv, ReadsResult, driverVars
  <2>3. CallTypeOK' /\ OwnedTypeOK'
    BY <1>1 DEF CallTypeOK, OwnedTypeOK, ShapeInv, ReadsResult, callVars, ownedVars, loopVars
  <2>4. MadeInv'
    BY <1>1, <2>1 DEF MadeInv, ShapeInv, ReadsResult, driverVars, callVars, ownedVars, loopVars
  <2> QED
    BY <2>2, <2>3, <2>4 DEF ShapeInv
<1>2. CASE Ends
  <2>1. ParentTypeOK'
    BY <1>2 DEF ParentTypeOK, ShapeInv, Ends, driverVars
  <2>2. CallTypeOK' /\ OwnedTypeOK'
    BY <1>2 DEF CallTypeOK, OwnedTypeOK, ShapeInv, Ends, Shrinks, callVars, loopVars
  <2>3. MadeInv'
    BY <1>2, ShrinksShape DEF MadeInv, ShapeInv, Ends, driverVars, callVars, loopVars
  <2> QED
    BY <2>1, <2>2, <2>3 DEF ShapeInv
<1>3. ASSUME NEW c \in DOMAIN made, ReadsCall(c)
      PROVE  ShapeInv'
  <2>1. ASSUME NEW o, Answered(c, o), wire' = Tail(wire), loop' = loop
        PROVE  ShapeInv'
    BY <1>3, <2>1, AnsweredShape DEF ReadsCall
  <2>2. ASSUME NEW to, Entered(c, to), wire' = Tail(wire)
        PROVE  ShapeInv'
    BY <1>3, <2>2, EnteredShape DEF ReadsCall
  <2> QED
    BY <1>3, <2>1, <2>2, RefusesShape DEF ReadsCall
<1>4. CASE ReadEnd
  BY <1>4 DEF ReadEnd, ShapeInv, ParentTypeOK, CallTypeOK, OwnedTypeOK, MadeInv, driverVars,
              callVars, ownedVars
<1>5. CASE UNCHANGED toolsVars
  BY <1>5 DEF toolsVars, ShapeInv, ParentTypeOK, CallTypeOK, OwnedTypeOK, MadeInv, driverVars,
              callVars, ownedVars, loopVars
<1>6. ASSUME NEW c \in Calls, NEW o, Answered(c, o), wire' = wire, loop' \in {loop, "reading"}
      PROVE  ShapeInv'
  BY <1>6, AnsweredShape
<1> QED
  BY <1>1, <1>2, <1>3, <1>4, <1>5, <1>6, ToolsMoves, ParentShape, DeathShape, DrainShape,
     TaskShape

-----------------------------------------------------------------------------
(* Kinds. *)

LEMMA KindSame ==
  ASSUME ShapeInv, KindInv, SubjectInv, made' = made, stage' = stage, outcome' = outcome,
         handles' \subseteq handles, jobs' \subseteq jobs, sessions' \subseteq sessions
  PROVE  KindInv' /\ SubjectInv'
<1>1. KindInv'
  BY DEF KindInv, Kind
<1>2. SubjectInv'
  BY DEF SubjectInv, Kind, Subject
<1> QED
  BY <1>1, <1>2

\* A call that is made is the last one.
LEMMA MakeEffect ==
  ASSUME ShapeInv, NEW p \in Parents, NEW k \in repertoire, NEW s \in handles \cup {NoCall},
         MakeCall(p, k, s)
  PROVE  \E c \in Calls \ DOMAIN made :
           /\ DOMAIN made' = DOMAIN made \cup {c} /\ stage[c] = "none"
           /\ wire' = Append(wire, Call(c)) /\ awaits' = [awaits EXCEPT ![p] = c]
           /\ \A d \in DOMAIN made :
                Kind(d)' = Kind(d) /\ Subject(d)' = Subject(d) /\ Parent(d)' = Parent(d)
           /\ Kind(c)' = k /\ Subject(c)' = s /\ Parent(c)' = p
<1> DEFINE r == [kind |-> k, parent |-> p, subject |-> s]
<1>1. PICK c : c = Len(made) + 1
  OBVIOUS
<1>2. r \in [kind : Kinds, parent : Parents, subject : Calls \cup {NoCall}]
  BY ToolsAssumption, MadeType DEF ShapeInv, ParentTypeOK, MadeInv
<1>3. /\ made' = Append(made, r) /\ Len(made) < MaxMade
      /\ wire' = Append(wire, Call(c)) /\ awaits' = [awaits EXCEPT ![p] = c]
  BY <1>1 DEF MakeCall
<1>4. /\ c \in Calls \ DOMAIN made /\ DOMAIN made' = DOMAIN made \cup {c}
      /\ \A d \in DOMAIN made : made'[d] = made[d]
      /\ made'[c] = r
  BY <1>1, <1>2, <1>3, MadeGrows DEF ShapeInv
<1>5. /\ \A d \in DOMAIN made :
           Kind(d)' = Kind(d) /\ Subject(d)' = Subject(d) /\ Parent(d)' = Parent(d)
      /\ Kind(c)' = k /\ Subject(c)' = s /\ Parent(c)' = p
  BY <1>4 DEF Kind, Subject, Parent
<1>6. stage[c] = "none"
  BY <1>4 DEF ShapeInv, MadeInv
<1> QED
  BY <1>3, <1>4, <1>5, <1>6

LEMMA KindMade ==
  ASSUME ShapeInv, KindInv, SubjectInv, NEW p \in Parents, NEW k \in repertoire,
         NEW s \in handles \cup {NoCall}, MakeCall(p, k, s)
  PROVE  KindInv' /\ SubjectInv'
<1>1. PICK c \in Calls \ DOMAIN made :
        /\ DOMAIN made' = DOMAIN made \cup {c} /\ stage[c] = "none"
        /\ wire' = Append(wire, Call(c)) /\ awaits' = [awaits EXCEPT ![p] = c]
        /\ \A d \in DOMAIN made :
             Kind(d)' = Kind(d) /\ Subject(d)' = Subject(d) /\ Parent(d)' = Parent(d)
        /\ Kind(c)' = k /\ Subject(c)' = s /\ Parent(c)' = p
  BY MakeEffect
<1>2. /\ UNCHANGED <<stage, outcome, jobs, sessions, handles>>
      /\ k \in OnJob \cup OnSession => s \in handles
      /\ k \in OnJob => Kind(s) = "start"
      /\ k \in OnSession => Kind(s) = "open"
  BY DEF MakeCall, callVars, ownedVars
<1>3. handles \subseteq DOMAIN made /\ jobs \subseteq DOMAIN made /\ sessions \subseteq DOMAIN made
  BY DEF ShapeInv, MadeInv
<1>4. KindInv'
  BY <1>1, <1>2, <1>3 DEF KindInv
<1>5. \A d \in handles : d \in DOMAIN made /\ stage[d] = "over"
  BY <1>3 DEF KindInv
<1>6. SubjectInv'
  BY <1>1, <1>2, <1>5 DEF SubjectInv
<1> QED
  BY <1>4, <1>6

\* A call that was not over goes somewhere.
LEMMA SubjectMoves ==
  ASSUME ShapeInv, SubjectInv, NEW c \in DOMAIN made, NEW to, made' = made,
         stage' = [stage EXCEPT ![c] = to], stage[c] # "over" \/ to = "over"
  PROVE  SubjectInv' /\ \A d \in Calls : stage[d] = "over" => stage'[d] = "over"
<1>1. \A d \in Calls : stage'[d] = IF d = c THEN to ELSE stage[d]
  BY DEF ShapeInv, CallTypeOK
<1>2. DOMAIN made \subseteq Calls
  BY MadeType DEF ShapeInv
<1> QED
  BY <1>1, <1>2 DEF SubjectInv, Kind, Subject

LEMMA KindAnswered ==
  ASSUME ShapeInv, KindInv, SubjectInv, NEW c, NEW o, Answered(c, o)
  PROVE  KindInv' /\ SubjectInv'
<1>1. c \in DOMAIN made /\ made' = made /\ stage' = [stage EXCEPT ![c] = "over"]
      /\ jobs' \subseteq jobs /\ sessions' \subseteq sessions
      /\ outcome' \in {outcome, [outcome EXCEPT ![c] = "none"]}
      /\ \A h \in handles' : h \in handles \/ (h = c /\ Kind(c) \in Opening)
  BY DEF Answered, Heard, Shrinks, Spoken
<1>2. DOMAIN made \subseteq Calls /\ handles \subseteq DOMAIN made
  BY MadeType DEF ShapeInv, MadeInv
<1>3. SubjectInv' /\ \A d \in Calls : stage[d] = "over" => stage'[d] = "over"
  BY <1>1, SubjectMoves
<1>4. /\ \A d \in Calls : stage'[d] = IF d = c THEN "over" ELSE stage[d]
      /\ \A d \in Calls : outcome'[d] \in {outcome[d], "none"}
  BY <1>1 DEF ShapeInv, CallTypeOK
<1>5. KindInv'
  BY <1>1, <1>2, <1>4 DEF KindInv, Kind
<1> QED
  BY <1>3, <1>5

LEMMA KindEntered ==
  ASSUME ShapeInv, KindInv, SubjectInv, NEW c, NEW to, Entered(c, to), stage[c] = "none"
  PROVE  KindInv' /\ SubjectInv'
<1>1. c \in DOMAIN made /\ made' = made /\ stage' = [stage EXCEPT ![c] = to]
      /\ jobs' \subseteq jobs /\ sessions' \subseteq sessions /\ outcome' = outcome
      /\ handles' = handles /\ Goal(Kind(c), to) /\ to \in {"working", "closing"}
  BY DEF Entered, Shrinks, driverVars
<1>2. DOMAIN made \subseteq Calls /\ handles \subseteq DOMAIN made
  BY MadeType DEF ShapeInv, MadeInv
<1>3. SubjectInv' /\ \A d \in Calls : stage[d] = "over" => stage'[d] = "over"
  BY <1>1, SubjectMoves
<1>4. \A d \in Calls : stage'[d] = IF d = c THEN to ELSE stage[d]
  BY <1>1 DEF ShapeInv, CallTypeOK
<1>5. KindInv'
  BY <1>1, <1>2, <1>3, <1>4 DEF KindInv, Kind, Goal
<1> QED
  BY <1>3, <1>5

LEMMA KindRefuses ==
  ASSUME ShapeInv, KindInv, SubjectInv, NEW c, Refuses(c)
  PROVE  KindInv' /\ SubjectInv'
<1>1. c \in DOMAIN made /\ made' = made /\ stage' = [stage EXCEPT ![c] = "over"]
      /\ jobs' = jobs /\ sessions' = sessions /\ outcome' = outcome /\ handles' = {}
  BY DEF Refuses, ownedVars, DriverGoes
<1>2. SubjectInv'
  BY <1>1, SubjectMoves
<1>3. \A d \in Calls : stage'[d] = IF d = c THEN "over" ELSE stage[d]
  BY <1>1 DEF ShapeInv, CallTypeOK
<1>4. DOMAIN made \subseteq Calls
  BY MadeType DEF ShapeInv
<1>5. KindInv'
  BY <1>1, <1>3, <1>4 DEF KindInv, Kind
<1> QED
  BY <1>2, <1>5

LEMMA KindTask ==
  ASSUME ShapeInv, KindInv, SubjectInv, NEW c \in Calls, NEW to \in Places,
         NEW o \in {"other", "started"}, TaskMove(c, to, o), TaskOwned(c, to)
  PROVE  KindInv' /\ SubjectInv'
<1>1. c \in DOMAIN made /\ made' = made /\ stage' = [stage EXCEPT ![c] = to]
      /\ handles' = handles /\ Goal(Kind(c), to) /\ stage[c] # "over"
  BY DEF TaskMove, driverVars, Active
<1>2. /\ \A d \in jobs' : d \in jobs \/ (d = c /\ Kind(c) = "start")
      /\ \A d \in sessions' : d \in sessions \/ (d = c /\ Kind(c) = "open")
  BY DEF TaskOwned, ownedVars
<1>3. \A d \in Calls : outcome'[d] = "started" =>
        outcome[d] = "started" \/ (d = c /\ Kind(c) \in Opening)
  BY DEF TaskMove, ShapeInv, CallTypeOK
<1>4. DOMAIN made \subseteq Calls /\ handles \subseteq DOMAIN made
  BY MadeType DEF ShapeInv, MadeInv
<1>5. SubjectInv' /\ \A d \in Calls : stage[d] = "over" => stage'[d] = "over"
  BY <1>1, SubjectMoves
<1>6. \A d \in Calls : stage'[d] = IF d = c THEN to ELSE stage[d]
  BY <1>1 DEF ShapeInv, CallTypeOK
<1>7. KindInv'
  BY <1>1, <1>2, <1>3, <1>4, <1>5, <1>6 DEF KindInv, Kind, Goal
<1> QED
  BY <1>5, <1>7

LEMMA KindStep ==
  ASSUME ShapeInv, KindInv, SubjectInv, CallInv, ProcInv, [ToolsNext]_toolsVars
  PROVE  KindInv' /\ SubjectInv'
<1>1. ASSUME NEW p \in Parents, ParentStep(p)
      PROVE  KindInv' /\ SubjectInv'
  <2>1. CASE BeginParent(p) \/ CancelParent(p) \/ GiveUpCall(p) \/ EndParent(p)
    <3>1. UNCHANGED <<made, stage, outcome, handles, jobs, sessions>>
      BY <2>1 DEF BeginParent, CancelParent, GiveUpCall, EndParent, callVars, ownedVars
    <3> QED
      BY <3>1, KindSame
  <2> QED
    BY <1>1, <2>1, KindMade DEF ParentStep
<1>2. ASSUME NEW p \in Parents, ReadsResult(p)
      PROVE  KindInv' /\ SubjectInv'
  <2>1. UNCHANGED <<made, stage, outcome, handles, jobs, sessions>>
    BY <1>2 DEF ReadsResult, callVars, ownedVars, driverVars
  <2> QED
    BY <2>1, KindSame
<1>3. CASE DriverDies \/ ReadEnd \/ DrainNext \/ Ends \/ UNCHANGED toolsVars
  <2>1. /\ UNCHANGED <<made, stage, outcome>>
        /\ handles' \subseteq handles /\ jobs' \subseteq jobs /\ sessions' \subseteq sessions
    BY <1>3 DEF DriverDies, DriverGoes, ReadEnd, DrainNext, Ends, Shrinks, toolsVars,
                callVars, ownedVars, driverVars
  <2> QED
    BY <2>1, KindSame
<1>4. ASSUME NEW c \in DOMAIN made, ReadsCall(c)
      PROVE  KindInv' /\ SubjectInv'
  <2>1. stage[c] = "none"
    BY <1>4, WireIsRead, MadeType DEF ReadsCall, ShapeInv, ParentTypeOK, CallInv
  <2> QED
    BY <1>4, <2>1, KindAnswered, KindEntered, KindRefuses DEF ReadsCall
<1> QED
  BY <1>1, <1>2, <1>3, <1>4, ToolsMoves, KindTask, KindAnswered

-----------------------------------------------------------------------------
(* The execution that runs, and the calls under way. *)

\* What the driver does not take part in.
LEMMA TurnSame ==
  ASSUME TurnInv, up' = up, turn' = turn, awaits' = awaits, made' = made,
         known' = known, ResultsOn(wire') \subseteq ResultsOn(wire), wire = <<>> => wire' = <<>>,
         loop' \in {loop, "reading", "closing"}
  PROVE  TurnInv'
BY DEF TurnInv, Parent

LEMMA TurnBegins ==
  ASSUME ShapeInv, TurnInv, NEW p \in Parents,
         BeginParent(p) \/ CancelParent(p) \/ GiveUpCall(p) \/ EndParent(p)
  PROVE  TurnInv'
<1> USE DEF ShapeInv, ParentTypeOK
<1>1. CASE BeginParent(p)
  <2>1. \A q \in Parents : turn'[q] = IF q = p THEN "running" ELSE turn[q]
    BY <1>1 DEF BeginParent
  <2>2. /\ up /\ loop = "reading" /\ turn[p] = "idle" /\ \A q \in Parents : turn[q] # "running"
        /\ known' = known \cup {p} /\ UNCHANGED <<up, loop, wire, awaits, made>>
    BY <1>1 DEF BeginParent, loopVars
  <2>3. ResultsOn(wire) \subseteq Parents
    BY DEF ResultsOn
  <2> QED
    BY <2>1, <2>2, <2>3 DEF TurnInv, Parent
<1>2. CASE CancelParent(p)
  BY <1>2, TurnSame DEF CancelParent, loopVars
<1>3. CASE GiveUpCall(p)
  <2>1. \A q \in Parents : awaits'[q] = IF q = p THEN NoCall ELSE awaits[q]
    BY <1>3 DEF GiveUpCall
  <2>2. UNCHANGED <<up, loop, wire, turn, known, made>>
    BY <1>3 DEF GiveUpCall, loopVars
  <2> QED
    BY <2>1, <2>2 DEF TurnInv, Parent
<1>4. CASE EndParent(p)
  <2>1. \A q \in Parents : turn'[q] = IF q = p THEN "over" ELSE turn[q]
    BY <1>4 DEF EndParent
  <2>2. /\ UNCHANGED <<up, loop, awaits, known, made>> /\ turn[p] = "running"
        /\ awaits[p] = NoCall /\ wire' = Append(wire, Result(p))
    BY <1>4 DEF EndParent, loopVars
  <2>3. ResultsOn(wire') = ResultsOn(wire) \cup {p}
    <3>1. wire \in Seq(Written) /\ Result(p) \in Written
      BY DEF Written
    <3> QED BY ONLY <2>2, <3>1, WireGrows, p \in Parents
  <2>4. up /\ ResultsOn(wire) \subseteq Parents
    BY <2>2 DEF TurnInv, ResultsOn
  <2> QED
    BY <2>1, <2>2, <2>3, <2>4 DEF TurnInv, Parent
<1> QED
  BY <1>1, <1>2, <1>3, <1>4

LEMMA TurnMade ==
  ASSUME ShapeInv, TurnInv, NEW p \in Parents, NEW k \in repertoire,
         NEW s \in handles \cup {NoCall}, MakeCall(p, k, s)
  PROVE  TurnInv'
<1>1. PICK c \in Calls \ DOMAIN made :
        /\ DOMAIN made' = DOMAIN made \cup {c}
        /\ wire' = Append(wire, Call(c)) /\ awaits' = [awaits EXCEPT ![p] = c]
        /\ \A d \in DOMAIN made : Parent(d)' = Parent(d)
        /\ Parent(c)' = p
  BY MakeEffect
<1>2. ResultsOn(wire') = ResultsOn(wire)
  BY <1>1, WireGrows DEF Written, ShapeInv, ParentTypeOK
<1>3. UNCHANGED <<up, loop, turn, known>> /\ turn[p] = "running"
  BY DEF MakeCall, loopVars
<1>4. \A q \in Parents : awaits'[q] = IF q = p THEN c ELSE awaits[q]
  BY <1>1 DEF ShapeInv, ParentTypeOK
<1> QED
  BY <1>1, <1>2, <1>3, <1>4 DEF TurnInv

LEMMA TurnGone ==
  ASSUME ShapeInv, TurnInv, DriverGoes, UNCHANGED <<known, made>>
  PROVE  TurnInv'
<1>1. \A p \in Parents : turn'[p] = "over" /\ awaits'[p] = NoCall
  BY DEF DriverGoes
<1>2. ~up' /\ wire' = <<>> /\ ResultsOn(wire') = {}
  BY WireEmpty DEF DriverGoes
<1> QED
  BY <1>1, <1>2 DEF TurnInv

LEMMA TurnHeard ==
  ASSUME ShapeInv, TurnInv, NEW c \in DOMAIN made, NEW o, Heard(c, o), made' = made,
         up' = up, known' = known, wire' \in {wire, Tail(wire)}, wire = <<>> => wire' = wire,
         loop' \in {loop, "reading"}
  PROVE  TurnInv'
<1>1. turn' = turn
      /\ \A p \in Parents : awaits'[p] = awaits[p] \/ (p = Parent(c) /\ awaits'[p] = NoCall)
  BY DEF Heard, ShapeInv, ParentTypeOK
<1>2. ResultsOn(wire') \subseteq ResultsOn(wire)
  BY WireIsRead DEF ShapeInv, ParentTypeOK
<1> QED
  BY <1>1, <1>2 DEF TurnInv, Parent

LEMMA TurnStep ==
  ASSUME ShapeInv, KindInv, SubjectInv, TurnInv, CallInv, ProcInv, [ToolsNext]_toolsVars
  PROVE  TurnInv'
<1>1. ASSUME NEW p \in Parents, ParentStep(p)
      PROVE  TurnInv'
  BY <1>1, TurnBegins, TurnMade DEF ParentStep
<1>2. ASSUME NEW p \in Parents, ReadsResult(p)
      PROVE  TurnInv'
  <2>1. p \in ResultsOn(wire) /\ ResultsOn(wire') \subseteq ResultsOn(wire)
    BY <1>2, WireIsRead DEF ReadsResult, ShapeInv, ParentTypeOK
  <2>2. turn[p] = "over" /\ up
    BY <1>2, <2>1 DEF TurnInv, ReadsResult
  <2>3. UNCHANGED <<up, loop, turn, awaits, made>> /\ known' = known \ {p}
    BY <1>2 DEF ReadsResult, driverVars, loopVars
  <2> QED
    BY <2>1, <2>2, <2>3 DEF TurnInv, Parent
<1>3. CASE DriverDies
  BY <1>3, TurnGone DEF DriverDies
<1>4. CASE ReadEnd
  BY <1>4 DEF ReadEnd, TurnInv, Parent, driverVars
<1>5. CASE DrainNext
  <2>1. ~up
    BY <1>5 DEF TurnInv, DrainNext, DrainOrder
  <2>2. UNCHANGED <<up, wire, turn, awaits, made>>
    BY <1>5 DEF DrainNext, driverVars
  <2> QED
    BY <2>1, <2>2 DEF TurnInv, Parent
<1>6. CASE Ends \/ UNCHANGED toolsVars
  BY <1>6, TurnSame DEF Ends, toolsVars, driverVars, loopVars
<1>7. ASSUME NEW c \in Calls, NEW to, NEW o, TaskMove(c, to, o)
      PROVE  TurnInv'
  BY <1>7, TurnSame DEF TaskMove, driverVars, loopVars
<1>8. ASSUME NEW c \in Calls, NEW o, Answered(c, o), wire' = wire, loop' \in {loop, "reading"}
      PROVE  TurnInv'
  BY <1>8, TurnHeard DEF Answered
<1>9. ASSUME NEW c \in DOMAIN made, ReadsCall(c)
      PROVE  TurnInv'
  <2>1. ASSUME NEW o, Answered(c, o), wire' = Tail(wire), loop' = loop
        PROVE  TurnInv'
    BY <1>9, <2>1, TurnHeard DEF Answered, ReadsCall
  <2>2. ASSUME NEW to, Entered(c, to), wire' = Tail(wire)
        PROVE  TurnInv'
    <3>1. wire # <<>> /\ ResultsOn(wire') \subseteq ResultsOn(wire)
      BY <1>9, <2>2, WireIsRead DEF ReadsCall, ShapeInv, ParentTypeOK
    <3> QED
      BY <2>2, <3>1, TurnSame DEF Entered, driverVars
  <2>3. ASSUME Refuses(c)
        PROVE  TurnInv'
    BY <2>3, TurnGone DEF Refuses
  <2> QED
    BY <1>9, <2>1, <2>2, <2>3 DEF ReadsCall
<1> QED
  BY <1>1, <1>2, <1>3, <1>4, <1>5, <1>6, <1>7, <1>8, <1>9, ToolsMoves

\* Nothing of the calls changes, but who gives up.
LEMMA CallsSame ==
  ASSUME CallInv, UNCHANGED <<made, stage, up, registered>>, lost \subseteq lost',
         CalledOnce(wire) => CalledOnce(wire'), CallsOn(wire') = CallsOn(wire),
         \A c \in DOMAIN made : awaits'[Parent(c)] = awaits[Parent(c)] \/ Parent(c) \in lost'
  PROVE  CallInv'
<1>1. \A c : Parent(c)' = Parent(c)
  BY DEF Parent
<1>2. CalledOnce(wire') /\ \A c \in CallsOn(wire') : stage'[c] = "none"
  BY DEF CallInv
<1>3. /\ \A c \in registered' : stage'[c] \in Active
      /\ \A c, d \in registered' : Parent(c)' = Parent(d)' => c = d
  BY <1>1 DEF CallInv
<1>4. ASSUME up', NEW c \in DOMAIN made',
             c \in CallsOn(wire') \/ stage'[c] \notin {"none", "over"}, Parent(c)' \notin lost'
      PROVE  awaits'[Parent(c)'] = c
  BY <1>1, <1>4 DEF CallInv
<1> QED
  BY <1>2, <1>3, <1>4 DEF CallInv

LEMMA CallsMade ==
  ASSUME ShapeInv, TurnInv, CallInv, NEW p \in Parents, NEW k \in repertoire,
         NEW s \in handles \cup {NoCall}, MakeCall(p, k, s)
  PROVE  CallInv'
<1>1. PICK c \in Calls \ DOMAIN made :
        /\ DOMAIN made' = DOMAIN made \cup {c} /\ stage[c] = "none"
        /\ wire' = Append(wire, Call(c)) /\ awaits' = [awaits EXCEPT ![p] = c]
        /\ \A d \in DOMAIN made : Parent(d)' = Parent(d)
        /\ Parent(c)' = p
  BY MakeEffect
<1>2. CallsOn(wire) \subseteq DOMAIN made /\ registered \subseteq DOMAIN made
  BY DEF ShapeInv, MadeInv
<1>3. CallsOn(wire') = CallsOn(wire) \cup {c} /\ CalledOnce(wire')
  BY <1>1, <1>2, WireGrows DEF Written, ShapeInv, ParentTypeOK, CallInv
<1>4. UNCHANGED <<up, lost, stage, registered>> /\ awaits[p] = NoCall
  BY DEF MakeCall, callVars
<1>5. \A q \in Parents : awaits'[q] = IF q = p THEN c ELSE awaits[q]
  BY <1>1 DEF ShapeInv, ParentTypeOK
<1>6. \A d \in DOMAIN made : Parent(d) \in Parents /\ d # NoCall
  BY MadeType, ToolsAssumption DEF ShapeInv, Calls
<1>7. ASSUME up', NEW d \in DOMAIN made',
             d \in CallsOn(wire') \/ stage'[d] \notin {"none", "over"}, Parent(d)' \notin lost'
      PROVE  awaits'[Parent(d)'] = d
  <2>1. CASE d = c
    BY <1>1, <1>5, <2>1
  <2>2. CASE d # c
    BY <1>1, <1>3, <1>4, <1>5, <1>6, <1>7, <2>2 DEF CallInv
  <2> QED
    BY <2>1, <2>2
<1>8. \A d \in CallsOn(wire') : stage'[d] = "none"
  BY <1>1, <1>3, <1>4 DEF CallInv
<1>9. /\ \A d \in registered' : stage'[d] \in Active
      /\ \A d, e \in registered' : Parent(d)' = Parent(e)' => d = e
  BY <1>1, <1>2, <1>4 DEF CallInv
<1> QED
  BY <1>3, <1>7, <1>8, <1>9 DEF CallInv

LEMMA CallsParent ==
  ASSUME ShapeInv, TurnInv, CallInv, NEW p \in Parents, ParentStep(p)
  PROVE  CallInv'
<1>1. CASE BeginParent(p) \/ CancelParent(p)
  BY <1>1, CallsSame DEF BeginParent, CancelParent, callVars
<1>2. CASE GiveUpCall(p)
  <2>1. /\ UNCHANGED <<made, stage, up, registered, wire>> /\ lost' = lost \cup {p}
        /\ awaits' = [awaits EXCEPT ![p] = NoCall]
    BY <1>2 DEF GiveUpCall, callVars
  <2>2. \A c \in DOMAIN made : awaits'[Parent(c)] = awaits[Parent(c)] \/ Parent(c) \in lost'
    BY <2>1, MadeType DEF ShapeInv, ParentTypeOK
  <2> QED
    BY <2>1, <2>2, CallsSame
<1>3. CASE EndParent(p)
  <2>1. CallsOn(wire') = CallsOn(wire) /\ (CalledOnce(wire) => CalledOnce(wire'))
    BY <1>3, WireGrows DEF EndParent, Written, ShapeInv, ParentTypeOK
  <2> QED
    BY <1>3, <2>1, CallsSame DEF EndParent, callVars
<1> QED
  BY <1>1, <1>2, <1>3, CallsMade DEF ParentStep

LEMMA CallsGone ==
  ASSUME ShapeInv, CallInv, DriverGoes, UNCHANGED <<made, registered>>,
         \A c \in registered : stage'[c] = stage[c]
  PROVE  CallInv'
<1>1. ~up' /\ CallsOn(wire') = {} /\ CalledOnce(wire')
  BY WireEmpty DEF DriverGoes
<1>2. \A c \in registered' : stage'[c] \in Active
  BY DEF CallInv
<1>3. \A c, d \in registered' : Parent(c)' = Parent(d)' => c = d
  BY DEF CallInv, Parent
<1> QED
  BY <1>1, <1>2, <1>3 DEF CallInv

\* Progress with one call: the others are where they were.
LEMMA CallsMove ==
  ASSUME ShapeInv, CallInv, NEW c \in DOMAIN made, NEW to \in Active \cup {"answering", "over"},
         stage' = [stage EXCEPT ![c] = to], c \notin CallsOn(wire'),
         CallsOn(wire') \subseteq CallsOn(wire), CalledOnce(wire'), UNCHANGED <<made, up, lost>>,
         registered' \subseteq registered \cup {c}, c \in registered' => to \in Active,
         c \in registered' => c \in registered \/ \A d \in registered : Parent(d) # Parent(c),
         to = "over" \/ c \in CallsOn(wire) \/ stage[c] \in Active,
         \A d \in DOMAIN made \ {c} : awaits[Parent(d)] = d => awaits'[Parent(d)] = d,
         to # "over" => awaits' = awaits
  PROVE  CallInv'
<1>1. \A d \in DOMAIN made : stage'[d] = IF d = c THEN to ELSE stage[d]
  BY MadeType DEF ShapeInv, CallTypeOK
<1>2. \A d : Parent(d)' = Parent(d)
  BY DEF Parent
<1>3. CallsOn(wire) \subseteq DOMAIN made /\ registered \subseteq DOMAIN made
  BY DEF ShapeInv, MadeInv
<1>4. \A d \in CallsOn(wire') : stage'[d] = "none"
  BY <1>1, <1>3 DEF CallInv
<1>5. \A d \in registered' : stage'[d] \in Active
  BY <1>1, <1>3 DEF CallInv
<1>6. \A d, e \in registered' : Parent(d)' = Parent(e)' => d = e
  BY <1>2 DEF CallInv
<1>7. ASSUME up', NEW d \in DOMAIN made',
             d \in CallsOn(wire') \/ stage'[d] \notin {"none", "over"}, Parent(d)' \notin lost'
      PROVE  awaits'[Parent(d)'] = d
  <2>1. CASE d = c
    <3>1. to # "over" /\ up /\ Parent(c) \notin lost
      BY <1>1, <1>2, <1>7, <2>1
    <3>2. c \in CallsOn(wire) \/ stage[c] \notin {"none", "over"}
      BY <3>1 DEF Active
    <3> QED
      BY <1>2, <2>1, <3>1, <3>2 DEF CallInv
  <2>2. CASE d # c
    BY <1>1, <1>2, <1>7, <2>2 DEF CallInv
  <2> QED
    BY <2>1, <2>2
<1> QED
  BY <1>4, <1>5, <1>6, <1>7 DEF CallInv

LEMMA CallsAnswered ==
  ASSUME ShapeInv, CallInv, NEW c, NEW o, Answered(c, o), c \notin CallsOn(wire'),
         CallsOn(wire') \subseteq CallsOn(wire), CalledOnce(wire')
  PROVE  CallInv'
<1>1. c \in DOMAIN made /\ stage' = [stage EXCEPT ![c] = "over"]
      /\ registered' = registered \ {c} /\ UNCHANGED <<made, up, lost>>
  BY DEF Answered, Heard
<1>2. \A d \in DOMAIN made \ {c} : awaits[Parent(d)] = d => awaits'[Parent(d)] = d
  BY MadeType DEF ShapeInv, ParentTypeOK, Answered, Heard
<1> QED
  BY <1>1, <1>2, CallsMove

LEMMA CallsRead ==
  ASSUME ShapeInv, CallInv, NEW c \in DOMAIN made, ReadsCall(c)
  PROVE  CallInv'
<1>1. /\ wire # <<>> /\ c \in CallsOn(wire)
      /\ CalledOnce(Tail(wire)) /\ CallsOn(Tail(wire)) = CallsOn(wire) \ {c}
  BY WireIsRead, MadeType DEF ReadsCall, ShapeInv, ParentTypeOK, CallInv
<1>2. stage[c] = "none" /\ c \notin registered
  BY <1>1 DEF CallInv, Active
<1>3. ASSUME NEW o, Answered(c, o), wire' = Tail(wire)
      PROVE  CallInv'
  BY <1>1, <1>3, CallsAnswered
<1>4. ASSUME NEW to, Entered(c, to), wire' = Tail(wire)
      PROVE  CallInv'
  <2>1. /\ stage' = [stage EXCEPT ![c] = to] /\ to \in Active
        /\ registered' = registered \cup {c} /\ UNCHANGED <<made, up, lost, awaits>>
        /\ \A d \in registered : Parent(d) # Parent(c)
    BY <1>4 DEF Entered, Active, AdmitsCall, driverVars
  <2> QED
    BY <1>1, <1>4, <2>1, CallsMove
<1>5. ASSUME Refuses(c)
      PROVE  CallInv'
  <2>1. stage' = [stage EXCEPT ![c] = "over"] /\ UNCHANGED <<made, registered>> /\ DriverGoes
    BY <1>5 DEF Refuses
  <2>2. \A d \in registered : stage'[d] = stage[d]
    BY <1>2, <2>1 DEF ShapeInv, CallTypeOK
  <2> QED
    BY <2>1, <2>2, CallsGone
<1> QED
  BY <1>3, <1>4, <1>5 DEF ReadsCall

LEMMA CallsStep ==
  ASSUME ShapeInv, KindInv, SubjectInv, TurnInv, CallInv, ProcInv, [ToolsNext]_toolsVars
  PROVE  CallInv'
<1>1. ASSUME NEW p \in Parents, ReadsResult(p)
      PROVE  CallInv'
  <2>1. CallsOn(wire') = CallsOn(wire) /\ (CalledOnce(wire) => CalledOnce(wire'))
    BY <1>1, WireIsRead DEF ReadsResult, ShapeInv, ParentTypeOK
  <2> QED
    BY <1>1, <2>1, CallsSame DEF ReadsResult, driverVars, callVars
<1>2. CASE DriverDies
  BY <1>2, CallsGone DEF DriverDies, callVars
<1>3. CASE ReadEnd \/ DrainNext \/ Ends \/ UNCHANGED toolsVars
  BY <1>3, CallsSame DEF ReadEnd, DrainNext, Ends, toolsVars, driverVars, callVars
<1>4. ASSUME NEW c \in Calls, NEW to \in Places, NEW o, TaskMove(c, to, o)
      PROVE  CallInv'
  <2>1. /\ c \in DOMAIN made /\ stage[c] \in Active /\ stage' = [stage EXCEPT ![c] = to]
        /\ registered' \subseteq registered /\ (c \in registered' => to \in Active)
        /\ to \in Active \cup {"answering"}
        /\ UNCHANGED <<wire, made, up, lost, awaits>>
    BY <1>4 DEF TaskMove, driverVars, Places
  <2>2. c \notin CallsOn(wire) /\ CalledOnce(wire)
    BY <2>1 DEF CallInv, Active
  <2>3. to # "over"
    BY <2>1 DEF Active
  <2> QED
    BY <2>1, <2>2, <2>3, CallsMove
<1>5. ASSUME NEW c \in Calls, NEW o, Answered(c, o), wire' = wire, stage[c] # "none"
      PROVE  CallInv'
  BY <1>5, CallsAnswered DEF CallInv
<1>6. ASSUME NEW p \in Parents, ParentStep(p)
      PROVE  CallInv'
  BY <1>6, CallsParent
<1> QED
  BY <1>1, <1>2, <1>3, <1>4, <1>5, <1>6, ToolsMoves, CallsRead

-----------------------------------------------------------------------------
(* Processes. *)

\* Nothing is started, and nothing goes to where a process is started.
LEMMA ProcShrinks ==
  ASSUME ShapeInv, KindInv, SubjectInv, ProcInv, Shrinks, made' = made,
         \A c \in learned' \ learned : /\ proc'[c] = "ended" /\ stage'[c] = "over"
                                       /\ c \notin jobs' \cup sessions',
         \A c \in Calls : stage[c] = "over" => stage'[c] = "over",
         \A c \in Calls : stage[c] = "launched" => stage'[c] = "launched",
         \A c \in Calls : stage'[c] = "none" => stage[c] = "none",
         \A c \in DOMAIN made : stage'[c] = "closing" =>
           stage[c] = "closing" \/ Subject(c) \notin sessions'
  PROVE  ProcInv'
<1>1. learned \subseteq Calls /\ DOMAIN made \subseteq Calls
  BY MadeType DEF ShapeInv, MadeInv
<1>2. \A c \in learned' : proc'[c] = "ended" /\ stage'[c] = "over" /\ c \notin jobs' \cup sessions'
  BY <1>1 DEF ProcInv, Shrinks
<1>3. NoProcessIsForgotten'
  BY DEF ProcInv, NoProcessIsForgotten, Shrinks
<1>4. \A c \in DOMAIN made' : stage'[c] = "closing" => Subject(c)' \notin sessions'
  BY DEF ProcInv, Shrinks, Subject
<1>5. \A c \in Calls : proc'[c] = "running" => stage'[c] # "none"
  BY DEF ProcInv, Shrinks
<1> QED
  BY <1>2, <1>3, <1>4, <1>5 DEF ProcInv

LEMMA ProcSame ==
  ASSUME ShapeInv, ProcInv, UNCHANGED <<learned, stage, jobs, sessions, proc>>,
         \A c \in DOMAIN made' :
           (c \in DOMAIN made /\ Subject(c)' = Subject(c)) \/ stage[c] = "none"
  PROVE  ProcInv'
<1>1. NoProcessIsForgotten'
  BY DEF ProcInv, NoProcessIsForgotten
<1> QED
  BY <1>1 DEF ProcInv

LEMMA ProcParent ==
  ASSUME ShapeInv, ProcInv, NEW p \in Parents, ParentStep(p)
  PROVE  ProcInv'
<1>1. CASE BeginParent(p) \/ CancelParent(p) \/ GiveUpCall(p) \/ EndParent(p)
  <2>1. UNCHANGED <<learned, stage, jobs, sessions, proc, made>>
    BY <1>1 DEF BeginParent, CancelParent, GiveUpCall, EndParent, callVars, ownedVars
  <2> QED
    BY <2>1, ProcSame DEF Subject
<1>2. ASSUME NEW k \in repertoire, NEW s \in handles \cup {NoCall}, MakeCall(p, k, s)
      PROVE  ProcInv'
  <2>1. UNCHANGED <<learned, stage, jobs, sessions, proc>>
    BY <1>2 DEF MakeCall, callVars, ownedVars
  <2>2. PICK c \in Calls \ DOMAIN made :
          /\ DOMAIN made' = DOMAIN made \cup {c} /\ stage[c] = "none"
          /\ \A d \in DOMAIN made : Subject(d)' = Subject(d)
    BY <1>2, MakeEffect
  <2> QED
    BY <2>1, <2>2, ProcSame
<1> QED
  BY <1>1, <1>2 DEF ParentStep

LEMMA ProcAnswered ==
  ASSUME ShapeInv, KindInv, SubjectInv, ProcInv, NEW c, NEW o, Answered(c, o),
         stage[c] # "launched"
  PROVE  ProcInv'
<1>1. c \in DOMAIN made /\ DOMAIN made \subseteq Calls
      /\ \A d \in Calls : stage'[d] = IF d = c THEN "over" ELSE stage[d]
  BY MadeType DEF Answered, ShapeInv, CallTypeOK
<1>2. ASSUME NEW d \in learned' \ learned
      PROVE  proc'[d] = "ended" /\ stage'[d] = "over" /\ d \notin jobs' \cup sessions'
  <2>1. d = Subject(c) /\ o = "ended"
    BY <1>2 DEF Answered, Heard
  <2>2. Kind(c) \in OnJob \cup OnSession
    BY <2>1 DEF Answered, Spoken
  <2>3. d \in DOMAIN made /\ stage[d] = "over"
    BY <1>1, <2>1, <2>2 DEF SubjectInv
  <2> QED
    BY <1>1, <2>1, <2>3 DEF Answered, Spoken
<1> QED
  BY <1>1, <1>2, ProcShrinks DEF Answered

LEMMA ProcRead ==
  ASSUME ShapeInv, KindInv, SubjectInv, ProcInv, NEW c \in DOMAIN made, ReadsCall(c),
         stage[c] = "none"
  PROVE  ProcInv'
<1>1. DOMAIN made \subseteq Calls
  BY MadeType DEF ShapeInv
<1>2. ASSUME NEW to, Entered(c, to)
      PROVE  ProcInv'
  <2>1. /\ \A d \in Calls : stage'[d] = IF d = c THEN to ELSE stage[d]
        /\ learned' = learned /\ made' = made /\ Shrinks
        /\ to \in {"working", "closing"} /\ (to = "closing" => Subject(c) \notin sessions')
    BY <1>2 DEF Entered, ShapeInv, CallTypeOK, driverVars
  <2> QED
    BY <1>1, <2>1, ProcShrinks
<1>3. ASSUME Refuses(c)
      PROVE  ProcInv'
  <2>1. /\ \A d \in Calls : stage'[d] = IF d = c THEN "over" ELSE stage[d]
        /\ learned' = learned /\ made' = made /\ UNCHANGED ownedVars
    BY <1>3 DEF Refuses, ShapeInv, CallTypeOK
  <2>2. Shrinks
    BY <2>1, SameShrinks DEF ShapeInv
  <2> QED
    BY <1>1, <2>1, <2>2, ProcShrinks
<1> QED
  BY <1>2, <1>3, ProcAnswered DEF ReadsCall

LEMMA ProcTask ==
  ASSUME ShapeInv, KindInv, SubjectInv, ProcInv, NEW c \in Calls, NEW to \in Places,
         NEW o \in {"other", "started"}, TaskMove(c, to, o), TaskOwned(c, to)
  PROVE  ProcInv'
<1>1. /\ c \in DOMAIN made /\ DOMAIN made \subseteq Calls /\ stage[c] \in Active
      /\ \A d \in Calls : stage'[d] = IF d = c THEN to ELSE stage[d]
      /\ learned' = learned /\ made' = made /\ to # "closing"
      /\ (stage[c] = "launched" => Kind(c) = "open")
  BY MadeType DEF TaskMove, ShapeInv, CallTypeOK, driverVars, Places, KindInv
<1>2. c \notin learned /\ stage[c] # "over"
  BY <1>1 DEF ProcInv, Active
<1>3. learned \subseteq Calls /\ jobs \subseteq DOMAIN made /\ sessions \subseteq DOMAIN made
  BY <1>1 DEF ShapeInv, MadeInv
<1>4. \A d \in DOMAIN made' : stage'[d] = "closing" => Subject(d)' \notin sessions'
  <2> SUFFICES ASSUME NEW d \in DOMAIN made, stage'[d] = "closing"
               PROVE  Subject(d) \notin sessions'
    BY <1>1 DEF Subject
  <2>1. stage[d] = "closing"
    BY <1>1
  <2>2. stage[Subject(d)] = "over" /\ Subject(d) \notin sessions
    BY <2>1 DEF KindInv, SubjectInv, ProcInv, OnSession
  <2>3. sessions' \subseteq sessions \cup {c}
    BY DEF TaskOwned, ownedVars
  <2> QED
    BY <1>2, <2>2, <2>3
<1>5. /\ jobs' \subseteq jobs \cup {c} /\ sessions' \subseteq sessions \cup {c}
      /\ \A d \in Calls \ {c} :
           /\ proc'[d] = proc[d] \/ (proc'[d] = "told" /\ d \in sessions)
           /\ d \in jobs \cup sessions /\ proc'[d] = "running" => d \in jobs' \cup sessions'
      /\ proc'[c] = "running" => c \in jobs' \cup sessions' \/ to = "launched"
  <2>1. CASE UNCHANGED ownedVars /\ stage[c] # "launched"
    BY <2>1 DEF ownedVars, ProcInv, NoProcessIsForgotten
  <2>2. CASE /\ Kind(c) = "start" /\ jobs' = jobs \cup {c} /\ sessions' = sessions
             /\ proc' = [proc EXCEPT ![c] = "running"]
    BY <2>2, ProcMoves DEF ShapeInv
  <2>3. CASE /\ Kind(c) = "open" /\ to = "launched" /\ jobs' = jobs /\ sessions' = sessions
             /\ proc' = [proc EXCEPT ![c] = "running"]
    BY <2>3, ProcMoves DEF ShapeInv
  <2>4. CASE /\ Kind(c) = "open" /\ jobs' = jobs /\ sessions' = sessions \cup {c}
             /\ proc' = proc
    BY <2>4
  <2>5. CASE /\ Kind(c) = "open" /\ jobs' = jobs /\ sessions' = sessions
             /\ proc' = [proc EXCEPT ![c] = "ended"]
    BY <2>5, ProcMoves DEF ShapeInv
  <2>6. CASE /\ Kind(c) = "use" /\ jobs' = jobs /\ sessions' = sessions \ {Subject(c)}
             /\ proc' = Reaped(Subject(c))
    <3>1. proc[c] # "running"
      BY <2>6, RunningKinds
    <3>2. \A d \in Calls : proc'[d] = IF d = Subject(c) /\ d \in sessions THEN "told" ELSE proc[d]
      BY <2>6 DEF Reaped, ShapeInv, OwnedTypeOK
    <3> QED
      BY <2>6, <3>1, <3>2
  <2> QED
    BY <2>1, <2>2, <2>3, <2>4, <2>5, <2>6 DEF TaskOwned
<1>6. \A d \in learned' : proc'[d] = "ended" /\ stage'[d] = "over" /\ d \notin jobs' \cup sessions'
  BY <1>1, <1>2, <1>3, <1>5 DEF ProcInv
<1>7. NoProcessIsForgotten'
  <2> SUFFICES ASSUME NEW d \in Calls, proc'[d] = "running"
               PROVE  d \in jobs' \cup sessions' \/ stage'[d] = "launched"
    BY DEF NoProcessIsForgotten
  <2>1. CASE d = c
    BY <1>1, <1>5, <2>1
  <2>2. CASE d # c
    BY <1>1, <1>5, <2>2 DEF ProcInv, NoProcessIsForgotten
  <2> QED
    BY <2>1, <2>2
<1>8. \A d \in Calls : proc'[d] = "running" => stage'[d] # "none"
  BY <1>1, <1>5 DEF ProcInv, Places
<1> QED
  BY <1>4, <1>6, <1>7, <1>8 DEF ProcInv

\* What the reader empties it stops.
LEMMA DrainShrinks ==
  ASSUME ShapeInv, KindInv, DrainNext
  PROVE  /\ Shrinks
         /\ \A c \in Calls : /\ loop = "parents" /\ c \in jobs => proc'[c] # "running"
                             /\ loop = "jobs" /\ c \in sessions => proc'[c] # "running"
<1>1. CASE loop = "broken"
  <2>1. jobs' = jobs /\ sessions' = sessions /\ proc' = proc
    BY <1>1 DEF DrainNext, Draining, DrainOrder
  <2> QED
    BY <1>1, <2>1 DEF Shrinks, ShapeInv, OwnedTypeOK
<1>2. CASE loop = "parents"
  <2>1. jobs' = {} /\ sessions' = sessions /\ proc' = Stopped(jobs)
    BY <1>2 DEF DrainNext, Draining, DrainOrder
  <2>2. /\ proc' \in [Calls -> {"none", "running", "told", "ended"}]
        /\ \A c \in Calls : /\ proc'[c] = "running" <=> proc[c] = "running" /\ c \notin jobs
                            /\ proc[c] = "ended" => proc'[c] = "ended"
    BY <2>1, StoppedType DEF ShapeInv
  <2> QED
    BY <1>2, <2>1, <2>2 DEF Shrinks
<1>3. CASE loop = "jobs"
  <2>1. jobs' = jobs /\ sessions' = {} /\ proc' = Stopped(sessions)
    BY <1>3 DEF DrainNext, Draining, DrainOrder
  <2>2. /\ proc' \in [Calls -> {"none", "running", "told", "ended"}]
        /\ \A c \in Calls : /\ proc'[c] = "running" <=> proc[c] = "running" /\ c \notin sessions
                            /\ proc[c] = "ended" => proc'[c] = "ended"
    BY <2>1, StoppedType DEF ShapeInv
  <2> QED
    BY <1>3, <2>1, <2>2 DEF Shrinks
<1> QED
  BY <1>1, <1>2, <1>3 DEF DrainNext, DrainOrder

LEMMA ProcStep ==
  ASSUME ShapeInv, KindInv, SubjectInv, CallInv, ProcInv, [ToolsNext]_toolsVars
  PROVE  ProcInv'
<1>1. ASSUME NEW p \in Parents, ReadsResult(p)
      PROVE  ProcInv'
  BY <1>1, ProcSame DEF ReadsResult, driverVars, callVars, ownedVars, Subject
<1>2. CASE DriverDies \/ ReadEnd \/ UNCHANGED toolsVars
  BY <1>2, ProcSame DEF DriverDies, ReadEnd, toolsVars, driverVars, callVars, ownedVars, Subject
<1>3. CASE Ends
  BY <1>3, ProcShrinks DEF Ends, driverVars, callVars, ProcInv
<1>4. CASE DrainNext
  BY <1>4, DrainShrinks, ProcShrinks DEF DrainNext, driverVars, callVars, ProcInv
<1>5. ASSUME NEW c \in DOMAIN made, ReadsCall(c)
      PROVE  ProcInv'
  <2>1. stage[c] = "none"
    BY <1>5, WireIsRead, MadeType DEF ReadsCall, ShapeInv, ParentTypeOK, CallInv
  <2> QED
    BY <1>5, <2>1, ProcRead
<1>6. ASSUME NEW p \in Parents, ParentStep(p)
      PROVE  ProcInv'
  BY <1>6, ProcParent
<1> QED
  BY <1>1, <1>2, <1>3, <1>4, <1>5, <1>6, ToolsMoves, ProcTask, ProcAnswered

-----------------------------------------------------------------------------
(* The end of the reader. *)

LEMMA DrainSame ==
  ASSUME ShapeInv, DrainInv, known' \subseteq known, made' = made,
         loop' \in {loop, "reading", "closing", "broken"},
         \A c \in Calls : proc'[c] = "running" => proc[c] = "running",
         \A c \in DOMAIN made : stage'[c] = "over" /\ proc'[c] = "running" =>
           stage[c] = "over" \/ loop' \notin {"jobs", "over"}
  PROVE  DrainInv'
<1>1. DOMAIN made \subseteq Calls
  BY MadeType DEF ShapeInv
<1>2. \A c : Kind(c)' = Kind(c)
  BY DEF Kind
<1> QED
  BY <1>1, <1>2 DEF DrainInv

LEMMA DrainParent ==
  ASSUME ShapeInv, DrainInv, NEW p \in Parents, ParentStep(p)
  PROVE  DrainInv'
<1>1. CASE BeginParent(p)
  BY <1>1 DEF BeginParent, DrainInv, loopVars
<1>2. CASE CancelParent(p) \/ GiveUpCall(p) \/ EndParent(p)
  <2>1. UNCHANGED <<known, loop, made, proc, stage>>
    BY <1>2 DEF CancelParent, GiveUpCall, EndParent, callVars, ownedVars, loopVars
  <2> QED
    BY <2>1, DrainSame
<1>3. ASSUME NEW k \in repertoire, NEW s \in handles \cup {NoCall}, MakeCall(p, k, s)
      PROVE  DrainInv'
  <2>1. PICK c \in Calls \ DOMAIN made :
          /\ DOMAIN made' = DOMAIN made \cup {c} /\ stage[c] = "none"
          /\ \A d \in DOMAIN made : Kind(d)' = Kind(d)
    BY <1>3, MakeEffect
  <2>2. UNCHANGED <<known, loop, proc, stage>>
    BY <1>3 DEF MakeCall, callVars, ownedVars, loopVars
  <2> QED
    BY <2>1, <2>2 DEF DrainInv
<1> QED
  BY <1>1, <1>2, <1>3 DEF ParentStep

LEMMA DrainReader ==
  ASSUME ShapeInv, KindInv, ProcInv, DrainInv, DrainNext
  PROVE  DrainInv'
<1>1. /\ known' \subseteq known /\ (loop = "broken" => known' = {})
      /\ loop' = CASE loop = "broken" -> "parents"
                   [] loop = "parents" -> "jobs"
                   [] loop = "jobs" -> "over"
      /\ loop \in {"broken", "parents", "jobs"}
      /\ stage' = stage /\ made' = made
  BY DEF DrainNext, After, Draining, DrainOrder, callVars
<1>2. /\ Shrinks
      /\ \A c \in Calls : /\ loop = "parents" /\ c \in jobs => proc'[c] # "running"
                          /\ loop = "jobs" /\ c \in sessions => proc'[c] # "running"
  BY DrainShrinks
<1>3. DOMAIN made \subseteq Calls
  BY MadeType DEF ShapeInv
<1>4. loop' \in {"parents", "jobs", "over"} => known' = {}
  BY <1>1 DEF DrainInv
<1>5. ASSUME NEW c \in DOMAIN made, proc'[c] = "running", stage[c] = "over"
      PROVE  /\ loop' \in {"jobs", "over"} => Kind(c) # "start"
             /\ loop' = "over" => Kind(c) # "open"
  <2>1. proc[c] = "running"
    BY <1>2, <1>3, <1>5 DEF Shrinks
  <2>2. c \in jobs \cup sessions
    BY <1>3, <1>5, <2>1 DEF ProcInv, NoProcessIsForgotten
  <2>3. (c \in jobs => Kind(c) = "start") /\ (c \in sessions => Kind(c) = "open")
    BY DEF KindInv
  <2>4. CASE loop = "broken"
    BY <1>1, <2>4
  <2>5. CASE loop = "parents"
    BY <1>1, <1>2, <1>3, <1>5, <2>2, <2>3, <2>5
  <2>6. CASE loop = "jobs"
    BY <1>1, <1>2, <1>3, <1>5, <2>1, <2>2, <2>3, <2>6 DEF DrainInv
  <2> QED
    BY <1>1, <2>4, <2>5, <2>6
<1>6. \A c : Kind(c)' = Kind(c)
  BY <1>1 DEF Kind
<1> QED
  BY <1>1, <1>4, <1>5, <1>6 DEF DrainInv

LEMMA DrainAnswered ==
  ASSUME ShapeInv, DrainInv, NEW c, NEW o, Answered(c, o), loop' \in {loop, "reading"}
  PROVE  DrainInv'
<1>1. /\ c \in DOMAIN made /\ known' = known /\ made' = made
      /\ \A d \in Calls : stage'[d] = IF d = c THEN "over" ELSE stage[d]
      /\ \A d \in Calls : proc'[d] = "running" => proc[d] = "running"
      /\ proc'[c] = "running" => known # {}
  BY DEF Answered, Spoken, Shrinks, ShapeInv, CallTypeOK
<1>2. DOMAIN made \subseteq Calls
  BY MadeType DEF ShapeInv
<1>3. loop' \in {"jobs", "over"} => known = {}
  BY DEF DrainInv
<1> QED
  BY <1>1, <1>2, <1>3, DrainSame

LEMMA DrainTask ==
  ASSUME ShapeInv, DrainInv, NEW c \in Calls, NEW to \in Places,
         NEW o \in {"other", "started"}, TaskMove(c, to, o), TaskOwned(c, to)
  PROVE  DrainInv'
<1>1. /\ c \in DOMAIN made /\ UNCHANGED <<known, made, loop>> /\ to # "over"
      /\ \A d \in Calls : stage'[d] = IF d = c THEN to ELSE stage[d]
  BY DEF TaskMove, ShapeInv, CallTypeOK, Places, loopVars
<1>2. \A d \in Calls \ {c} : proc'[d] = "running" => proc[d] = "running"
  <2>1. CASE proc' = Reaped(Subject(c))
    BY <2>1 DEF Reaped, ShapeInv, OwnedTypeOK
  <2>2. CASE proc' # Reaped(Subject(c))
    BY <2>2 DEF TaskOwned, ownedVars, ShapeInv, OwnedTypeOK
  <2> QED
    BY <2>1, <2>2
<1>3. DOMAIN made \subseteq Calls /\ \A d : Kind(d)' = Kind(d)
  BY <1>1, MadeType DEF ShapeInv, Kind
<1> QED
  BY <1>1, <1>2, <1>3 DEF DrainInv

LEMMA DrainStep ==
  ASSUME ShapeInv, KindInv, SubjectInv, CallInv, ProcInv, DrainInv, [ToolsNext]_toolsVars
  PROVE  DrainInv'
<1>1. ASSUME NEW p \in Parents, ReadsResult(p)
      PROVE  DrainInv'
  BY <1>1, DrainSame DEF ReadsResult, callVars, ownedVars, loopVars
<1>2. CASE DriverDies \/ ReadEnd \/ UNCHANGED toolsVars
  BY <1>2, DrainSame DEF DriverDies, ReadEnd, toolsVars, callVars, ownedVars, loopVars
<1>3. CASE Ends
  BY <1>3, DrainSame DEF Ends, Shrinks, callVars, loopVars
<1>4. ASSUME NEW c \in DOMAIN made, ReadsCall(c)
      PROVE  DrainInv'
  <2>1. ASSUME NEW o, Answered(c, o), loop' = loop
        PROVE  DrainInv'
    BY <2>1, DrainAnswered
  <2>2. ASSUME NEW to, Entered(c, to)
        PROVE  DrainInv'
    BY <2>2, DrainSame DEF Entered, Shrinks
  <2>3. ASSUME Refuses(c)
        PROVE  DrainInv'
    BY <2>3, DrainSame DEF Refuses, ownedVars
  <2> QED
    BY <1>4, <2>1, <2>2, <2>3 DEF ReadsCall
<1>5. ASSUME NEW p \in Parents, ParentStep(p)
      PROVE  DrainInv'
  BY <1>5, DrainParent
<1> QED
  BY <1>1, <1>2, <1>3, <1>4, <1>5, ToolsMoves, DrainReader, DrainTask, DrainAnswered

-----------------------------------------------------------------------------
(* The limits, and the call the host ends the driver for. *)

LEMMA MadeFinite ==
  ASSUME CallTypeOK
  PROVE  IsFiniteSet(DOMAIN made)
BY MadeType, FS_Interval DEF CallTypeOK

\* An entry more, where there was room.
LEMMA OneMore ==
  ASSUME NEW S, NEW x, NEW limit \in Nat, IsFiniteSet(S), Cardinality(S) < limit
  PROVE  Cardinality(S \cup {x}) <= limit
<1>1. Cardinality(S) \in Nat
  BY FS_CardinalityType
<1>2. CASE x \in S
  <2>1. S \cup {x} = S
    BY <1>2
  <2> QED
    BY <1>1, <2>1
<1>3. CASE x \notin S
  <2>1. Cardinality(S \cup {x}) = Cardinality(S) + 1
    BY <1>3, FS_AddElement
  <2> QED
    BY <1>1, <2>1
<1> QED
  BY <1>2, <1>3

LEMMA NoMore ==
  ASSUME NEW S, NEW T, NEW limit \in Nat, IsFiniteSet(T), S \subseteq T, Cardinality(T) <= limit
  PROVE  Cardinality(S) <= limit
<1>1. Cardinality(S) <= Cardinality(T) /\ Cardinality(S) \in Nat /\ Cardinality(T) \in Nat
  BY FS_Subset, FS_CardinalityType
<1> QED
  BY <1>1

\* What a step adds to a table it has room for.
LEMMA LimitsKept ==
  ASSUME ShapeInv, LimitInv,
         \/ registered' \subseteq registered
         \/ Cardinality(registered) < CallLimit /\ \E c : registered' = registered \cup {c},
         \/ jobs' \subseteq jobs
         \/ Cardinality(jobs) < JobLimit /\ \E c : jobs' = jobs \cup {c},
         \/ sessions' \subseteq sessions
         \/ Cardinality(sessions) < SessionLimit /\ \E c : sessions' = sessions \cup {c}
  PROVE  LimitInv'
<1>1. IsFiniteSet(registered) /\ IsFiniteSet(jobs) /\ IsFiniteSet(sessions)
  BY MadeFinite, FS_Subset DEF ShapeInv, MadeInv
<1>2. CallLimit \in Nat /\ JobLimit \in Nat /\ SessionLimit \in Nat
  BY ToolsAssumption
<1>3. Cardinality(registered') <= CallLimit
  BY <1>1, <1>2, OneMore, NoMore DEF LimitInv
<1>4. Cardinality(jobs') <= JobLimit
  BY <1>1, <1>2, OneMore, NoMore DEF LimitInv
<1>5. Cardinality(sessions') <= SessionLimit
  BY <1>1, <1>2, OneMore, NoMore DEF LimitInv
<1> QED
  BY <1>3, <1>4, <1>5 DEF LimitInv

LEMMA LimitStep ==
  ASSUME ShapeInv, KindInv, SubjectInv, CallInv, ProcInv, LimitInv, [ToolsNext]_toolsVars
  PROVE  LimitInv'
<1>1. ASSUME NEW p \in Parents, ParentStep(p) \/ ReadsResult(p)
      PROVE  LimitInv'
  <2>1. UNCHANGED <<registered, jobs, sessions>>
    BY <1>1 DEF ParentStep, ReadsResult, BeginParent, CancelParent, GiveUpCall, EndParent,
                MakeCall, callVars, ownedVars
  <2> QED
    BY <2>1, LimitsKept
<1>2. CASE DriverDies \/ ReadEnd \/ DrainNext \/ Ends \/ UNCHANGED toolsVars
  <2>1. registered' = registered /\ jobs' \subseteq jobs /\ sessions' \subseteq sessions
    BY <1>2 DEF DriverDies, ReadEnd, DrainNext, Ends, Shrinks, toolsVars, callVars, ownedVars
  <2> QED
    BY <2>1, LimitsKept
<1>3. ASSUME NEW c, NEW o, Answered(c, o)
      PROVE  LimitInv'
  BY <1>3, LimitsKept DEF Answered, Shrinks
<1>4. ASSUME NEW c, NEW to, Entered(c, to)
      PROVE  LimitInv'
  BY <1>4, LimitsKept DEF Entered, Shrinks, AdmitsCall
<1>5. ASSUME NEW c, Refuses(c)
      PROVE  LimitInv'
  BY <1>5, LimitsKept DEF Refuses, ownedVars
<1>6. ASSUME NEW c \in Calls, NEW to, NEW o, TaskMove(c, to, o), TaskOwned(c, to)
      PROVE  LimitInv'
  <2>1. registered' \subseteq registered
    BY <1>6 DEF TaskMove
  <2> QED
    BY <1>6, <2>1, LimitsKept DEF TaskOwned, ownedVars
<1> QED
  BY <1>1, <1>2, <1>3, <1>4, <1>5, <1>6, ToolsMoves DEF ReadsCall

LEMMA ParentsFinite == IsFiniteSet(Parents)
<1>1. MaxParents \in Int /\ 1 \in Int
  BY ToolsAssumption
<1> QED
  BY <1>1, FS_Interval DEF Parents

\* A refused call is a parent's that gave up before, or finds as many of them as there is
\* room for calls.
LEMMA RefusalIsDue ==
  ASSUME ShapeInv, TurnInv, CallInv, LimitInv, NEW c \in DOMAIN made, c \in CallsOn(wire),
         wire # <<>>, ~AdmitsCall(c)
  PROVE  Parent(c) \in lost \/ Cardinality(lost) >= CallLimit
<1> SUFFICES ASSUME Parent(c) \notin lost
             PROVE  Cardinality(lost) >= CallLimit
  OBVIOUS
<1>1. up
  BY DEF TurnInv
<1>2. awaits[Parent(c)] = c /\ c # NoCall /\ Parent(c) \in Parents
  BY <1>1, MadeType, ToolsAssumption DEF CallInv, ShapeInv, Calls
<1>3. turn[Parent(c)] = "running" /\ Parent(c) \in known
  BY <1>2 DEF TurnInv
<1>4. ASSUME NEW d \in registered
      PROVE  Parent(d) \in lost
  <2>1. d \in DOMAIN made /\ stage[d] \in Active /\ stage[c] = "none"
    BY DEF ShapeInv, MadeInv, CallInv
  <2>2. SUFFICES ASSUME Parent(d) \notin lost
                 PROVE  FALSE
    OBVIOUS
  <2>3. awaits[Parent(d)] = d
    BY <1>1, <2>1, <2>2 DEF CallInv, Active
  <2>4. Parent(d) \in Parents /\ d # NoCall
    BY <2>1, MadeType, ToolsAssumption DEF ShapeInv, Calls
  <2>5. Parent(d) = Parent(c)
    BY <1>2, <1>3, <2>3, <2>4 DEF TurnInv
  <2>6. d = c
    BY <1>2, <2>3, <2>5
  <2> QED
    BY <2>1, <2>6 DEF Active
<1>5. ~(Cardinality(registered) < CallLimit)
  BY <1>3, <1>4 DEF AdmitsCall
<1>6. IsFiniteSet(lost) /\ IsFiniteSet(registered)
  <2>1. lost \subseteq Parents /\ registered \subseteq DOMAIN made
    BY DEF ShapeInv, ParentTypeOK, MadeInv
  <2> QED
    BY <2>1, ParentsFinite, MadeFinite, FS_Subset DEF ShapeInv
<1>7. Cardinality(registered) <= Cardinality(lost)
  <2> DEFINE f == [d \in registered |-> Parent(d)]
  <2>1. f \in [registered -> lost]
    BY <1>4
  <2>2. \A d, e \in registered : f[d] = f[e] => d = e
    BY DEF CallInv
  <2>3. f \in Injection(registered, lost)
    BY <2>1, <2>2 DEF Injection, IsInjective
  <2> QED
    BY <1>6, <2>3, FS_Injection
<1>8. /\ Cardinality(registered) \in Nat /\ Cardinality(lost) \in Nat /\ CallLimit \in Nat
  BY <1>6, FS_CardinalityType, ToolsAssumption
<1> QED
  BY <1>5, <1>7, <1>8

LEMMA RefusedKept ==
  ASSUME ShapeInv, RefusedOnlyAfterGivingUp, refused' = refused, lost \subseteq lost',
         lost' \subseteq Parents, \A c \in DOMAIN made : Parent(c)' = Parent(c)
  PROVE  RefusedOnlyAfterGivingUp'
<1>1. IsFiniteSet(lost')
  BY ParentsFinite, FS_Subset
<1>2. /\ Cardinality(lost) <= Cardinality(lost') /\ CallLimit \in Nat
      /\ Cardinality(lost) \in Nat /\ Cardinality(lost') \in Nat
  BY <1>1, FS_Subset, FS_CardinalityType, ToolsAssumption
<1>3. refused # NoCall => refused \in DOMAIN made
  BY DEF ShapeInv, MadeInv
<1>4. SUFFICES ASSUME refused # NoCall
               PROVE  Parent(refused)' \in lost' \/ Cardinality(lost') >= CallLimit
  BY DEF RefusedOnlyAfterGivingUp
<1>5. Parent(refused) \in lost \/ Cardinality(lost) >= CallLimit
  BY <1>4 DEF RefusedOnlyAfterGivingUp
<1>6. Parent(refused)' = Parent(refused)
  BY <1>3, <1>4 DEF Parent
<1>7. CASE Cardinality(lost) >= CallLimit
  BY <1>2, <1>7
<1> QED
  BY <1>5, <1>6, <1>7

LEMMA RefusalStep ==
  ASSUME ShapeInv, ShapeInv', KindInv, SubjectInv, TurnInv, CallInv, ProcInv, LimitInv,
         RefusedOnlyAfterGivingUp, [ToolsNext]_toolsVars
  PROVE  RefusedOnlyAfterGivingUp'
<1>1. lost' \subseteq Parents
  BY DEF ShapeInv, ParentTypeOK
<1>2. ASSUME NEW p \in Parents, ParentStep(p)
      PROVE  RefusedOnlyAfterGivingUp'
  <2>1. refused' = refused /\ lost \subseteq lost'
    BY <1>2 DEF ParentStep, BeginParent, CancelParent, GiveUpCall, EndParent, MakeCall, loopVars
  <2>2. \A c \in DOMAIN made : Parent(c)' = Parent(c)
    <3>1. CASE BeginParent(p) \/ CancelParent(p) \/ GiveUpCall(p) \/ EndParent(p)
      BY <3>1 DEF BeginParent, CancelParent, GiveUpCall, EndParent, Parent
    <3> QED
      BY <1>2, <3>1, MakeEffect DEF ParentStep
  <2> QED
    BY <1>1, <2>1, <2>2, RefusedKept
<1>3. ASSUME refused' = refused, lost' = lost, made' = made
      PROVE  RefusedOnlyAfterGivingUp'
  BY <1>1, <1>3, RefusedKept DEF Parent
<1>4. ASSUME NEW p \in Parents, ReadsResult(p)
      PROVE  RefusedOnlyAfterGivingUp'
  BY <1>3, <1>4 DEF ReadsResult, loopVars, driverVars
<1>5. CASE DriverDies \/ ReadEnd \/ DrainNext \/ Ends \/ UNCHANGED toolsVars
  BY <1>3, <1>5 DEF DriverDies, ReadEnd, DrainNext, Ends, toolsVars, loopVars, driverVars
<1>6. ASSUME NEW c, NEW o, Answered(c, o)
      PROVE  RefusedOnlyAfterGivingUp'
  BY <1>3, <1>6 DEF Answered, Heard
<1>7. ASSUME NEW c, NEW to, NEW o, TaskMove(c, to, o)
      PROVE  RefusedOnlyAfterGivingUp'
  BY <1>3, <1>7 DEF TaskMove, driverVars, loopVars
<1>8. ASSUME NEW c \in DOMAIN made, ReadsCall(c)
      PROVE  RefusedOnlyAfterGivingUp'
  <2>1. ASSUME NEW to, Entered(c, to)
        PROVE  RefusedOnlyAfterGivingUp'
    BY <1>3, <2>1 DEF Entered, driverVars
  <2>2. ASSUME Refuses(c)
        PROVE  RefusedOnlyAfterGivingUp'
    <3>1. c \in CallsOn(wire) /\ wire # <<>>
      BY <1>8, WireIsRead, MadeType DEF ReadsCall, ShapeInv, ParentTypeOK
    <3>2. Parent(c) \in lost \/ Cardinality(lost) >= CallLimit
      BY <2>2, <3>1, RefusalIsDue DEF Refuses
    <3>3. refused' = c /\ lost' = lost /\ made' = made
      BY <2>2 DEF Refuses
    <3> QED
      BY <3>2, <3>3 DEF RefusedOnlyAfterGivingUp, Parent
  <2> QED
    BY <1>6, <1>8, <2>1, <2>2 DEF ReadsCall
<1> QED
  BY <1>2, <1>4, <1>5, <1>6, <1>7, <1>8, ToolsMoves

-----------------------------------------------------------------------------
(* Together. *)

LEMMA ToolsInitInv == ToolsInit => ToolsInv
<1> SUFFICES ASSUME ToolsInit
             PROVE  ToolsInv
  OBVIOUS
<1>1. made = <<>> /\ made \in Seq([kind : Kinds, parent : Parents, subject : Calls \cup {NoCall}])
      /\ Len(made) = 0 /\ DOMAIN made = {}
  BY DEF ToolsInit
<1>2. ShapeInv
  <2>1. ParentTypeOK
    BY WireEmpty DEF ToolsInit, ParentTypeOK
  <2>2. CallTypeOK /\ OwnedTypeOK
    BY <1>1, ToolsAssumption DEF ToolsInit, CallTypeOK, OwnedTypeOK
  <2>3. MadeInv
    BY <1>1, WireEmpty DEF ToolsInit, MadeInv
  <2> QED
    BY <2>1, <2>2, <2>3 DEF ShapeInv
<1>3. KindInv /\ SubjectInv
  BY <1>1 DEF ToolsInit, KindInv, SubjectInv
<1>4. TurnInv
  BY WireEmpty DEF ToolsInit, TurnInv
<1>5. CallInv
  BY <1>1, WireEmpty DEF ToolsInit, CallInv
<1>6. ProcInv /\ DrainInv
  BY <1>1 DEF ToolsInit, ProcInv, NoProcessIsForgotten, DrainInv
<1>7. LimitInv
  BY FS_EmptySet, ToolsAssumption DEF ToolsInit, LimitInv
<1>8. RefusedOnlyAfterGivingUp
  BY DEF ToolsInit, RefusedOnlyAfterGivingUp
<1> QED
  BY <1>2, <1>3, <1>4, <1>5, <1>6, <1>7, <1>8 DEF ToolsInv

LEMMA ToolsStep == ToolsInv /\ [ToolsNext]_toolsVars => ToolsInv'
<1> SUFFICES ASSUME ToolsInv, [ToolsNext]_toolsVars
             PROVE  ToolsInv'
  OBVIOUS
<1>1. /\ ShapeInv /\ KindInv /\ SubjectInv /\ TurnInv /\ CallInv /\ ProcInv
      /\ DrainInv /\ LimitInv /\ RefusedOnlyAfterGivingUp
  BY DEF ToolsInv
<1>2. ShapeInv'
  BY <1>1, ShapeStep
<1>3. KindInv' /\ SubjectInv'
  BY <1>1, KindStep
<1>4. TurnInv' /\ CallInv'
  BY <1>1, TurnStep, CallsStep
<1>5. ProcInv' /\ DrainInv'
  BY <1>1, ProcStep, DrainStep
<1>6. LimitInv' /\ RefusedOnlyAfterGivingUp'
  BY <1>1, <1>2, LimitStep, RefusalStep
<1> QED
  BY <1>2, <1>3, <1>4, <1>5, <1>6 DEF ToolsInv

\* The inductive invariant of the tools holds: calls, tables and processes fit together
\* (driver-host lib.rs register_host_tool_call, handle_host_tool_*).
THEOREM ToolsInvariance == ToolsSafety => []ToolsInv
BY ToolsInitInv, ToolsStep, PTL DEF ToolsSafety

\* A driver is ended for a second call only after an execution gave up on the first
\* (driver-host lib.rs register_host_tool_call, with the SDK's one call at a time).
THEOREM RefusalsAreDue == ToolsSafety => []RefusedOnlyAfterGivingUp
<1>1. ToolsInv => RefusedOnlyAfterGivingUp
  BY DEF ToolsInv
<1> QED
  BY ToolsInvariance, <1>1, PTL

\* Types, and MAX_HOST_TOOL_CALLS, MAX_HOST_TOOL_JOBS and MAX_HOST_TOOL_SESSIONS.
THEOREM TablesAreBounded == ToolsSafety => []TablesStayWithinLimits
<1>1. ToolsInv => TablesStayWithinLimits
  <2> SUFFICES ASSUME ToolsInv
               PROVE  TablesStayWithinLimits
    OBVIOUS
  <2>1. ShapeInv /\ LimitInv
    BY DEF ToolsInv
  <2>2. DOMAIN made \subseteq Calls
    BY <2>1, MadeType DEF ShapeInv
  <2>3. ToolsTypeOK
    BY <2>1, <2>2 DEF ToolsTypeOK, ShapeInv, ParentTypeOK, CallTypeOK, OwnedTypeOK, MadeInv
  <2> QED
    BY <2>1, <2>3 DEF TablesStayWithinLimits, LimitInv
<1> QED
  BY ToolsInvariance, <1>1, PTL

\* What the host reports over has ended, and what runs it can still end (driver-host lib.rs
\* host_tool_job_status, reap_host_tool_session).
THEOREM ProcessesStayAccountedFor == ToolsSafety => []ProcessesAreAccountedFor
<1>1. ToolsInv => ProcessesAreAccountedFor
  BY DEF ToolsInv, ProcInv, ProcessesAreAccountedFor, WhatIsOverHasEnded
<1> QED
  BY ToolsInvariance, <1>1, PTL

\* When the reader is over, no process is left to itself (driver-host lib.rs, the end of the
\* reader task).
THEOREM NothingIsLeftBehind == ToolsSafety => []NothingOutlivesTheLink
<1>1. ToolsInv => NothingOutlivesTheLink
  <2> SUFFICES ASSUME ToolsInv, loop = "over", NEW c \in Calls, proc[c] = "running"
               PROVE  stage[c] \notin {"none", "over"}
    BY DEF NothingOutlivesTheLink
  <2>1. c \in DOMAIN made /\ (Kind(c) = "start" \/ Kind(c) = "open")
    BY RunningKinds DEF ToolsInv
  <2>2. stage[c] # "over"
    BY <2>1 DEF ToolsInv, DrainInv
  <2> QED
    BY <2>2 DEF ToolsInv, ProcInv
<1> QED
  BY ToolsInvariance, <1>1, PTL
==============================================================================
