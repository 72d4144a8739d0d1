---------------------------- MODULE JournalProofs -----------------------------
(***************************************************************************)
(* The file profile's journal (OperationJournal) for any keys, places,     *)
(* processes, failures and losses of power: an operation key takes effect  *)
(* once, an answer with a known outcome is true and stays true, and a      *)
(* result that a lookup found is found again.                              *)
(*                                                                         *)
(* Neither property is inductive: that an effect is the first of its key   *)
(* needs what the journal holds at each place of the call that holds the   *)
(* lock (CallInv), on the disk and on what a loss of power leaves of it,   *)
(* and that nobody uses the key later needs that it stays there.           *)
(***************************************************************************)
EXTENDS OperationJournal, TLAPS

-----------------------------------------------------------------------------
(* The inductive invariant. *)

Early    == {"reserve", "fill", "sync_reserved", "decide"}
ToWrite  == Early \cup {"sync_created", "document"}
Reserved == {"decide", "sync_created", "origin", "sync_origin", "document", "sync_document",
             "record", "rename", "sync_record"}

Took(r)      == \E i \in DOMAIN effects : effects[i] = r
Untouched(k) == \A i \in DOMAIN effects : effects[i].key # k

\* A call writes the document once at most, and an edit makes nothing else.
RoomInv == /\ call.at \in ToWrite => writes < MaxWrites
           /\ call.at \in {"sync_created", "origin"} => Of.act.kind # "edit"

\* Where a call is tells whether its effect began and what its key's record holds.
CallInv ==
  /\ call.at \in Early => ~call.acted
  /\ call.at # "idle" => IF call.acted THEN Took(Of) ELSE Untouched(Of.key)
  /\ call.at = "sync_reserved" => disk.ops[Of.key].of = Of
  /\ call.at \in Reserved => disk.ops[Of.key].of = Of /\ stable.ops[Of.key].of = Of
  /\ call.at = "sync_record" => disk.ops[Of.key].state = Outcome

\* What took effect holds its key, on the disk and after a loss of power.
EffectsInv ==
  /\ \A i, j \in DOMAIN effects : effects[i].key = effects[j].key => i = j
  /\ \A i \in DOMAIN effects : /\ disk.ops[effects[i].key].of = effects[i]
                               /\ stable.ops[effects[i].key].of = effects[i]

Final(t) == [state |-> t.answer, of |-> t.of]

\* What was answered is on record, in both places, and its key is in nobody's hand.
ToldOK(t) ==
  /\ t.answer = "refused" => ~t.acted
  /\ t.answer # "refused" => /\ disk.ops[t.of.key] = Final(t)
                             /\ stable.ops[t.of.key] = Final(t)
                             /\ call.at # "idle" => Of.key # t.of.key
  /\ t.answer = "done" => Took(t.of)
  /\ t.answer = "cancelled" => Untouched(t.of.key)

ToldInv == \A t \in told : ToldOK(t)

JournalInv == JournalTypeOK /\ RoomInv /\ CallInv /\ EffectsInv /\ ToldInv

-----------------------------------------------------------------------------
(* What the updates of a disk leave of it. *)

\* Requests are records, and none of them is the absence of one.
LEMMA RequestFields ==
  ASSUME NEW r \in Requests
  PROVE  /\ r.key \in Keys /\ r.act \in Acts /\ r # NoRequest
         /\ r.act.kind # "edit" => r.act.place \in Places
  BY NoRequestAssumption DEF Requests, Acts

\* The empty record of a key is an operation, and not one of a request.
LEMMA BlankIsFree == Blank \in Operation /\ Blank.of = NoRequest
  BY DEF Blank, Operation

\* A change of the journal's pending file.
LEMMA PendingChanged ==
  ASSUME NEW d \in Storage, NEW b \in BOOLEAN
  PROVE  /\ [d EXCEPT !.pending = b] \in Storage
         /\ [d EXCEPT !.pending = b].ops = d.ops
  BY DEF Storage

\* A change of one record of the journal.
LEMMA RecordChanged ==
  ASSUME NEW d \in Storage, NEW k \in Keys, NEW o \in Operation
  PROVE  /\ [d EXCEPT !.ops[k] = o] \in Storage
         /\ [d EXCEPT !.ops[k] = o].ops = [d.ops EXCEPT ![k] = o]
  BY DEF Storage

\* The rename of a pending file to a record.
LEMMA RecordRenamed ==
  ASSUME NEW d \in Storage, NEW k \in Keys, NEW o \in Operation
  PROVE  /\ [d EXCEPT !.pending = FALSE, !.ops[k] = o] \in Storage
         /\ [d EXCEPT !.pending = FALSE, !.ops[k] = o].ops = [d.ops EXCEPT ![k] = o]
  BY DEF Storage

\* An exported file.
LEMMA ExportChanged ==
  ASSUME NEW d \in Storage, NEW p \in Places, NEW r \in Requests
  PROVE  /\ [d EXCEPT !.exports[p] = r] \in Storage
         /\ [d EXCEPT !.exports[p] = r].ops = d.ops
  BY DEF Storage

\* A forked workspace.
LEMMA SpaceChanged ==
  ASSUME NEW d \in Storage, NEW p \in Places, NEW w \in Workspace
  PROVE  /\ [d EXCEPT !.spaces[p] = w] \in Storage
         /\ [d EXCEPT !.spaces[p] = w].ops = d.ops
  BY DEF Storage

\* A new document.
LEMMA DocumentChanged ==
  ASSUME NEW d \in Storage, NEW b \in 0 .. MaxWrites, NEW R \in SUBSET Requests
  PROVE  /\ [d EXCEPT !.bytes = b, !.receipts = R] \in Storage
         /\ [d EXCEPT !.bytes = b, !.receipts = R].ops = d.ops
  BY DEF Storage

\* The synchronization of operations/.
LEMMA JournalSynchronized ==
  ASSUME NEW s \in Storage, NEW d \in Storage
  PROVE  /\ [s EXCEPT !.ops = d.ops, !.pending = d.pending] \in Storage
         /\ [s EXCEPT !.ops = d.ops, !.pending = d.pending].ops = d.ops
  BY DEF Storage

\* The synchronization of an exported file, of a workspace, and of the root.
LEMMA RestSynchronized ==
  ASSUME NEW s \in Storage, NEW d \in Storage
  PROVE  /\ [s EXCEPT !.exports = d.exports] \in Storage
         /\ [s EXCEPT !.exports = d.exports].ops = s.ops
         /\ [s EXCEPT !.spaces = d.spaces] \in Storage
         /\ [s EXCEPT !.spaces = d.spaces].ops = s.ops
         /\ [s EXCEPT !.spaces = d.spaces, !.bytes = d.bytes, !.receipts = d.receipts] \in Storage
         /\ [s EXCEPT !.spaces = d.spaces, !.bytes = d.bytes, !.receipts = d.receipts].ops = s.ops
         /\ [s EXCEPT !.bytes = d.bytes, !.receipts = d.receipts, !.spaces = d.spaces] \in Storage
         /\ [s EXCEPT !.bytes = d.bytes, !.receipts = d.receipts, !.spaces = d.spaces].ops = s.ops
  BY DEF Storage

-----------------------------------------------------------------------------
(* What steps of a kind leave of the invariant. *)

Kept == CallInv' /\ EffectsInv' /\ ToldInv'

LEMMA InitInv == JournalInit => JournalInv
<1> SUFFICES ASSUME JournalInit PROVE JournalInv
  OBVIOUS
<1> USE BoundsAssumption
<1>1. disk \in Storage
  BY BlankIsFree DEF JournalInit, Storage, Blank, Workspace
<1>2. JournalTypeOK
  BY <1>1 DEF JournalInit, JournalTypeOK, CallOK, CountsOK
<1>3. RoomInv /\ CallInv /\ EffectsInv /\ ToldInv
  BY DEF JournalInit, RoomInv, CallInv, EffectsInv, ToldInv, Early, ToWrite, Reserved
<1> QED BY <1>2, <1>3 DEF JournalInv

\* The call that holds the lock, between its first step and its last.
LEMMA CallFields ==
  ASSUME JournalTypeOK, call.at # "idle"
  PROVE  Of \in Requests /\ Of.key \in Keys
  BY RequestFields DEF JournalTypeOK, CallOK, Of

\* A step in the middle of a call that leaves the journal alone.
LEMMA PlainStep ==
  ASSUME JournalInv, NEW from, NEW to, Step(from, to),
         from \in Reserved, to \in Reserved, to \notin {"decide", "sync_record"},
         disk'.ops = disk.ops, stable'.ops = stable.ops, UNCHANGED <<effects, told>>
  PROVE  Kept
<1>1. /\ call'.at = to /\ call'.of = call.of /\ call'.acted = call.acted
      /\ call.at \in Reserved /\ call.at # "idle"
  BY DEF JournalInv, JournalTypeOK, CallOK, Step, Reserved
<1>2. CallInv'
  BY <1>1 DEF JournalInv, CallInv, Of, Took, Untouched, Early, Reserved
<1>3. EffectsInv' /\ ToldInv'
  BY <1>1 DEF JournalInv, EffectsInv, ToldInv, ToldOK, Final, Of, Took, Untouched
<1> QED BY <1>2, <1>3 DEF Kept

\* The lock is released, and nothing else happens that the journal tells.
LEMMA ReleaseStep ==
  ASSUME JournalInv, call'.at = "idle",
         disk'.ops = disk.ops, stable'.ops = stable.ops, UNCHANGED <<effects, told>>
  PROVE  Kept
  BY DEF Kept, JournalInv, CallInv, EffectsInv, ToldInv, ToldOK, Final, Took, Untouched,
     Early, Reserved

\* The effect begins.
LEMMA EffectStep ==
  ASSUME JournalInv, NEW to \in {"sync_created", "sync_document"}, Effective("decide", to),
         disk'.ops = disk.ops, stable'.ops = stable.ops
  PROVE  Kept /\ effects' \in Seq(Requests)
<1>1. /\ call.at = "decide" /\ call'.at = to /\ call'.of = call.of /\ call'.acted = TRUE
      /\ effects' = Append(effects, Of) /\ told' = told
  BY DEF JournalInv, JournalTypeOK, CallOK, Effective, Began
<1>2. Of \in Requests /\ Of.key \in Keys
  BY <1>1, CallFields DEF JournalInv
<1>3. effects \in Seq(Requests)
  BY DEF JournalInv, JournalTypeOK
<1>4. /\ effects' \in Seq(Requests)
      /\ DOMAIN effects' = DOMAIN effects \cup {Len(effects) + 1}
      /\ effects'[Len(effects) + 1] = Of
      /\ \A i \in DOMAIN effects : effects'[i] = effects[i] /\ i # Len(effects) + 1
  BY <1>1, <1>2, <1>3
<1>5. /\ Untouched(Of.key)
      /\ disk.ops[Of.key].of = Of /\ stable.ops[Of.key].of = Of
  BY <1>1 DEF JournalInv, CallInv, Early, Reserved
<1>6. CallInv'
  BY <1>1, <1>4, <1>5 DEF CallInv, Of, Took, Early, Reserved
<1>7. EffectsInv'
  BY <1>4, <1>5 DEF JournalInv, EffectsInv, Untouched
<1>8. ToldInv'
  <2> SUFFICES ASSUME NEW t \in told PROVE ToldOK(t)'
    BY <1>1 DEF ToldInv
  <2>1. ToldOK(t)
    BY DEF JournalInv, ToldInv
  <2>2. t.answer # "refused" => Of.key # t.of.key
    BY <2>1, <1>1 DEF ToldOK
  <2>3. t.answer = "cancelled" => Untouched(t.of.key)'
    BY <2>1, <2>2, <1>4 DEF ToldOK, Untouched
  <2>4. t.answer = "done" => Took(t.of)'
    BY <2>1, <1>4 DEF ToldOK, Took
  <2> QED BY <2>1, <2>2, <2>3, <2>4, <1>1 DEF ToldOK, Final, Of
<1> QED BY <1>4, <1>6, <1>7, <1>8 DEF Kept

-----------------------------------------------------------------------------
(* The reservation, the record and the loss of power change the journal. *)

\* A key that is absent from the journal has had no effect and no answer.
LEMMA AbsentIsFree ==
  ASSUME JournalInv, NEW r \in Requests, Answer(disk, r) = "absent"
  PROVE  /\ Untouched(r.key)
         /\ \A t \in told : t.answer # "refused" => r.key # t.of.key
<1>1. /\ Holders(disk, r.key) \ {r} = {}
      /\ disk.ops[r.key].of # r
  BY DEF Answer
<1>2. ASSUME NEW q \in Requests, q.key = r.key, disk.ops[q.key].of = q
      PROVE  FALSE
  BY <1>1, <1>2, NoRequestAssumption DEF Holders
<1>3. \A i \in DOMAIN effects : effects[i] \in Requests /\ disk.ops[effects[i].key].of = effects[i]
  BY DEF JournalInv, JournalTypeOK, EffectsInv
<1>4. \A t \in told : t.of \in Requests
                      /\ (t.answer # "refused" => disk.ops[t.of.key].of = t.of)
  <2> SUFFICES ASSUME NEW t \in told
               PROVE  t.of \in Requests
                      /\ (t.answer # "refused" => disk.ops[t.of.key].of = t.of)
    OBVIOUS
  <2>1. t.of \in Requests
    BY DEF JournalInv, JournalTypeOK
  <2>2. ToldOK(t)
    BY DEF JournalInv, ToldInv
  <2> QED BY <2>1, <2>2 DEF ToldOK, Final
<1> QED BY <1>2, <1>3, <1>4 DEF Untouched

LEMMA ApplyStep ==
  ASSUME JournalInv, NEW r \in Requests, Apply(r)
  PROVE  Kept
<1>1. /\ call'.at = "reserve" /\ call'.of = r /\ call'.acted = FALSE
      /\ UNCHANGED <<disk, stable, effects, told>>
  BY DEF Apply
<1>2. /\ Untouched(r.key)
      /\ \A t \in told : t.answer # "refused" => r.key # t.of.key
  BY AbsentIsFree DEF Apply
<1>3. CallInv'
  BY <1>1, <1>2 DEF CallInv, Of, Untouched, Early, Reserved
<1>4. EffectsInv'
  BY <1>1 DEF JournalInv, EffectsInv
<1>5. ToldInv'
  <2> SUFFICES ASSUME NEW t \in told PROVE ToldOK(t)'
    BY <1>1 DEF ToldInv
  <2>1. ToldOK(t)
    BY DEF JournalInv, ToldInv
  <2> QED BY <2>1, <1>1, <1>2 DEF ToldOK, Final, Of, Took, Untouched
<1> QED BY <1>3, <1>4, <1>5 DEF Kept

\* A step that writes the record of a key that nobody has used.
LEMMA ReservingStep ==
  ASSUME JournalInv, NEW from, NEW to, NEW o \in Operation, Step(from, to),
         \/ from = "reserve" /\ to = "fill"
         \/ from = "fill" /\ to = "sync_reserved" /\ o.of = Of,
         disk'.ops = [disk.ops EXCEPT ![Of.key] = o], stable'.ops = stable.ops,
         UNCHANGED <<effects, told>>
  PROVE  Kept
<1>1. /\ call'.at = to /\ call'.of = call.of /\ call'.acted = call.acted
      /\ call.at = from /\ call.at \in Early /\ call.at # "idle"
  BY DEF JournalInv, JournalTypeOK, CallOK, Step, Early
<1>2. Of.key \in Keys /\ ~call.acted /\ Untouched(Of.key)
  BY <1>1, CallFields DEF JournalInv, CallInv
<1>3. /\ disk'.ops[Of.key] = o
      /\ \A k \in Keys : k # Of.key => disk'.ops[k] = disk.ops[k]
  BY <1>2 DEF JournalInv, JournalTypeOK, Storage
<1>4. CallInv'
  BY <1>1, <1>2, <1>3 DEF CallInv, Of, Untouched, Early, Reserved
<1>5. EffectsInv'
  <2>1. \A i \in DOMAIN effects : effects[i].key \in Keys /\ effects[i].key # Of.key
    BY <1>2, RequestFields DEF JournalInv, JournalTypeOK, Untouched
  <2> QED BY <2>1, <1>3 DEF JournalInv, EffectsInv
<1>6. ToldInv'
  <2> SUFFICES ASSUME NEW t \in told PROVE ToldOK(t)'
    BY DEF ToldInv
  <2>1. ToldOK(t) /\ t.of.key \in Keys
    BY RequestFields DEF JournalInv, JournalTypeOK, ToldInv
  <2> QED BY <2>1, <1>1, <1>3 DEF ToldOK, Final, Of, Took, Untouched
<1> QED BY <1>4, <1>5, <1>6 DEF Kept

\* The journal is synchronized, before the call decides or when it ends.
LEMMA SyncReservedStep ==
  ASSUME JournalInv, SyncReserved
  PROVE  Kept
<1>1. stable'.ops = disk.ops
  BY JournalSynchronized DEF JournalInv, JournalTypeOK, SyncReserved, JournalSynced
<1>2. /\ call'.at = "decide" /\ call'.of = call.of /\ call'.acted = call.acted
      /\ call.at = "sync_reserved" /\ UNCHANGED <<disk, effects, told>>
  BY DEF JournalInv, JournalTypeOK, CallOK, SyncReserved, Step, fate
<1>3. CallInv'
  BY <1>1, <1>2 DEF JournalInv, CallInv, Of, Untouched, Early, Reserved
<1>4. EffectsInv' /\ ToldInv'
  BY <1>1, <1>2 DEF JournalInv, EffectsInv, ToldInv, ToldOK, Final, Of, Took, Untouched
<1> QED BY <1>3, <1>4 DEF Kept

LEMMA RenameStep ==
  ASSUME JournalInv, Rename
  PROVE  Kept /\ disk' \in Storage
<1>1. /\ call'.at = "sync_record" /\ call'.of = call.of /\ call'.acted = call.acted
      /\ call.at = "rename" /\ UNCHANGED <<stable, effects, told>>
  BY DEF JournalInv, JournalTypeOK, CallOK, Rename, Step, fate
<1>2. Of \in Requests /\ Of.key \in Keys
  BY <1>1, CallFields DEF JournalInv
<1> DEFINE o == [state |-> Outcome, of |-> Of]
<1>3. o \in Operation
  BY <1>2 DEF Operation, Outcome
<1>4. /\ disk' \in Storage
      /\ disk'.ops = [disk.ops EXCEPT ![Of.key] = o]
  BY <1>2, <1>3, RecordRenamed DEF JournalInv, JournalTypeOK, Rename
<1>5. /\ disk'.ops[Of.key].of = Of /\ disk'.ops[Of.key].state = Outcome
      /\ \A k \in Keys : k # Of.key => disk'.ops[k] = disk.ops[k]
  BY <1>2, <1>4 DEF JournalInv, JournalTypeOK, Storage
<1>6. disk.ops[Of.key].of = Of /\ stable.ops[Of.key].of = Of
  BY <1>1 DEF JournalInv, CallInv, Reserved
<1>7. CallInv'
  BY <1>1, <1>5, <1>6 DEF JournalInv, CallInv, Of, Took, Untouched, Early, Reserved, Outcome
<1>8. EffectsInv'
  <2>1. \A i \in DOMAIN effects : effects[i].key \in Keys
    BY RequestFields DEF JournalInv, JournalTypeOK
  <2> QED BY <2>1, <1>1, <1>5, <1>6 DEF JournalInv, EffectsInv
<1>9. ToldInv'
  <2> SUFFICES ASSUME NEW t \in told PROVE ToldOK(t)'
    BY <1>1 DEF ToldInv
  <2>1. ToldOK(t) /\ t.of.key \in Keys
    BY RequestFields DEF JournalInv, JournalTypeOK, ToldInv
  <2> QED BY <2>1, <1>1, <1>5 DEF ToldOK, Final, Of, Took, Untouched
<1> QED BY <1>4, <1>7, <1>8, <1>9 DEF Kept

\* The answer, once the record is synchronized.
LEMMA FinishStep ==
  ASSUME JournalInv, Finish
  PROVE  Kept
<1>0. PICK new : new = [of |-> Of, answer |-> Outcome, acted |-> call.acted]
  OBVIOUS
<1>1. /\ call.at = "sync_record" /\ call'.at = "idle"
      /\ told' = told \cup {new} /\ UNCHANGED <<disk, effects>>
  BY <1>0 DEF Finish, Tells, fate
<1>2. stable'.ops = disk.ops
  BY JournalSynchronized DEF JournalInv, JournalTypeOK, Finish, JournalSynced
<1>3. Of.key \in Keys
  BY <1>1, CallFields DEF JournalInv
<1>4. CallInv'
  BY <1>1 DEF CallInv, Early, Reserved
<1>5. EffectsInv'
  BY <1>1, <1>2 DEF JournalInv, EffectsInv
<1>6. disk.ops[Of.key] = Final(new)
  <2>1. disk.ops[Of.key] \in Operation
    BY <1>3 DEF JournalInv, JournalTypeOK, Storage
  <2>2. disk.ops[Of.key].of = Of /\ disk.ops[Of.key].state = Outcome
    BY <1>1 DEF JournalInv, CallInv, Reserved
  <2> QED BY <2>1, <2>2, <1>0 DEF Operation, Final
<1>7. IF call.acted THEN Took(Of) ELSE Untouched(Of.key)
  BY <1>1 DEF JournalInv, CallInv
<1>8. ToldOK(new)'
  <2>1. new.of = Of /\ new.answer = Outcome /\ Outcome \in {"done", "cancelled"}
    BY <1>0 DEF Outcome
  <2>2. disk'.ops[new.of.key] = Final(new) /\ stable'.ops[new.of.key] = Final(new)
    BY <2>1, <1>1, <1>2, <1>6
  <2>3. IF call.acted THEN Took(new.of)' ELSE Untouched(new.of.key)'
    BY <2>1, <1>1, <1>7 DEF Took, Untouched
  <2> QED BY <2>1, <2>2, <2>3, <1>1 DEF ToldOK, Final, Outcome
<1>9. ASSUME NEW t \in told PROVE ToldOK(t)'
  <2>1. ToldOK(t)
    BY DEF JournalInv, ToldInv
  <2>2. disk'.ops[t.of.key] = disk.ops[t.of.key] /\ stable'.ops[t.of.key] = disk.ops[t.of.key]
    BY <1>1, <1>2
  <2> QED BY <2>1, <2>2, <1>1 DEF ToldOK, Final, Took, Untouched
<1>10. ToldInv'
  BY <1>1, <1>8, <1>9 DEF ToldInv
<1> QED BY <1>4, <1>5, <1>10 DEF Kept

\* What a loss of power leaves of a key's record still names what took effect, and of what
\* was answered nothing is lost.
LEMMA LosePowerStep ==
  ASSUME JournalInv, LosePower
  PROVE  Kept /\ disk' \in Storage
<1>1. /\ call'.at = "idle" /\ stable' = disk' /\ UNCHANGED <<effects, told>>
  BY DEF LosePower
<1>2. PICK o \in [Keys -> UNION {Left(k) : k \in Keys}],
           d \in {<<disk.bytes, disk.receipts>>, <<stable.bytes, stable.receipts>>},
           p \in {disk.pending, stable.pending},
           x \in {disk.exports, stable.exports}, s \in {disk.spaces, stable.spaces} :
        /\ \A k \in Keys : o[k] \in Left(k)
        /\ disk' = [bytes |-> d[1], receipts |-> d[2], ops |-> o, pending |-> p,
                    exports |-> x, spaces |-> s]
  BY DEF LosePower
<1>3. ASSUME NEW k \in Keys
      PROVE  /\ o[k] \in Operation
             /\ o[k] \in {disk.ops[k], stable.ops[k]}
                \/ (disk.ops[k].state = "intent" /\ stable.ops[k].of = NoRequest)
  <2>1. disk.ops[k] \in Operation /\ stable.ops[k] \in Operation
    BY DEF JournalInv, JournalTypeOK, Storage
  <2>2. o[k] \in Left(k)
    BY <1>2
  <2> QED BY <2>1, <2>2 DEF Left, Operation, Blank
<1>4. o \in [Keys -> Operation]
  BY <1>2, <1>3
<1>5. /\ d[1] \in 0 .. MaxWrites /\ d[2] \in SUBSET Requests
      /\ p \in BOOLEAN /\ x \in [Places -> Requests \cup {NoRequest}]
      /\ s \in [Places -> Workspace]
  BY <1>2 DEF JournalInv, JournalTypeOK, Storage
<1>6. disk' \in Storage
  BY <1>2, <1>4, <1>5 DEF Storage
<1>7. disk'.ops = o /\ stable'.ops = o
  BY <1>1, <1>2
<1>8. CallInv'
  BY <1>1 DEF CallInv, Early, Reserved
<1>9. EffectsInv'
  <2>1. ASSUME NEW i \in DOMAIN effects PROVE o[effects[i].key].of = effects[i]
    <3>1. effects[i].key \in Keys /\ effects[i] # NoRequest
      BY RequestFields DEF JournalInv, JournalTypeOK
    <3>2. /\ disk.ops[effects[i].key].of = effects[i]
          /\ stable.ops[effects[i].key].of = effects[i]
      BY DEF JournalInv, EffectsInv
    <3> QED BY <1>3, <3>1, <3>2
  <2> QED BY <2>1, <1>1, <1>7 DEF JournalInv, EffectsInv
<1>10. ToldInv'
  <2> SUFFICES ASSUME NEW t \in told PROVE ToldOK(t)'
    BY <1>1 DEF ToldInv
  <2>0. ToldOK(t)
    BY DEF JournalInv, ToldInv
  <2>1. t.of \in Requests
    BY DEF JournalInv, JournalTypeOK
  <2>2. t.of.key \in Keys /\ t.of # NoRequest
    BY <2>1, RequestFields
  <2>3. t.answer # "refused" => o[t.of.key] = Final(t)
    <3> SUFFICES ASSUME t.answer # "refused" PROVE o[t.of.key] = Final(t)
      OBVIOUS
    <3>1. disk.ops[t.of.key] = Final(t) /\ stable.ops[t.of.key] = Final(t)
      BY <2>0 DEF ToldOK
    <3>2. stable.ops[t.of.key].of # NoRequest
      BY <2>2, <3>1 DEF Final
    <3> QED BY <1>3, <2>2, <3>1, <3>2
  <2> QED BY <2>0, <2>3, <1>1, <1>7 DEF ToldOK, Final, Took, Untouched
<1> QED BY <1>6, <1>8, <1>9, <1>10 DEF Kept

-----------------------------------------------------------------------------
(* Every step keeps the invariant. *)

Middle == Reserved \cup {"fill", "sync_reserved"}
Rest   == /\ effects' \in Seq(Requests)
          /\ told' \subseteq [of : Requests, answer : {"refused", "done", "cancelled"},
                              acted : BOOLEAN]

LEMMA InvParts ==
  ASSUME JournalInv
  PROVE  /\ disk \in Storage /\ stable \in Storage /\ CallOK /\ CountsOK
         /\ effects \in Seq(Requests) /\ RoomInv
         /\ UNCHANGED <<effects, told>> => Rest
  BY DEF JournalInv, JournalTypeOK, Rest

LEMMA InvTogether ==
  ASSUME disk' \in Storage, stable' \in Storage, CallOK', CountsOK', Rest, RoomInv', Kept
  PROVE  JournalInv'
  BY DEF JournalInv, JournalTypeOK, Kept, Rest

\* Where a call goes, if it goes on, and that it has room to write where it must.
LEMMA CallGoes ==
  ASSUME CallOK, NEW from, NEW to \in Middle, call.at = from, from # "idle",
         \/ Step(from, to)
         \/ call' = [call EXCEPT !.at = to, !.acted = TRUE]
  PROVE  CallOK' /\ call'.at = to
  BY DEF CallOK, Step, Middle, Reserved

LEMMA CallEnds ==
  ASSUME call' = [at |-> "idle", of |-> NoRequest, acted |-> FALSE]
  PROVE  CallOK' /\ RoomInv' /\ call'.at = "idle"
  BY DEF CallOK, RoomInv, ToWrite, Early

\* A request names a generation that is up and bytes that are there.
LEMMA CurrentRequests ==
  ASSUME disk \in Storage, CountsOK
  PROVE  Current \subseteq Requests
<1> SUFFICES ASSUME NEW r \in Current PROVE r \in Requests
  OBVIOUS
<1>1. r \in [key : Keys, act : Acts, generation : alive, expects : {disk.bytes}]
  BY DEF Current
<1>2. alive \subseteq 1 .. MaxOpens
  BY BoundsAssumption DEF CountsOK
<1>3. disk.bytes \in 0 .. MaxWrites
  BY DEF Storage
<1> QED BY <1>1, <1>2, <1>3 DEF Requests

LEMMA ApplyInv ==
  ASSUME JournalInv, NEW r \in Current, Apply(r)
  PROVE  JournalInv'
<1>1. r \in Requests
  BY InvParts, CurrentRequests
<1>2. /\ call' = [at |-> "reserve", of |-> r, acted |-> FALSE] /\ writes < MaxWrites
      /\ UNCHANGED <<disk, stable, writes, effects, told, fate>>
  BY DEF Apply
<1>3. CallOK' /\ CountsOK' /\ RoomInv'
  BY <1>1, <1>2, InvParts, RequestFields DEF CallOK, CountsOK, RoomInv, fate
<1>4. Kept
  BY <1>1, ApplyStep
<1> QED BY <1>2, <1>3, <1>4, InvParts, InvTogether

LEMMA ReserveInv ==
  ASSUME JournalInv, Reserve \/ Fill
  PROVE  JournalInv'
<1>1. CASE Reserve
  <2> DEFINE o == [state |-> "torn", of |-> NoRequest]
  <2>1. /\ Step("reserve", "fill") /\ call.at = "reserve" /\ disk' = [disk EXCEPT !.ops[Of.key] = o]
        /\ UNCHANGED <<stable, writes, effects, told, fate>>
    BY <1>1 DEF Reserve, Step
  <2>2. Of.key \in Keys
    BY <2>1, CallFields DEF JournalInv
  <2>3. o \in Operation
    BY DEF Operation
  <2>4. disk' \in Storage /\ disk'.ops = [disk.ops EXCEPT ![Of.key] = o]
    BY <2>1, <2>2, <2>3, InvParts, RecordChanged
  <2>5. Kept
    BY <2>1, <2>3, <2>4, ReservingStep
  <2>6. CallOK' /\ call'.at = "fill"
    BY <2>1, InvParts, CallGoes DEF Middle
  <2>7. CountsOK' /\ RoomInv'
    BY <2>1, <2>6, InvParts DEF CountsOK, RoomInv, ToWrite, Early, fate, Of, CallOK
  <2> QED BY <2>1, <2>4, <2>5, <2>6, <2>7, InvParts, InvTogether
<1>2. CASE Fill
  <2> DEFINE o == [state |-> "intent", of |-> Of]
  <2>1. /\ Step("fill", "sync_reserved") /\ call.at = "fill" /\ disk' = [disk EXCEPT !.ops[Of.key] = o]
        /\ UNCHANGED <<stable, writes, effects, told, fate>>
    BY <1>2 DEF Fill, Step
  <2>2. Of.key \in Keys /\ Of \in Requests
    BY <2>1, CallFields DEF JournalInv
  <2>3. o \in Operation /\ o.of = Of
    BY <2>2 DEF Operation
  <2>4. disk' \in Storage /\ disk'.ops = [disk.ops EXCEPT ![Of.key] = o]
    BY <2>1, <2>2, <2>3, InvParts, RecordChanged
  <2>5. Kept
    BY <2>1, <2>3, <2>4, ReservingStep
  <2>6. CallOK' /\ call'.at = "sync_reserved"
    BY <2>1, InvParts, CallGoes DEF Middle
  <2>7. CountsOK' /\ RoomInv'
    BY <2>1, <2>6, InvParts DEF CountsOK, RoomInv, ToWrite, Early, fate, Of, CallOK
  <2> QED BY <2>1, <2>4, <2>5, <2>6, <2>7, InvParts, InvTogether
<1> QED BY <1>1, <1>2

LEMMA SyncReservedInv ==
  ASSUME JournalInv, SyncReserved
  PROVE  JournalInv'
<1>1. /\ Step("sync_reserved", "decide") /\ call.at = "sync_reserved" /\ stable' = JournalSynced
      /\ UNCHANGED <<disk, writes, effects, told, fate>>
  BY DEF SyncReserved, Step
<1>2. stable' \in Storage
  BY <1>1, InvParts, JournalSynchronized DEF JournalSynced
<1>3. CallOK' /\ call'.at = "decide"
  BY <1>1, InvParts, CallGoes DEF Middle, Reserved
<1>4. CountsOK' /\ RoomInv'
  BY <1>1, <1>3, InvParts DEF CountsOK, RoomInv, ToWrite, Early, fate, Of, CallOK
<1> QED BY <1>1, <1>2, <1>3, <1>4, InvParts, InvTogether, SyncReservedStep

\* A step that leaves the journal alone and is not the effect.
LEMMA PlainInv ==
  ASSUME JournalInv, NEW from \in Reserved, NEW to \in Reserved, Step(from, to),
         to \notin {"decide", "sync_record"}, to \in ToWrite => from \in ToWrite,
         to \in {"sync_created", "origin"} => from = "sync_created",
         disk' \in Storage, stable' \in Storage,
         disk'.ops = disk.ops, stable'.ops = stable.ops,
         UNCHANGED <<writes, effects, told, fate>>
  PROVE  JournalInv'
<1>1. call.at = from /\ from # "idle"
  BY DEF Step, Reserved
<1>2. CallOK' /\ call'.at = to
  BY <1>1, InvParts, CallGoes DEF Middle
<1>3. CountsOK' /\ RoomInv'
  BY <1>1, <1>2, InvParts DEF CountsOK, RoomInv, fate, Step, Of, CallOK
<1>4. Kept
  BY PlainStep
<1> QED BY <1>2, <1>3, <1>4, InvParts, InvTogether

LEMMA QuietStepInv ==
  ASSUME JournalInv, Cancel \/ SyncCreated \/ SyncOrigin \/ SyncDocument \/ Write
  PROVE  JournalInv'
<1>1. disk \in Storage /\ stable \in Storage
  BY InvParts
<1>2. CASE Cancel
  BY <1>1, <1>2, PlainInv DEF Cancel, Reserved, ToWrite, Early
<1>3. CASE SyncCreated
  <2>1. /\ call.at = "sync_created"
        /\ stable' \in Storage /\ stable'.ops = stable.ops
        /\ UNCHANGED <<disk, writes, effects, told, fate>>
    BY <1>1, <1>3, RestSynchronized DEF SyncCreated, Step
  <2>2. Step("sync_created", "document") \/ Step("sync_created", "origin")
    BY <1>3 DEF SyncCreated
  <2> QED BY <1>1, <2>1, <2>2, PlainInv DEF Reserved, ToWrite, Early
<1>4. CASE SyncOrigin
  <2>1. stable' \in Storage /\ stable'.ops = stable.ops
    BY <1>1, <1>4, RestSynchronized DEF SyncOrigin
  <2> QED BY <1>1, <1>4, <2>1, PlainInv DEF SyncOrigin, Reserved, ToWrite, Early
<1>5. CASE SyncDocument
  <2>1. stable' \in Storage /\ stable'.ops = stable.ops
    BY <1>1, <1>5, RestSynchronized DEF SyncDocument
  <2> QED BY <1>1, <1>5, <2>1, PlainInv DEF SyncDocument, Reserved, ToWrite, Early
<1>6. CASE Write
  <2>1. disk' \in Storage /\ disk'.ops = disk.ops
    BY <1>1, <1>6, PendingChanged DEF Write
  <2> QED BY <1>1, <1>6, <2>1, PlainInv DEF Write, Reserved, ToWrite, Early
<1> QED BY <1>2, <1>3, <1>4, <1>5, <1>6

LEMMA OriginateInv ==
  ASSUME JournalInv, Originate
  PROVE  JournalInv'
<1>1. Of \in Requests /\ Of.act.place \in Places
  BY CallFields, RequestFields DEF JournalInv, RoomInv, Originate, Step
<1>2. [state |-> "done", of |-> Of] \in Workspace
  BY <1>1 DEF Workspace
<1>3. disk' \in Storage /\ disk'.ops = disk.ops
  BY <1>1, <1>2, SpaceChanged, InvParts DEF Originate
<1> QED BY <1>3, InvParts, PlainInv DEF Originate, Reserved, ToWrite, Early

LEMMA CreateInv ==
  ASSUME JournalInv, Create
  PROVE  JournalInv'
<1>1. /\ Effective("decide", "sync_created") /\ call.at = "decide"
      /\ call' = [call EXCEPT !.at = "sync_created", !.acted = TRUE]
      /\ Of.act.kind # "edit" /\ UNCHANGED <<stable, writes, told, fate>>
  BY DEF Create, Effective, Began
<1>2. Of \in Requests /\ Of.act.place \in Places
  BY <1>1, CallFields, RequestFields DEF JournalInv
<1>3. [state |-> "partial", of |-> NoRequest] \in Workspace
  BY DEF Workspace
<1>4. disk' \in Storage /\ disk'.ops = disk.ops
  BY <1>2, <1>3, ExportChanged, SpaceChanged, InvParts DEF Create
<1>5. Kept /\ effects' \in Seq(Requests)
  BY <1>1, <1>4, EffectStep
<1>6. CallOK' /\ call'.at = "sync_created"
  BY <1>1, InvParts, CallGoes DEF Middle, Reserved
<1>7. CountsOK' /\ RoomInv' /\ Rest
  BY <1>1, <1>5, InvParts DEF CountsOK, RoomInv, ToWrite, Early, fate, Of, CallOK, JournalInv, JournalTypeOK, Rest
<1> QED BY <1>1, <1>4, <1>5, <1>6, <1>7, InvParts, InvTogether

LEMMA WriteDocumentInv ==
  ASSUME JournalInv, WriteDocument
  PROVE  JournalInv'
<1>1. /\ \/ Effective("decide", "sync_document")
            /\ call' = [call EXCEPT !.at = "sync_document", !.acted = TRUE] /\ call.at = "decide"
         \/ Step("document", "sync_document") /\ call.at = "document" /\ effects' = effects
      /\ writes' = writes + 1 /\ disk' = [disk EXCEPT !.bytes = writes', !.receipts = Receipts]
      /\ UNCHANGED <<stable, told, fate>>
  BY DEF WriteDocument, Effective, Began, Step
<1>2. Of \in Requests
  BY <1>1, CallFields DEF JournalInv
<1>3. writes \in 0 .. MaxWrites /\ writes < MaxWrites
  BY <1>1, InvParts DEF CountsOK, RoomInv, ToWrite, Early
<1>4. writes' \in 0 .. MaxWrites
  BY <1>1, <1>3, BoundsAssumption
<1>5. Receipts \in SUBSET Requests
  BY <1>2, InvParts DEF Receipts, Storage
<1>6. disk' \in Storage /\ disk'.ops = disk.ops
  <2>1. disk \in Storage
    BY InvParts
  <2>2. PICK b \in 0 .. MaxWrites, R \in SUBSET Requests :
          disk' = [disk EXCEPT !.bytes = b, !.receipts = R]
    BY <1>1, <1>4, <1>5
  <2> QED BY ONLY <2>1, <2>2, DocumentChanged
<1>7. CallOK' /\ call'.at = "sync_document"
  BY <1>1, InvParts, CallGoes DEF Middle, Reserved
<1>8. CountsOK' /\ RoomInv'
  BY <1>1, <1>4, <1>7, InvParts DEF CountsOK, RoomInv, ToWrite, Early, fate, Of, CallOK
<1>9. Kept /\ Rest
  <2>1. CASE Effective("decide", "sync_document")
    BY <2>1, <1>1, <1>6, EffectStep DEF JournalInv, JournalTypeOK, Rest
  <2>2. CASE Step("document", "sync_document") /\ effects' = effects
    BY <2>2, <1>1, <1>6, PlainStep, InvParts DEF Reserved
  <2> QED BY <1>1, <2>1, <2>2
<1> QED BY <1>1, <1>6, <1>7, <1>8, <1>9, InvParts, InvTogether

LEMMA RecordInv ==
  ASSUME JournalInv, Rename \/ Finish
  PROVE  JournalInv'
<1>1. CASE Rename
  <2>1. /\ Step("rename", "sync_record") /\ call.at = "rename"
        /\ UNCHANGED <<stable, writes, effects, told, fate>>
    BY <1>1 DEF Rename, Step
  <2>2. CallOK' /\ call'.at = "sync_record"
    BY <2>1, InvParts, CallGoes DEF Middle, Reserved
  <2>3. CountsOK' /\ RoomInv'
    BY <2>1, <2>2, InvParts DEF CountsOK, RoomInv, ToWrite, Early, fate, Of, CallOK
  <2> QED BY <1>1, <2>1, <2>2, <2>3, RenameStep, InvParts, InvTogether
<1>2. CASE Finish
  <2>1. /\ call.at = "sync_record" /\ stable' = JournalSynced
        /\ call' = [at |-> "idle", of |-> NoRequest, acted |-> FALSE]
        /\ told' = told \cup {[of |-> Of, answer |-> Outcome, acted |-> call.acted]}
        /\ UNCHANGED <<disk, writes, effects, fate>>
    BY <1>2 DEF Finish, Tells
  <2>2. stable' \in Storage
    BY <2>1, InvParts, JournalSynchronized DEF JournalSynced
  <2>3. Of \in Requests /\ call.acted \in BOOLEAN
    BY <2>1, CallFields, InvParts DEF JournalInv, CallOK
  <2>4. CountsOK' /\ Rest
    BY <2>1, <2>3 DEF JournalInv, JournalTypeOK, CountsOK, Rest, Outcome, fate
  <2> QED BY <1>2, <2>1, <2>2, <2>4, CallEnds, FinishStep, InvParts, InvTogether
<1> QED BY <1>1, <1>2

LEMMA InterruptionInv ==
  ASSUME JournalInv, Fail \/ Crash \/ LosePower \/ Open
  PROVE  JournalInv'
<1> USE BoundsAssumption
<1>1. CASE Fail
  <2>1. /\ call.at # "idle" /\ faults < MaxFaults /\ faults' = faults + 1
        /\ call' = [at |-> "idle", of |-> NoRequest, acted |-> FALSE]
        /\ \/ told' = told
           \/ /\ call.at = "reserve"
              /\ told' = told \cup {[of |-> Of, answer |-> "refused", acted |-> call.acted]}
        /\ UNCHANGED <<stable, alive, opens, writes, effects, crashes>>
    BY <1>1 DEF Fail, FailureOf, Tells
  <2>2. disk' \in Storage /\ disk'.ops = disk.ops
    <3>1. PICK left \in BOOLEAN : disk' = [disk EXCEPT !.pending = left]
      BY <1>1, InvParts DEF Fail, Storage
    <3> QED BY <3>1, InvParts, PendingChanged
  <2>3. CountsOK'
    BY <2>1, InvParts DEF CountsOK
  <2>4. CASE told' = told
    BY <2>1, <2>2, <2>3, <2>4, CallEnds, ReleaseStep, InvParts, InvTogether
  <2>5. CASE /\ call.at = "reserve"
             /\ told' = told \cup {[of |-> Of, answer |-> "refused", acted |-> call.acted]}
    <3>1. Of \in Requests /\ call.acted = FALSE
      BY <2>5, CallFields DEF JournalInv, CallInv, Early
    <3>2. PICK new : new = [of |-> Of, answer |-> "refused", acted |-> FALSE]
      OBVIOUS
    <3>3. told' = told \cup {new} /\ ToldOK(new)'
      BY <2>5, <3>1, <3>2 DEF ToldOK
    <3>4. Rest
      <4>1. new \in [of : Requests, answer : {"refused", "done", "cancelled"}, acted : BOOLEAN]
        BY <3>1, <3>2
      <4> QED BY <4>1, <2>1, <3>3 DEF JournalInv, JournalTypeOK, Rest
    <3>5. CallInv' /\ EffectsInv'
      BY <2>1, <2>2 DEF JournalInv, CallInv, EffectsInv, Early, Reserved
    <3>6. ASSUME NEW t \in told PROVE ToldOK(t)'
      <4>1. ToldOK(t)
        BY DEF JournalInv, ToldInv
      <4> QED BY <4>1, <2>1, <2>2 DEF ToldOK, Final, Took, Untouched
    <3>7. Kept
      BY <3>3, <3>5, <3>6 DEF Kept, ToldInv
    <3> QED BY <2>1, <2>2, <2>3, <3>4, <3>7, CallEnds, InvParts, InvTogether
  <2> QED BY <2>1, <2>4, <2>5
<1>2. CASE Crash
  <2>1. /\ call' = [at |-> "idle", of |-> NoRequest, acted |-> FALSE]
        /\ UNCHANGED <<disk, stable, effects, told>>
    BY <1>2 DEF Crash
  <2>2. CountsOK'
    BY <1>2, InvParts DEF Crash, CountsOK
  <2> QED BY <2>1, <2>2, CallEnds, ReleaseStep, InvParts, InvTogether
<1>3. CASE LosePower
  <2>1. /\ call' = [at |-> "idle", of |-> NoRequest, acted |-> FALSE]
        /\ stable' = disk' /\ UNCHANGED <<effects, told>>
    BY <1>3 DEF LosePower
  <2>2. CountsOK'
    BY <1>3, InvParts DEF LosePower, CountsOK
  <2> QED BY <1>3, <2>1, <2>2, CallEnds, LosePowerStep, InvParts, InvTogether
<1>4. CASE Open
  <2>1. UNCHANGED <<disk, stable, call, writes, effects, told>>
    BY <1>4 DEF Open
  <2>2. CountsOK'
    BY <1>4, InvParts DEF Open, CountsOK
  <2>3. CallOK' /\ RoomInv'
    BY <2>1, InvParts DEF CallOK, RoomInv, Of
  <2>4. Kept
    BY <2>1 DEF JournalInv, Kept, CallInv, EffectsInv, ToldInv, ToldOK, Final, Of, Took,
                Untouched, Outcome
  <2> QED BY <2>1, <2>2, <2>3, <2>4, InvParts, InvTogether
<1> QED BY <1>1, <1>2, <1>3, <1>4

LEMMA NextInv == JournalInv /\ [JournalNext]_journalVars => JournalInv'
<1> SUFFICES ASSUME JournalInv, [JournalNext]_journalVars PROVE JournalInv'
  OBVIOUS
<1>1. CASE \E r \in Current : Apply(r)
  BY <1>1, ApplyInv
<1>2. CASE CallStep
  BY <1>2, ReserveInv, SyncReservedInv, QuietStepInv, OriginateInv, CreateInv,
     WriteDocumentInv, RecordInv DEF CallStep
<1>3. CASE Fail \/ Crash \/ LosePower \/ Open
  BY <1>3, InterruptionInv
<1>4. CASE UNCHANGED journalVars
  <2>1. UNCHANGED <<disk, stable, call, writes, effects, told>> /\ CountsOK'
    BY <1>4, InvParts DEF journalVars, CountsOK
  <2>2. CallOK' /\ RoomInv'
    BY <2>1, InvParts DEF CallOK, RoomInv, Of
  <2>3. Kept
    BY <2>1 DEF JournalInv, Kept, CallInv, EffectsInv, ToldInv, ToldOK, Final, Of, Took,
                Untouched, Outcome
  <2> QED BY <2>1, <2>2, <2>3, InvParts, InvTogether
<1> QED BY <1>1, <1>2, <1>3, <1>4 DEF JournalNext

LEMMA Inductive == JournalSafety => []JournalInv
<1>1. JournalInit => JournalInv
  BY InitInv
<1>2. JournalInv /\ [JournalNext]_journalVars => JournalInv'
  BY NextInv
<1> QED BY <1>1, <1>2, PTL DEF JournalSafety

-----------------------------------------------------------------------------
(* What a lookup finds. *)

Holding == (Reserved \cup {"sync_reserved"}) \ {"sync_record"}

\* What the call that holds the lock finds at its key and at its place.
PlaceInv ==
  /\ call.at = "reserve" => disk.ops[Of.key].state # "done"
  /\ call.at = "fill" => disk.ops[Of.key].state = "torn"
  /\ call.at \in Holding => disk.ops[Of.key].state = "intent"
  /\ call.at = "rename" => disk.pending
  /\ call.at = "origin" => Of.act.kind = "fork"
  /\ call.at \in Early \cup {"sync_created", "origin"} /\ Of.act.kind = "fork"
       => disk.spaces[Of.act.place].of = NoRequest

\* A loss of power leaves no result that was not there before it.
StableInv ==
  /\ stable.receipts \subseteq disk.receipts
  /\ \A p \in Places : stable.spaces[p].of \in {NoRequest, disk.spaces[p].of}
  /\ \A k \in Keys : stable.ops[k].state = "done" => disk.ops[k] = stable.ops[k]

NamedInv == \A k \in Keys : disk.ops[k].state = "done" => disk.ops[k].of # NoRequest

LookupInv == PlaceInv /\ StableInv /\ NamedInv

Known == {"done", "cancelled"}

\* The same results under its key and the same record of it: the same answer.
LEMMA SameAnswer ==
  ASSUME NEW d, NEW e, NEW r, Answer(d, r) \in Known, e.ops[r.key] = d.ops[r.key],
         {q \in Settled(e) : q.key = r.key} = {q \in Settled(d) : q.key = r.key}
  PROVE  Answer(e, r) \in {Answer(d, r), "review"}
<1>1. Holders(e, r.key) = Holders(d, r.key)
  BY DEF Holders
<1>2. r \in Settled(e) <=> r \in Settled(d)
  OBVIOUS
<1> QED BY <1>1, <1>2 DEF Answer, Known

\* What a known answer says.
LEMMA KnownAnswer ==
  ASSUME NEW d, NEW r, Answer(d, r) \in Known
  PROVE  /\ Legible(d) /\ Holders(d, r.key) \ {r} = {}
         /\ Answer(d, r) = "done" => r \in Settled(d) /\ d.ops[r.key].state # "cancelled"
         /\ Answer(d, r) = "cancelled" => r \notin Settled(d) /\ d.ops[r.key].state = "cancelled"
BY DEF Answer, Known

\* An effect adds the result of the call that holds the lock, and of nobody else.
LEMMA ResultAdded ==
  ASSUME JournalInv, PlaceInv, call.at \in Holding, disk'.ops = disk.ops,
         Settled(disk') = Settled(disk) \cup {Of}, NEW r, Answer(disk, r) \in Known
  PROVE  Answer(disk', r) \in {Answer(disk, r), "review"}
<1>1. CASE r.key # Of.key
  BY <1>1, SameAnswer
<1>2. CASE r.key = Of.key
  <2>1. disk.ops[Of.key].of = Of /\ Of \in Requests /\ disk.ops[Of.key].state = "intent"
    BY CallFields DEF JournalInv, CallInv, PlaceInv, Holding, Reserved
  <2>2. Of \in Holders(disk, r.key)
    BY <1>2, <2>1, NoRequestAssumption DEF Holders
  <2>a. r = Of
    BY <2>2, KnownAnswer
  <2>b. Answer(disk, r) # "cancelled"
    BY <1>2, <2>1, KnownAnswer
  <2>3. r = Of /\ r \in Settled(disk)
    BY <2>a, <2>b, KnownAnswer DEF Known
  <2>4. Settled(disk') = Settled(disk)
    BY <2>3
  <2> QED BY <2>4, SameAnswer
<1> QED BY <1>1, <1>2

\* What an update of a disk leaves of its other parts.
LEMMA Parts ==
  ASSUME NEW d \in Storage, NEW v
  PROVE  /\ [d EXCEPT !.pending = v].ops = d.ops
         /\ [d EXCEPT !.pending = v].receipts = d.receipts
         /\ [d EXCEPT !.pending = v].spaces = d.spaces
         /\ [d EXCEPT !.pending = v].pending = v
  BY DEF Storage

LEMMA OpsParts ==
  ASSUME NEW d \in Storage, NEW k \in Keys, NEW v
  PROVE  /\ [d EXCEPT !.ops[k] = v].ops = [d.ops EXCEPT ![k] = v]
         /\ [d EXCEPT !.ops[k] = v].receipts = d.receipts
         /\ [d EXCEPT !.ops[k] = v].spaces = d.spaces
         /\ [d EXCEPT !.ops[k] = v].pending = d.pending
         /\ [d EXCEPT !.pending = FALSE, !.ops[k] = v].ops = [d.ops EXCEPT ![k] = v]
         /\ [d EXCEPT !.pending = FALSE, !.ops[k] = v].receipts = d.receipts
         /\ [d EXCEPT !.pending = FALSE, !.ops[k] = v].spaces = d.spaces
  BY DEF Storage

LEMMA PlaceParts ==
  ASSUME NEW d \in Storage, NEW p \in Places, NEW v
  PROVE  /\ [d EXCEPT !.exports[p] = v].ops = d.ops
         /\ [d EXCEPT !.exports[p] = v].receipts = d.receipts
         /\ [d EXCEPT !.exports[p] = v].spaces = d.spaces
         /\ [d EXCEPT !.spaces[p] = v].ops = d.ops
         /\ [d EXCEPT !.spaces[p] = v].receipts = d.receipts
         /\ [d EXCEPT !.spaces[p] = v].spaces = [d.spaces EXCEPT ![p] = v]
  BY DEF Storage

LEMMA DocumentParts ==
  ASSUME NEW d \in Storage, NEW b, NEW R
  PROVE  /\ [d EXCEPT !.bytes = b, !.receipts = R].ops = d.ops
         /\ [d EXCEPT !.bytes = b, !.receipts = R].receipts = R
         /\ [d EXCEPT !.bytes = b, !.receipts = R].spaces = d.spaces
  BY DEF Storage

LEMMA SyncedParts ==
  ASSUME NEW s \in Storage, NEW d
  PROVE  /\ [s EXCEPT !.ops = d.ops, !.pending = d.pending].ops = d.ops
         /\ [s EXCEPT !.ops = d.ops, !.pending = d.pending].receipts = s.receipts
         /\ [s EXCEPT !.ops = d.ops, !.pending = d.pending].spaces = s.spaces
         /\ [s EXCEPT !.exports = d.exports].ops = s.ops
         /\ [s EXCEPT !.exports = d.exports].receipts = s.receipts
         /\ [s EXCEPT !.exports = d.exports].spaces = s.spaces
         /\ [s EXCEPT !.spaces = d.spaces].ops = s.ops
         /\ [s EXCEPT !.spaces = d.spaces].receipts = s.receipts
         /\ [s EXCEPT !.spaces = d.spaces].spaces = d.spaces
         /\ [s EXCEPT !.spaces = d.spaces, !.bytes = d.bytes, !.receipts = d.receipts].ops = s.ops
         /\ [s EXCEPT !.spaces = d.spaces, !.bytes = d.bytes,
                      !.receipts = d.receipts].receipts = d.receipts
         /\ [s EXCEPT !.spaces = d.spaces, !.bytes = d.bytes,
                      !.receipts = d.receipts].spaces = d.spaces
         /\ [s EXCEPT !.bytes = d.bytes, !.receipts = d.receipts, !.spaces = d.spaces].ops = s.ops
         /\ [s EXCEPT !.bytes = d.bytes, !.receipts = d.receipts,
                      !.spaces = d.spaces].receipts = d.receipts
         /\ [s EXCEPT !.bytes = d.bytes, !.receipts = d.receipts,
                      !.spaces = d.spaces].spaces = d.spaces
  BY DEF Storage

\* What a synchronization or a release leaves of the invariant: a part of the stable disk is
\* as it was, or as on the disk.
LEMMA LookupKept ==
  ASSUME JournalInv, LookupInv,
         disk'.ops = disk.ops, disk'.receipts = disk.receipts, disk'.spaces = disk.spaces,
         stable'.ops \in {stable.ops, disk.ops},
         stable'.receipts \in {stable.receipts, disk.receipts},
         stable'.spaces \in {stable.spaces, disk.spaces}
  PROVE  StableInv' /\ NamedInv'
BY DEF LookupInv, StableInv, NamedInv

\* A call that goes on without an effect.
LEMMA PlaceKept ==
  ASSUME JournalInv, LookupInv, NEW from, NEW to, Step(from, to),
         disk'.ops = disk.ops, disk'.spaces = disk.spaces,
         to = "rename" => disk'.pending, to = "origin" => Of.act.kind = "fork",
         to \in Holding, from \in Holding,
         to \in Early \cup {"sync_created", "origin"}
           => from \in Early \cup {"sync_created", "origin"}
  PROVE  PlaceInv'
<1>1. call'.at = to /\ call'.of = call.of /\ call.at = from
  BY DEF JournalInv, JournalTypeOK, CallOK, Step
<1>2. to # "reserve" /\ to # "fill"
  BY DEF Holding, Reserved
<1> QED BY <1>1, <1>2 DEF LookupInv, PlaceInv, Of

-----------------------------------------------------------------------------
(* Every step keeps that, and what a lookup has found stays found. *)

StaysFound(r) ==
  Answer(disk, r) \in Known =>
    \/ Answer(disk', r) \in {Answer(disk, r), "review"}
    \/ stable' = disk' /\ Answer(stable, r) # Answer(disk, r)

Lasts == LookupInv' /\ \A r \in OnRecord : StaysFound(r)

LEMMA OnRecordRequests ==
  ASSUME JournalInv, NEW r \in OnRecord, Answer(disk, r) \in Known
  PROVE  r \in Requests /\ r.key \in Keys
<1>1. r \in Requests
  BY DEF OnRecord, Settled, Origins, JournalInv, JournalTypeOK, Storage, Operation, Workspace
<1> QED BY <1>1, RequestFields

\* The disk is as it was.
LEMMA SameDisk == UNCHANGED disk => \A r \in OnRecord : StaysFound(r)
BY DEF StaysFound

\* Of the disk nothing changed that a lookup looks for.
LEMMA SameParts ==
  ASSUME disk'.ops = disk.ops, Settled(disk') = Settled(disk)
  PROVE  \A r \in OnRecord : StaysFound(r)
BY SameAnswer DEF StaysFound

\* Nothing is found on a disk that is for a person to review, before or after a step.
LEMMA IllegibleDisk ==
  ASSUME ~Legible(disk) \/ ~Legible(disk')
  PROVE  \A r \in OnRecord : StaysFound(r)
BY DEF StaysFound, Answer, Known

LEMMA SettledBy ==
  ASSUME NEW d, NEW e, e.receipts = d.receipts, e.spaces = d.spaces, e.ops = d.ops
  PROVE  Settled(e) = Settled(d)
BY DEF Settled, Origins

LEMMA InitLookup == JournalInit => LookupInv
BY DEF JournalInit, LookupInv, PlaceInv, StableInv, NamedInv, Blank, Early, Holding, Reserved

LEMMA ApplyLasts ==
  ASSUME JournalInv, LookupInv, NEW r \in Current, Apply(r)
  PROVE  Lasts
<1>1. /\ call' = [at |-> "reserve", of |-> r, acted |-> FALSE]
      /\ Answer(disk, r) = "absent" /\ Free(r.act) /\ UNCHANGED <<disk, stable>>
  BY DEF Apply
<1>2. r \in Requests /\ r.key \in Keys
  BY InvParts, CurrentRequests, RequestFields
<1>3. disk.ops[r.key].state # "done"
  <2>1. Holders(disk, r.key) \ {r} = {} /\ disk.ops[r.key].of # r
    BY <1>1 DEF Answer
  <2>2. disk.ops[r.key].state = "done" => disk.ops[r.key].of \in Holders(disk, r.key)
    BY <1>2 DEF LookupInv, NamedInv, Holders
  <2> QED BY <2>1, <2>2
<1>4. r.act.kind = "fork" => disk.spaces[r.act.place].of = NoRequest
  BY <1>1 DEF Free, Blank
<1>5. PlaceInv'
  BY <1>1, <1>3, <1>4 DEF PlaceInv, Of, Holding, Reserved
<1> QED BY <1>1, <1>5, SameDisk DEF Lasts, LookupInv, StableInv, NamedInv

LEMMA ReserveLasts ==
  ASSUME JournalInv, LookupInv, Reserve \/ Fill
  PROVE  Lasts
<1>1. PICK o : /\ disk' = [disk EXCEPT !.ops[Of.key] = o]
               /\ \/ call.at = "reserve" /\ call'.at = "fill"
                     /\ o = [state |-> "torn", of |-> NoRequest]
                  \/ call.at = "fill" /\ call'.at = "sync_reserved"
                     /\ o = [state |-> "intent", of |-> Of]
               /\ call'.of = call.of /\ stable' = stable
  BY DEF Reserve, Fill, Step, JournalInv, JournalTypeOK, CallOK
<1>2. Of.key \in Keys
  BY <1>1, CallFields DEF JournalInv
<1>3. /\ disk'.ops = [disk.ops EXCEPT ![Of.key] = o] /\ disk'.receipts = disk.receipts
      /\ disk'.spaces = disk.spaces /\ DOMAIN disk.ops = Keys
  BY <1>1, <1>2, OpsParts, InvParts DEF Storage
<1>4. /\ disk'.ops[Of.key] = o
      /\ \A k \in Keys : k # Of.key => disk'.ops[k] = disk.ops[k]
  BY <1>2, <1>3
<1>5. PlaceInv'
  BY <1>1, <1>3, <1>4 DEF LookupInv, PlaceInv, Of, Early, Holding, Reserved
<1>6. disk.ops[Of.key].state # "done"
  BY <1>1 DEF LookupInv, PlaceInv
<1>7. StableInv' /\ NamedInv'
  BY <1>1, <1>2, <1>3, <1>4, <1>6 DEF LookupInv, StableInv, NamedInv
<1>8. ~Legible(disk) \/ ~Legible(disk')
  BY <1>1, <1>2, <1>4 DEF Legible, LookupInv, PlaceInv
<1> QED BY <1>5, <1>7, <1>8, IllegibleDisk DEF Lasts, LookupInv

\* Synchronizations, and the decision to cancel.
LEMMA QuietLasts ==
  ASSUME JournalInv, LookupInv,
         SyncReserved \/ Cancel \/ SyncCreated \/ SyncOrigin \/ SyncDocument
  PROVE  Lasts
<1>1. UNCHANGED disk
  BY DEF SyncReserved, Cancel, SyncCreated, SyncOrigin, SyncDocument
<1>2. /\ stable'.ops \in {stable.ops, disk.ops}
      /\ stable'.receipts \in {stable.receipts, disk.receipts}
      /\ stable'.spaces \in {stable.spaces, disk.spaces}
  <2>1. CASE SyncReserved
    BY <2>1, InvParts, SyncedParts DEF SyncReserved, JournalSynced
  <2>2. CASE Cancel
    BY <2>2 DEF Cancel
  <2>3. CASE SyncCreated
    <3>1. CASE Of.act.kind = "export"
      BY <2>3, <3>1, InvParts, SyncedParts DEF SyncCreated
    <3>2. CASE Of.act.kind # "export"
      <4>1. stable' = [stable EXCEPT !.spaces = disk.spaces, !.bytes = disk.bytes,
                                     !.receipts = disk.receipts]
        BY <2>3, <3>2 DEF SyncCreated
      <4>2. /\ stable'.ops = stable.ops /\ stable'.receipts = disk.receipts
            /\ stable'.spaces = disk.spaces
        BY <4>1, InvParts, SyncedParts
      <4> QED BY <4>2
    <3> QED BY <3>1, <3>2
  <2>4. CASE SyncOrigin
    BY <2>4, InvParts, SyncedParts DEF SyncOrigin
  <2>5. CASE SyncDocument
    BY <2>5, InvParts, SyncedParts DEF SyncDocument
  <2> QED BY <2>1, <2>2, <2>3, <2>4, <2>5
<1>3. PlaceInv'
  <2>1. CASE SyncReserved
    BY <1>1, <2>1, PlaceKept DEF SyncReserved, Holding, Reserved, Early
  <2>2. CASE Cancel
    BY <1>1, <2>2, PlaceKept DEF Cancel, Holding, Reserved, Early
  <2>3. CASE SyncCreated
    <3>1. \/ Step("sync_created", "document")
          \/ Step("sync_created", "origin") /\ Of.act.kind # "export"
      BY <2>3 DEF SyncCreated
    <3>2. Of.act.kind # "edit" /\ Of.act.kind \in {"edit", "export", "fork"}
      <4>1. call.at = "sync_created" /\ call.at # "idle"
        BY <3>1 DEF Step
      <4>2. Of \in Requests
        BY <4>1, CallFields DEF JournalInv
      <4> QED BY <4>1, <4>2 DEF JournalInv, RoomInv, Requests, Acts
    <3> QED BY <1>1, <3>1, <3>2, PlaceKept DEF Holding, Reserved, Early
  <2>4. CASE SyncOrigin
    BY <1>1, <2>4, PlaceKept DEF SyncOrigin, Holding, Reserved, Early
  <2>5. CASE SyncDocument
    BY <1>1, <2>5, PlaceKept DEF SyncDocument, Holding, Reserved, Early
  <2> QED BY <2>1, <2>2, <2>3, <2>4, <2>5
<1> QED BY <1>1, <1>2, <1>3, LookupKept, SameDisk DEF Lasts, LookupInv

LEMMA CreateLasts ==
  ASSUME JournalInv, LookupInv, Create
  PROVE  Lasts
<1>1. /\ call.at = "decide" /\ call'.at = "sync_created" /\ call'.of = call.of
      /\ Of.act.kind # "edit" /\ UNCHANGED stable
  BY DEF Create, Effective, JournalInv, JournalTypeOK, CallOK
<1>2. Of \in Requests /\ Of.act.place \in Places /\ Of.act.kind \in {"export", "fork"}
  BY <1>1, CallFields, RequestFields DEF JournalInv, Requests, Acts
<1>3. CASE Of.act.kind = "export"
  <2>1. disk'.ops = disk.ops /\ disk'.receipts = disk.receipts /\ disk'.spaces = disk.spaces
    BY <1>2, <1>3, InvParts, PlaceParts DEF Create
  <2>2. PlaceInv'
    BY <1>1, <1>3, <2>1 DEF LookupInv, PlaceInv, Of, Early, Holding, Reserved
  <2> QED BY <1>1, <2>1, <2>2, LookupKept, SameParts, SettledBy DEF Lasts, LookupInv
<1>4. CASE Of.act.kind # "export"
  <2>1. /\ disk'.ops = disk.ops /\ disk'.receipts = disk.receipts
        /\ disk'.spaces = [disk.spaces EXCEPT ![Of.act.place] =
                             [state |-> "partial", of |-> NoRequest]]
    BY <1>2, <1>4, InvParts, PlaceParts DEF Create
  <2>2. disk.spaces[Of.act.place].of = NoRequest
    BY <1>1, <1>2, <1>4 DEF LookupInv, PlaceInv, Early
  <2>3. \A p \in Places : disk'.spaces[p].of = disk.spaces[p].of
    BY <2>1, <2>2, InvParts DEF Storage
  <2>4. Settled(disk') = Settled(disk)
    BY <2>1, <2>3 DEF Settled, Origins
  <2>5. PlaceInv'
    BY <1>1, <1>2, <2>1, <2>2, <2>3 DEF LookupInv, PlaceInv, Of, Early, Holding, Reserved
  <2>6. StableInv' /\ NamedInv'
    BY <1>1, <2>1, <2>3 DEF LookupInv, StableInv, NamedInv
  <2> QED BY <2>1, <2>4, <2>5, <2>6, SameParts DEF Lasts, LookupInv
<1> QED BY <1>3, <1>4

LEMMA OriginateLasts ==
  ASSUME JournalInv, LookupInv, Originate
  PROVE  Lasts
<1>1. /\ call.at = "origin" /\ call'.at = "sync_origin" /\ call'.of = call.of
      /\ UNCHANGED stable
  BY DEF Originate, Step, JournalInv, JournalTypeOK, CallOK
<1>2. /\ Of \in Requests /\ Of.act.place \in Places
      /\ disk.spaces[Of.act.place].of = NoRequest /\ Of # NoRequest
  BY <1>1, CallFields, RequestFields DEF JournalInv, RoomInv, LookupInv, PlaceInv
<1>3. /\ disk'.ops = disk.ops /\ disk'.receipts = disk.receipts
      /\ disk'.spaces = [disk.spaces EXCEPT ![Of.act.place] = [state |-> "done", of |-> Of]]
      /\ DOMAIN disk.spaces = Places
  BY <1>2, InvParts, PlaceParts DEF Originate, Storage
<1>4. /\ disk'.spaces[Of.act.place].of = Of
      /\ \A p \in Places : p # Of.act.place => disk'.spaces[p] = disk.spaces[p]
  BY <1>2, <1>3
<1>5. Origins(disk') = Origins(disk) \cup {Of}
  BY <1>2, <1>4 DEF Origins
<1>6. Settled(disk') = Settled(disk) \cup {Of}
  BY <1>3, <1>5 DEF Settled
<1>7. PlaceInv'
  BY <1>1, <1>3 DEF LookupInv, PlaceInv, Of, Early, Holding, Reserved
<1>8. StableInv' /\ NamedInv'
  BY <1>1, <1>2, <1>3, <1>4 DEF LookupInv, StableInv, NamedInv
<1> QED BY <1>1, <1>3, <1>6, <1>7, <1>8, ResultAdded
        DEF Lasts, LookupInv, StaysFound, Holding, Reserved

LEMMA WriteDocumentLasts ==
  ASSUME JournalInv, LookupInv, WriteDocument
  PROVE  Lasts
<1>1. /\ call.at \in {"decide", "document"} /\ call'.at = "sync_document"
      /\ call'.of = call.of /\ UNCHANGED stable
      /\ disk' = [disk EXCEPT !.bytes = writes', !.receipts = Receipts]
  BY DEF WriteDocument, Effective, Step, JournalInv, JournalTypeOK, CallOK
<1>2. /\ disk'.ops = disk.ops /\ disk'.receipts = disk.receipts \cup {Of}
      /\ disk'.spaces = disk.spaces
  <2>1. PICK b, R : b = writes' /\ R = Receipts
    OBVIOUS
  <2>2. disk' = [disk EXCEPT !.bytes = b, !.receipts = R] /\ disk \in Storage
    BY <1>1, <2>1, InvParts
  <2>3. disk'.ops = disk.ops /\ disk'.receipts = R /\ disk'.spaces = disk.spaces
    BY ONLY <2>2, DocumentParts
  <2> QED BY <2>1, <2>3 DEF Receipts
<1>3. Settled(disk') = Settled(disk) \cup {Of}
  BY <1>2 DEF Settled, Origins
<1>4. PlaceInv'
  BY <1>1, <1>2 DEF LookupInv, PlaceInv, Of, Early, Holding, Reserved
<1>5. StableInv' /\ NamedInv'
  BY <1>1, <1>2 DEF LookupInv, StableInv, NamedInv
<1> QED BY <1>1, <1>2, <1>3, <1>4, <1>5, ResultAdded
        DEF Lasts, LookupInv, StaysFound, Holding, Reserved

LEMMA RecordLasts ==
  ASSUME JournalInv, LookupInv, Write \/ Rename \/ Finish
  PROVE  Lasts
<1>1. CASE Write
  <2>1. /\ disk'.ops = disk.ops /\ disk'.receipts = disk.receipts
        /\ disk'.spaces = disk.spaces /\ disk'.pending /\ UNCHANGED stable
    BY <1>1, InvParts, Parts DEF Write
  <2>2. PlaceInv'
    BY <1>1, <2>1, PlaceKept DEF Write, Holding, Reserved, Early
  <2>3. ~Legible(disk')
    BY <2>1 DEF Legible
  <2> QED BY <2>1, <2>2, <2>3, LookupKept, IllegibleDisk DEF Lasts, LookupInv
<1>2. CASE Rename
  <2>1. /\ call.at = "rename" /\ call'.at = "sync_record" /\ UNCHANGED stable
        /\ disk' = [disk EXCEPT !.pending = FALSE,
                                !.ops[Of.key] = [state |-> Outcome, of |-> Of]]
    BY <1>2 DEF Rename, Step, JournalInv, JournalTypeOK, CallOK
  <2>2. Of \in Requests /\ Of.key \in Keys /\ Of # NoRequest
    BY <2>1, CallFields, RequestFields DEF JournalInv
  <2>3. /\ disk'.ops = [disk.ops EXCEPT ![Of.key] = [state |-> Outcome, of |-> Of]]
        /\ disk'.receipts = disk.receipts /\ disk'.spaces = disk.spaces
        /\ DOMAIN disk.ops = Keys
    BY <2>1, <2>2, OpsParts, InvParts DEF Storage
  <2>4. /\ disk'.ops[Of.key].of = Of
        /\ \A k \in Keys : k # Of.key => disk'.ops[k] = disk.ops[k]
    BY <2>2, <2>3
  <2>5. disk.ops[Of.key].state = "intent" /\ ~Legible(disk)
    BY <2>1 DEF LookupInv, PlaceInv, Holding, Reserved, Legible
  <2>6. PlaceInv'
    BY <2>1 DEF PlaceInv, Holding, Reserved, Early
  <2>7. StableInv' /\ NamedInv'
    BY <2>1, <2>2, <2>3, <2>4, <2>5 DEF LookupInv, StableInv, NamedInv
  <2> QED BY <2>5, <2>6, <2>7, IllegibleDisk DEF Lasts, LookupInv
<1>3. CASE Finish
  <2>1. /\ call'.at = "idle" /\ UNCHANGED disk /\ stable' = JournalSynced
    BY <1>3 DEF Finish, Tells
  <2>2. PlaceInv'
    BY <2>1 DEF PlaceInv, Holding, Reserved, Early
  <2>3. /\ stable'.ops = disk.ops /\ stable'.receipts = stable.receipts
        /\ stable'.spaces = stable.spaces
    BY <2>1, InvParts, SyncedParts DEF JournalSynced
  <2> QED BY <2>1, <2>2, <2>3, LookupKept, SameDisk DEF Lasts, LookupInv
<1> QED BY <1>1, <1>2, <1>3

LEMMA FailLasts ==
  ASSUME JournalInv, LookupInv, Fail
  PROVE  Lasts
<1>1. PICK left : /\ disk' = [disk EXCEPT !.pending = left]
                  /\ call.at # "rename" => left = disk.pending
  BY DEF Fail
<1>2. disk'.ops = disk.ops /\ disk'.receipts = disk.receipts /\ disk'.spaces = disk.spaces
  BY <1>1, InvParts, Parts
<1>3. call'.at = "idle" /\ UNCHANGED stable
  BY DEF Fail, Tells
<1>4. PlaceInv'
  BY <1>3 DEF PlaceInv, Holding, Reserved, Early
<1> QED BY <1>2, <1>3, <1>4, LookupKept, SameParts, SettledBy DEF Lasts, LookupInv

\* What a loss of power leaves is, for each part, what was there or what was synchronized;
\* a result found in both of them is therefore found in every mixture.
LEMMA MixedAnswer ==
  ASSUME StableInv, NEW e, NEW r, r.key \in Keys,
         Answer(disk, r) \in Known, Answer(stable, r) = Answer(disk, r),
         e.receipts \in {disk.receipts, stable.receipts},
         e.spaces \in {disk.spaces, stable.spaces},
         \A k \in Keys : e.ops[k] \in {disk.ops[k], stable.ops[k]}
  PROVE  Answer(e, r) \in {Answer(disk, r), "review"}
<1>1. /\ Holders(disk, r.key) \ {r} = {} /\ Holders(stable, r.key) \ {r} = {}
      /\ Answer(disk, r) = "done" =>
           /\ r \in Settled(disk) /\ disk.ops[r.key].state # "cancelled"
           /\ r \in Settled(stable) /\ stable.ops[r.key].state # "cancelled"
      /\ Answer(disk, r) = "cancelled" =>
           /\ r \notin Settled(disk) /\ disk.ops[r.key].state = "cancelled"
           /\ r \notin Settled(stable) /\ stable.ops[r.key].state = "cancelled"
  BY KnownAnswer
<1>2. Settled(e) \subseteq Settled(disk) \cup Settled(stable)
  BY DEF Settled, Origins
<1>3. Holders(e, r.key) \ {r} = {}
  BY <1>1, <1>2 DEF Holders
<1>4. e.ops[r.key] \in {disk.ops[r.key], stable.ops[r.key]}
  OBVIOUS
<1>5. CASE Answer(disk, r) = "done"
  <2>1. r \in Settled(e)
    <3>1. r \in Settled(stable)
      BY <1>1, <1>5
    <3>2. CASE r \in stable.receipts
      <4>1. r \in disk.receipts
        BY <3>2 DEF StableInv
      <4> QED BY <3>2, <4>1 DEF Settled
    <3>3. CASE r \in Origins(stable)
      <4>1. r \in Origins(disk)
        BY <3>3 DEF StableInv, Origins
      <4>2. r \in Origins(e)
        BY <3>3, <4>1 DEF Origins
      <4> QED BY <4>2 DEF Settled
    <3>4. CASE \E k \in Keys : stable.ops[k].state = "done" /\ stable.ops[k].of = r
      <4>1. PICK k \in Keys : stable.ops[k].state = "done" /\ stable.ops[k].of = r
        BY <3>4
      <4>2. disk.ops[k] = stable.ops[k] /\ e.ops[k] = stable.ops[k]
        BY <4>1 DEF StableInv
      <4> QED BY <4>1, <4>2 DEF Settled
    <3> QED BY <3>1, <3>2, <3>3, <3>4 DEF Settled
  <2>2. e.ops[r.key].state # "cancelled"
    BY <1>1, <1>4, <1>5
  <2> QED BY <1>3, <1>5, <2>1, <2>2 DEF Answer
<1>6. CASE Answer(disk, r) = "cancelled"
  <2>1. r \notin Settled(e) /\ e.ops[r.key].state = "cancelled"
    BY <1>1, <1>2, <1>4, <1>6
  <2> QED BY <1>3, <1>6, <2>1 DEF Answer
<1> QED BY <1>5, <1>6 DEF Known

LEMMA LosePowerLasts ==
  ASSUME JournalInv, LookupInv, LosePower
  PROVE  Lasts
<1>1. /\ call'.at = "idle" /\ stable' = disk'
      /\ disk'.receipts \in {disk.receipts, stable.receipts}
      /\ disk'.spaces \in {disk.spaces, stable.spaces}
      /\ \A k \in Keys : disk'.ops[k] \in Left(k)
  <2>1. PICK o \in [Keys -> UNION {Left(k) : k \in Keys}],
             d \in {<<disk.bytes, disk.receipts>>, <<stable.bytes, stable.receipts>>},
             p \in {disk.pending, stable.pending},
             x \in {disk.exports, stable.exports}, s \in {disk.spaces, stable.spaces} :
          /\ \A k \in Keys : o[k] \in Left(k)
          /\ disk' = [bytes |-> d[1], receipts |-> d[2], ops |-> o, pending |-> p,
                      exports |-> x, spaces |-> s]
    BY DEF LosePower
  <2> QED BY <2>1 DEF LosePower
<1>2. \A k \in Keys : \/ disk'.ops[k] \in {disk.ops[k], stable.ops[k]}
                      \/ disk'.ops[k].state = "torn"
  BY <1>1 DEF Left
<1>3. PlaceInv'
  BY <1>1 DEF PlaceInv, Holding, Reserved, Early
<1>4. StableInv' /\ NamedInv'
  BY <1>1, <1>2 DEF LookupInv, StableInv, NamedInv
<1>5. ASSUME NEW r \in OnRecord, Answer(disk, r) \in Known, Answer(stable, r) = Answer(disk, r)
      PROVE  Answer(disk', r) \in {Answer(disk, r), "review"}
  <2>1. CASE \E k \in Keys : disk'.ops[k].state = "torn"
    BY <2>1 DEF Answer, Legible
  <2>2. CASE \A k \in Keys : disk'.ops[k].state # "torn"
    <3>1. r.key \in Keys
      BY <1>5, OnRecordRequests
    <3>2. \A k \in Keys : disk'.ops[k] \in {disk.ops[k], stable.ops[k]}
      BY <1>2, <2>2
    <3> QED BY <1>1, <1>5, <3>1, <3>2, MixedAnswer DEF LookupInv
  <2> QED BY <2>1, <2>2
<1> QED BY <1>1, <1>3, <1>4, <1>5 DEF Lasts, LookupInv, StaysFound

LEMMA NextLasts == JournalInv /\ LookupInv /\ [JournalNext]_journalVars => Lasts
<1> SUFFICES ASSUME JournalInv, LookupInv, [JournalNext]_journalVars PROVE Lasts
  OBVIOUS
<1>1. CASE \E r \in Current : Apply(r)
  BY <1>1, ApplyLasts
<1>2. CASE CallStep
  BY <1>2, ReserveLasts, QuietLasts, OriginateLasts, CreateLasts, WriteDocumentLasts,
     RecordLasts DEF CallStep
<1>3. CASE Fail \/ LosePower
  BY <1>3, FailLasts, LosePowerLasts
<1>4. CASE Crash
  <2>1. call'.at = "idle" /\ UNCHANGED <<disk, stable>>
    BY <1>4 DEF Crash
  <2>2. PlaceInv'
    BY <2>1 DEF PlaceInv, Holding, Reserved, Early
  <2> QED BY <2>1, <2>2, SameDisk, LookupKept DEF Lasts, LookupInv
<1>5. CASE Open \/ UNCHANGED journalVars
  <2>1. UNCHANGED <<disk, stable, call>>
    BY <1>5 DEF Open, journalVars
  <2>2. PlaceInv'
    BY <2>1 DEF LookupInv, PlaceInv, Of
  <2> QED BY <2>1, <2>2, SameDisk, LookupKept DEF Lasts, LookupInv
<1> QED BY <1>1, <1>2, <1>3, <1>4, <1>5 DEF JournalNext

-----------------------------------------------------------------------------
(* The theorems. *)

\* The document, its journal and the call stay in their types, across failures, crashes
\* and losses of power.
THEOREM JournalTypeCorrectness == JournalSafety => []JournalTypeOK
<1>1. JournalInv => JournalTypeOK
  BY DEF JournalInv
<1> QED BY <1>1, Inductive, PTL

\* reserve_operation and what follows it: a key takes effect once, whatever interrupts the
\* call, its process or the machine, and its record survives them all.
THEOREM KeysAreExclusive == JournalSafety => []KeysTakeEffectOnce
<1>1. JournalInv => KeysTakeEffectOnce
  BY DEF JournalInv, EffectsInv, KeysTakeEffectOnce
<1> QED BY <1>1, Inductive, PTL

\* What apply answered with a known outcome is true: a refused or cancelled request has no
\* effect, now or later, and one that is done has had it and is on stable storage.
THEOREM AnswersStayTrue == JournalSafety => []AnswersAreTrue
<1>1. JournalInv => AnswersAreTrue
  <2> SUFFICES ASSUME JournalInv, NEW t \in told
               PROVE  /\ t.answer = "refused" => ~t.acted
                      /\ t.answer = "cancelled" => \A i \in DOMAIN effects : effects[i] # t.of
                      /\ t.answer = "done" => /\ \E i \in DOMAIN effects : effects[i] = t.of
                                              /\ t.of \in Settled(stable)
    BY DEF AnswersAreTrue
  <2>1. ToldOK(t)
    BY DEF JournalInv, ToldInv
  <2>2. t.of.key \in Keys
    BY RequestFields DEF JournalInv, JournalTypeOK
  <2>3. t.answer = "done" => t.of \in Settled(stable)
    BY <2>1, <2>2 DEF ToldOK, Final, Settled
  <2> QED BY <2>1, <2>3 DEF ToldOK, Took, Untouched
<1> QED BY <1>1, Inductive, PTL

\* operation_history: what a lookup has answered it answers again, whichever of the document,
\* the journal and the origin has the result, and however a call or the machine is
\* interrupted; only a loss of power takes back what was not synchronized.
THEOREM ResultsAreKept == JournalSafety => ResultsStayOnRecord
<1>1. JournalSafety => []LookupInv
  <2>1. JournalInv /\ LookupInv /\ [JournalNext]_journalVars => LookupInv'
    BY NextLasts DEF Lasts
  <2> QED BY <2>1, InitLookup, Inductive, PTL DEF JournalSafety
<1>2. JournalInv /\ LookupInv /\ [JournalNext]_journalVars =>
        [\A r \in OnRecord :
           Answer(disk, r) \in {"done", "cancelled"} =>
             \/ Answer(disk', r) \in {Answer(disk, r), "review"}
             \/ stable' = disk' /\ Answer(stable, r) # Answer(disk, r)]_journalVars
  BY NextLasts DEF Lasts, StaysFound, Known
<1> QED BY <1>1, <1>2, Inductive, PTL DEF JournalSafety, ResultsStayOnRecord
=============================================================================
