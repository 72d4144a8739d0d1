-------------------------- MODULE OperationJournal --------------------------
(***************************************************************************)
(* The file profile of the native SDK (crates/native-sdk/src/file_profile, *)
(* mod.rs and recovery.rs): a document that several processes open, whose  *)
(* every mutation has an operation key.  The key is reserved in a journal  *)
(* before the first effect and gets its receipt after the last; the        *)
(* document and the origin of a fork carry the receipt too.                *)
(*                                                                         *)
(* A call holds the document's lock from its first look at the disk to its *)
(* answer, and everybody else is told BUSY, so there is one call at a      *)
(* time; what interrupts it is a failing system call, the end of its       *)
(* process and the loss of power.  `disk` is what a process sees, `stable` *)
(* what a loss of power leaves; synchronizing a directory makes the second *)
(* equal the first for that directory, its own name included.              *)
(*                                                                         *)
(* A call that is refused before it reserves its key (generation, revision,*)
(* schema, model, capacity, cancellation) changes nothing and is left out, *)
(* as are snapshots, whose extra file is named by its contents.            *)
(***************************************************************************)
EXTENDS Integers, Sequences, FiniteSets

CONSTANTS Keys,        \* operation keys of the clients
          Places,      \* slots of the output root, and names of workspaces
          NoRequest,
          MaxOpens,    \* processes that open the document, one after the other
          MaxWrites,   \* document.json is written so often
          MaxFaults,   \* system calls that fail
          MaxCrashes   \* ends of a process inside a call, and losses of power

ASSUME BoundsAssumption == /\ MaxOpens \in Nat \ {0} /\ MaxWrites \in Nat
                           /\ MaxFaults \in Nat /\ MaxCrashes \in Nat

VARIABLES disk,        \* document, journal, exports and workspaces, as read
          stable,      \* the same after a loss of power
          call,        \* the call that holds the lock: where, for what, and whether
                       \* its effect has begun
          alive,       \* generations whose process is up
          opens,       \* generations so far
          writes,      \* bytes of document.json so far
          effects,     \* the requests whose effect began, in order
          told,        \* [of, answer, acted]: the answers with a known outcome
          faults, crashes

journalVars == <<disk, stable, call, alive, opens, writes, effects, told,
                 faults, crashes>>
fate == <<alive, opens, faults, crashes>>

Acts == [kind : {"edit"}, place : {0}] \cup [kind : {"export", "fork"}, place : Places]

\* expected_revision is an identifier of the bytes of document.json.
Requests == [key : Keys, act : Acts, generation : 1 .. MaxOpens, expects : 0 .. MaxWrites]

ASSUME NoRequestAssumption == NoRequest \notin Requests

Blank == [state |-> "none", of |-> NoRequest]

JournalInit ==
  /\ disk = [bytes    |-> 0,                               \* Document
             receipts |-> {},                              \*    its receipts
             ops      |-> [k \in Keys |-> Blank],          \* operations/<key>.json
             pending  |-> FALSE,                           \* operations/.pending-<id>
             exports  |-> [p \in Places |-> NoRequest],
             spaces   |-> [p \in Places |-> Blank]]        \* workspace-<id>/
  /\ stable = disk
  /\ call = [at |-> "idle", of |-> NoRequest, acted |-> FALSE]
  /\ alive = {1} /\ opens = 1 /\ writes = 0
  /\ effects = <<>> /\ told = {}
  /\ faults = 0 /\ crashes = 0

-----------------------------------------------------------------------------
(* operation_history, on a disk or what is left of it. *)

Forked(d, p) == \E k \in Keys : /\ d.ops[k].of # NoRequest
                                /\ d.ops[k].of.act = [kind |-> "fork", place |-> p]

\* journal_records and legacy_origins: what an interrupted write left in the journal, or a
\* workspace that is in nobody's record, is for a person to review.
Legible(d) == /\ ~d.pending
              /\ \A k \in Keys : d.ops[k].state # "torn"
              /\ \A p \in Places : d.spaces[p].state = "partial" => Forked(d, p)

Origins(d) == {d.spaces[p].of : p \in Places} \ {NoRequest}
Settled(d) == d.receipts \cup Origins(d)
                \cup {d.ops[k].of : k \in {l \in Keys : d.ops[l].state = "done"}}
Holders(d, k) == {q \in Settled(d) : q.key = k} \cup ({d.ops[k].of} \ {NoRequest})

\* What operation_get answers of r, and apply when r is sent again: neither writes anything.
Answer(d, r) ==
  IF ~Legible(d) THEN "review"
  ELSE IF Holders(d, r.key) \ {r} # {} THEN "conflict"
  ELSE IF d.ops[r.key].state = "cancelled"
       THEN IF r \in Settled(d) THEN "conflict" ELSE "cancelled"
  ELSE IF r \in Settled(d) THEN "done"
  ELSE IF d.ops[r.key].of = r THEN "reserved"
  ELSE "absent"

-----------------------------------------------------------------------------
(* NativeApp::apply *)

Step(from, to) == call.at = from /\ call' = [call EXCEPT !.at = to]
Of == call.of

\* An answer, with which the lock is released.
Tells(answer) ==
  /\ call' = [at |-> "idle", of |-> NoRequest, acted |-> FALSE]
  /\ told' = told \cup {[of |-> Of, answer |-> answer, acted |-> call.acted]}

\* Every check up to the capacity of the journal and the first two looks at the token; the
\* request names the generation of the process and the bytes it read.
Current == [key : Keys, act : Acts, generation : alive, expects : {disk.bytes}]
Free(act) == CASE act.kind = "edit"   -> TRUE
               [] act.kind = "export" -> disk.exports[act.place] = NoRequest
               [] act.kind = "fork"   -> disk.spaces[act.place] = Blank

Apply(r) ==
  /\ call.at = "idle"
  /\ Answer(disk, r) = "absent" /\ Free(r.act)
  /\ writes < MaxWrites
  /\ call' = [at |-> "reserve", of |-> r, acted |-> FALSE]
  /\ UNCHANGED <<disk, stable, writes, effects, told, fate>>

OnRecord == (Settled(disk) \cup {disk.ops[k].of : k \in Keys}) \ {NoRequest}

\* reserve_operation: the file is created empty, then filled, then synchronized.
Reserve == /\ Step("reserve", "fill")
           /\ disk' = [disk EXCEPT !.ops[Of.key] = [state |-> "torn", of |-> NoRequest]]
           /\ UNCHANGED <<stable, writes, effects, told, fate>>

Fill == /\ Step("fill", "sync_reserved")
        /\ disk' = [disk EXCEPT !.ops[Of.key] = [state |-> "intent", of |-> Of]]
        /\ UNCHANGED <<stable, writes, effects, told, fate>>

\* sync_dir of operations/.
NeverSynced   == stable                                            \* faulty
JournalSynced == [stable EXCEPT !.ops = disk.ops, !.pending = disk.pending]

SyncReserved == /\ Step("sync_reserved", "decide")
                /\ stable' = JournalSynced
                /\ UNCHANGED <<disk, writes, effects, told, fate>>

\* The last look at the token: the key is reserved and nothing else has happened.
Cancel == /\ Step("decide", "record")
          /\ UNCHANGED <<disk, stable, writes, effects, told, fate>>

Began == /\ effects' = Append(effects, Of)
         /\ UNCHANGED <<told, fate>>
Effective(from, to) == /\ call.at = from
                       /\ call' = [call EXCEPT !.at = to, !.acted = TRUE]
                       /\ Began

\* create_new of the exported file, or the exclusive create_dir of fork_document.
Create == /\ Of # NoRequest /\ Of.act.kind # "edit"
          /\ Effective("decide", "sync_created")
          /\ disk' = IF Of.act.kind = "export"
                     THEN [disk EXCEPT !.exports[Of.act.place] = Of]
                     ELSE [disk EXCEPT !.spaces[Of.act.place] =
                                         [state |-> "partial", of |-> NoRequest]]
          /\ UNCHANGED <<stable, writes>>

\* The file and its directory, or the copied document with the root of the original.
SyncCreated == /\ Step("sync_created", IF Of.act.kind = "export" THEN "document" ELSE "origin")
               /\ stable' = IF Of.act.kind = "export"
                            THEN [stable EXCEPT !.exports = disk.exports]
                            ELSE [stable EXCEPT !.spaces = disk.spaces, !.bytes = disk.bytes,
                                                !.receipts = disk.receipts]
               /\ UNCHANGED <<disk, writes, effects, told, fate>>

\* write_atomic of origin.json, then the synchronization of the workspace.
Originate == /\ Step("origin", "sync_origin")
             /\ disk' = [disk EXCEPT !.spaces[Of.act.place] = [state |-> "done", of |-> Of]]
             /\ UNCHANGED <<stable, writes, effects, told, fate>>

SyncOrigin == /\ Step("sync_origin", "record")
              /\ stable' = [stable EXCEPT !.spaces = disk.spaces]
              /\ UNCHANGED <<disk, writes, effects, told, fate>>

LatestOnly == {Of}                      \* faulty: bounded as the events are
Receipts   == disk.receipts \cup {Of}

\* write_atomic of document.json: its rename, with the new receipt among the others, ...
WriteDocument ==
  /\ \/ Of # NoRequest /\ Of.act.kind = "edit" /\ Effective("decide", "sync_document")
     \/ Step("document", "sync_document") /\ UNCHANGED <<effects, told, fate>>
  /\ writes' = writes + 1
  /\ disk' = [disk EXCEPT !.bytes = writes', !.receipts = Receipts]
  /\ UNCHANGED stable

\* ... and the synchronization of the root.
SyncDocument == /\ Step("sync_document", "record")
                /\ stable' = [stable EXCEPT !.bytes = disk.bytes, !.receipts = disk.receipts,
                                            !.spaces = disk.spaces]
                /\ UNCHANGED <<disk, writes, effects, told, fate>>

\* record_operation, for the cancellation too: write_atomic in operations/.
Outcome == IF call.acted THEN "done" ELSE "cancelled"

Write == /\ Step("record", "rename")
         /\ disk' = [disk EXCEPT !.pending = TRUE]
         /\ UNCHANGED <<stable, writes, effects, told, fate>>

Rename == /\ Step("rename", "sync_record")
          /\ disk' = [disk EXCEPT !.pending = FALSE,
                                  !.ops[Of.key] = [state |-> Outcome, of |-> Of]]
          /\ UNCHANGED <<stable, writes, effects, told, fate>>

Finish == /\ call.at = "sync_record"
          /\ stable' = JournalSynced
          /\ Tells(Outcome)
          /\ UNCHANGED <<disk, writes, effects, fate>>

-----------------------------------------------------------------------------
(* What interrupts a call. *)

\* From the first byte of the reservation on, an error says that the outcome is unknown.
Refused(at)   == {"refused"}                                    \* faulty
FailureOf(at) == IF at = "reserve" THEN {"refused", "uncertain"} ELSE {"uncertain"}

\* write_atomic removes its pending file, unless that fails too.
Fail ==
  /\ call.at # "idle" /\ faults < MaxFaults
  /\ faults' = faults + 1
  /\ \E left \in IF call.at = "rename" THEN BOOLEAN ELSE {disk.pending} :
       disk' = [disk EXCEPT !.pending = left]
  /\ \E answer \in FailureOf(call.at) :
       IF answer = "refused"
       THEN Tells("refused")
       ELSE call' = [at |-> "idle", of |-> NoRequest, acted |-> FALSE] /\ UNCHANGED told
  /\ UNCHANGED <<stable, alive, opens, writes, effects, crashes>>

\* The process ends, and the kernel releases the lock.
Crash ==
  /\ call.at # "idle" /\ crashes < MaxCrashes
  /\ crashes' = crashes + 1
  /\ alive' = alive \ {Of.generation}
  /\ call' = [at |-> "idle", of |-> NoRequest, acted |-> FALSE]
  /\ UNCHANGED <<disk, stable, opens, writes, effects, told, faults>>

\* Everything that was not synchronized is there or is not, each for itself; of a file that
\* is there its contents need not be.
Left(k) == {disk.ops[k], stable.ops[k]}
             \cup (IF disk.ops[k].state = "intent" /\ stable.ops[k] = Blank
                   THEN {[state |-> "torn", of |-> NoRequest]} ELSE {})

LosePower ==
  /\ crashes < MaxCrashes
  /\ crashes' = crashes + 1
  /\ \E o \in [Keys -> UNION {Left(k) : k \in Keys}],
        d \in {<<disk.bytes, disk.receipts>>, <<stable.bytes, stable.receipts>>},
        p \in {disk.pending, stable.pending},
        x \in {disk.exports, stable.exports}, s \in {disk.spaces, stable.spaces} :
       /\ \A k \in Keys : o[k] \in Left(k)
       /\ disk' = [bytes |-> d[1], receipts |-> d[2], ops |-> o, pending |-> p,
                   exports |-> x, spaces |-> s]
  /\ stable' = disk'
  /\ alive' = {}
  /\ call' = [at |-> "idle", of |-> NoRequest, acted |-> FALSE]
  /\ UNCHANGED <<opens, writes, effects, told, faults>>

\* NativeApp::open: another process, with a generation of its own.
Open == /\ opens < MaxOpens
        /\ opens' = opens + 1
        /\ alive' = alive \cup {opens'}
        /\ UNCHANGED <<disk, stable, call, writes, effects, told, faults, crashes>>

CallStep == \/ Reserve \/ Fill \/ SyncReserved \/ Cancel
            \/ Create \/ SyncCreated \/ Originate \/ SyncOrigin
            \/ WriteDocument \/ SyncDocument
            \/ Write \/ Rename \/ Finish

JournalNext == \/ \E r \in Current : Apply(r)
               \/ CallStep
               \/ Fail \/ Crash \/ LosePower \/ Open

JournalSafety == JournalInit /\ [][JournalNext]_journalVars

-----------------------------------------------------------------------------
Operation == [state : {"none", "torn", "intent", "done", "cancelled"},
              of : Requests \cup {NoRequest}]
Workspace == [state : {"none", "partial", "done"}, of : Requests \cup {NoRequest}]

Storage == [bytes : 0 .. MaxWrites, receipts : SUBSET Requests, ops : [Keys -> Operation],
            pending : BOOLEAN, exports : [Places -> Requests \cup {NoRequest}],
            spaces : [Places -> Workspace]]

CallOK ==
  /\ call \in [at : {"idle", "reserve", "fill", "decide", "origin", "document", "record",
                     "rename", "sync_reserved", "sync_created", "sync_origin",
                     "sync_document", "sync_record"},
               of : Requests \cup {NoRequest}, acted : BOOLEAN]
  /\ call.at = "idle" <=> call.of = NoRequest

CountsOK == /\ alive \subseteq 1 .. opens /\ opens \in 1 .. MaxOpens
            /\ writes \in 0 .. MaxWrites
            /\ faults \in 0 .. MaxFaults /\ crashes \in 0 .. MaxCrashes

JournalTypeOK ==
  /\ disk \in Storage /\ stable \in Storage /\ CallOK /\ CountsOK
  /\ effects \in Seq(Requests)
  /\ told \subseteq [of : Requests, answer : {"refused", "done", "cancelled"}, acted : BOOLEAN]

\* The exclusive reservation: whatever is interrupted, no two requests take effect under
\* one key and none takes effect twice, because a key whose effect began stays reserved
\* by that request, after a loss of power too (apply, reserve_operation).
KeysTakeEffectOnce ==
  /\ \A i, j \in DOMAIN effects : effects[i].key = effects[j].key => i = j
  /\ \A i \in DOMAIN effects : stable.ops[effects[i].key].of = effects[i]

\* An answer with a known outcome is true, and remains so: what failed or was cancelled had
\* no effect, what is done is done and on stable storage (map_err(uncertain), cancel_reserved).
AnswersAreTrue ==
  \A t \in told :
    /\ t.answer = "refused" => ~t.acted
    /\ t.answer = "cancelled" => \A i \in DOMAIN effects : effects[i] # t.of
    /\ t.answer = "done" => /\ \E i \in DOMAIN effects : effects[i] = t.of
                            /\ t.of \in Settled(stable)

\* A result that a lookup has found is found again: by the document, the journal or the
\* origin, whichever was written last before an interruption.  Only a loss of power takes
\* back what was not synchronized, and only a review hides it (operation_history).
ResultsStayOnRecord ==
  [][\A r \in OnRecord :
       Answer(disk, r) \in {"done", "cancelled"} =>
         \/ Answer(disk', r) \in {Answer(disk, r), "review"}
         \/ stable' = disk' /\ Answer(stable, r) # Answer(disk, r)]_journalVars
=============================================================================
