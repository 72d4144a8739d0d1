-------------------------------- MODULE Audit --------------------------------
(***************************************************************************)
(* The audit log (crates/core/src/audit.rs): a live file and a few retired *)
(* ones, an append that may have to rotate them, and the scopes whose      *)
(* start and end it records.  An append runs under one lock, one system    *)
(* call after the other; each of them may fail, and the process may end    *)
(* between any two.  The next process reads the live file before it        *)
(* accepts anything.                                                       *)
(*                                                                         *)
(* A record is its number, the record it follows and the append that made  *)
(* it, which stands for its hash.  Files are inodes; names move.           *)
(***************************************************************************)
EXTENDS Integers, Sequences, FiniteSets, SequencesExt

CONSTANTS
  Scopes,       \* executions that are audited
  NoFile,       \* a name without a file
  Retention,    \* retired files that are kept
  MaxBytes,     \* size, in records, from which the live file is rotated
  MaxAppends,   \* bound: appends ever begun
  MaxFaults,    \* bound: system calls that fail
  MaxCrashes    \* bound: ends of the process

ASSUME AuditAssumption ==
  /\ Retention \in Nat \ {0} /\ MaxBytes \in Nat \ {0}
  /\ MaxAppends \in Nat /\ MaxFaults \in Nat /\ MaxCrashes \in Nat
  /\ NoFile \notin Nat

VARIABLES
  scope,      \* [Scopes -> what the execution has been told of its records]
  name,       \* [0 .. Retention -> inode]: audit.jsonl, audit.jsonl.1, ...
  content,    \* sequence of files, indexed by inode
  daemon,     \* "up", or "refused" when the log was not accepted, or "down"
  handle,     \* State.file
  bytes,      \* State.bytes
  sequence,   \* State.sequence
  previous,   \* State.previous
  append,     \* the append that holds the lock: its place, its scope and phase
  index,      \* the shift of the rotation under way
  appends,    \* how many appends were begun
  acks,       \* the records whose append succeeded, with the process that made them
  torn,       \* a write or its sync has failed, or a process ended during a write
  faults, crashes

counters  == <<handle, bytes, sequence, previous>>
auditVars == <<scope, name, content, daemon, counters, append, index, appends, acks, torn,
               faults, crashes>>

Free   == [at |-> "free", scope |-> NoFile, phase |-> "none"]
Live   == content[name[0]]

\* A line that is no record: the part of one, or what follows a part.
Garbled  == [number |-> 0, follows |-> 0, id |-> 0]
\* Faulty: the numbers of a file start at one.
RecordOfFile == [number |-> bytes + 1, follows |-> previous, id |-> appends]
Record   == [number |-> sequence + 1, follows |-> previous, id |-> appends]
IsRecord(line) == line # Garbled
Lines    == [number : Nat, follows : Nat, id : Nat]

AuditInit ==
  /\ scope = [s \in Scopes |-> "idle"]
  /\ name = [n \in 0 .. Retention |-> IF n = 0 THEN 1 ELSE NoFile]
  /\ content = <<<<>>>>
  /\ daemon = "up"
  /\ handle = 1 /\ bytes = 0 /\ sequence = 0 /\ previous = 0
  /\ append = Free /\ index = 0 /\ appends = 0 /\ acks = <<>>
  /\ torn = FALSE /\ faults = 0 /\ crashes = 0

------------------------------------------------------------------------------
(* Scopes.                                                                 *)

\* What an append that ends makes of its scope: a refused command has none, one whose
\* finish record failed drops it, which appends a third kind of record.
Told(s, phase, ok) ==
  CASE phase = "start"     -> IF ok THEN "running" ELSE "refused"
    [] phase = "finish"    -> IF ok THEN "finished" ELSE "unfinished"
    [] phase = "abandoned" -> "gone"

\* The live file must be rotated first.
Full == bytes >= MaxBytes

Lock(s, phase) ==
  /\ daemon = "up" /\ append.at = "free" /\ appends < MaxAppends
  /\ append' = [at |-> IF Full THEN "sync" ELSE "write", scope |-> s, phase |-> phase]
  /\ appends' = appends + 1
  /\ UNCHANGED <<scope, name, content, daemon, counters, index, acks, torn, faults, crashes>>

BeginScope(s)  == scope[s] = "idle" /\ Lock(s, "start")
FinishScope(s) == scope[s] = "running" /\ Lock(s, "finish")
DropScope(s)   == scope[s] \in {"running", "unfinished"} /\ Lock(s, "abandoned")

Unlock(ok) ==
  /\ append' = Free /\ index' = 0
  /\ scope' = [scope EXCEPT ![append.scope] = Told(append.scope, append.phase, ok)]

------------------------------------------------------------------------------
(* An append.                                                              *)

\* The append goes on.
Proceed(place) == append' = [append EXCEPT !.at = place] /\ UNCHANGED scope

\* The call fails, and the append with it; what was done before stays.
CallFails ==
  /\ daemon = "up" /\ append.at \in {"sync", "shift", "rename", "reopen"} /\ faults < MaxFaults
  /\ faults' = faults + 1
  /\ Unlock(FALSE)
  /\ UNCHANGED <<name, content, daemon, counters, appends, acks, torn, crashes>>

\* Faulty: the retired file next to the oldest is not shifted.
SyncAllButOne ==
  /\ daemon = "up" /\ append.at = "sync"
  /\ index' = IF Retention > 1 THEN Retention - 2 ELSE 0
  /\ Proceed("shift")
  /\ UNCHANGED <<name, content, daemon, counters, appends, acks, torn, faults, crashes>>

SyncAll ==
  /\ daemon = "up" /\ append.at = "sync"
  /\ index' = Retention - 1
  /\ Proceed("shift")
  /\ UNCHANGED <<name, content, daemon, counters, appends, acks, torn, faults, crashes>>

\* audit.jsonl.index becomes audit.jsonl.(index + 1), from the oldest on.
Shift ==
  /\ daemon = "up" /\ append.at = "shift"
  /\ IF index > 0
     THEN /\ name' = IF name[index] = NoFile THEN name
                     ELSE [name EXCEPT ![index + 1] = name[index], ![index] = NoFile]
          /\ index' = index - 1
          /\ UNCHANGED <<append, scope>>
     ELSE Proceed("rename") /\ UNCHANGED <<name, index>>
  /\ UNCHANGED <<content, daemon, counters, appends, acks, torn, faults, crashes>>

\* Without a live file there is nothing to rename.
Retire ==
  /\ daemon = "up" /\ append.at = "rename"
  /\ IF name[0] # NoFile
     THEN /\ name' = [name EXCEPT ![1] = name[0], ![0] = NoFile]
          /\ Proceed("reopen") /\ UNCHANGED index
     ELSE Unlock(FALSE) /\ UNCHANGED name
  /\ UNCHANGED <<content, daemon, counters, appends, acks, torn, faults, crashes>>

\* A new file under the live name.
Created == /\ content' = Append(content, <<>>)
           /\ name' = [name EXCEPT ![0] = Len(content) + 1]
           /\ handle' = Len(content) + 1

\* Faulty: the records go on going to the file that was retired.
ReopenUnused ==
  /\ daemon = "up" /\ append.at = "reopen"
  /\ content' = Append(content, <<>>) /\ name' = [name EXCEPT ![0] = Len(content) + 1]
  /\ bytes' = 0
  /\ Proceed("write")
  /\ UNCHANGED <<daemon, handle, sequence, previous, index, appends, acks, torn, faults, crashes>>

Reopen ==
  /\ daemon = "up" /\ append.at = "reopen"
  /\ Created
  /\ bytes' = 0
  /\ Proceed("write")
  /\ UNCHANGED <<daemon, sequence, previous, index, appends, acks, torn, faults, crashes>>

\* What a write adds to a file: after a part of a line, the rest of another one is no record.
Written(file, line) ==
  IF file # <<>> /\ Last(file) = Garbled THEN file ELSE Append(file, line)

WriteLine ==
  /\ daemon = "up" /\ append.at = "write"
  /\ content' = [content EXCEPT ![handle] = Written(@, Record)]
  /\ Proceed("sync_data")
  /\ UNCHANGED <<name, daemon, counters, index, appends, acks, torn, faults, crashes>>

\* Nothing, or a part of the line, is in the file.
WriteLineFails ==
  /\ daemon = "up" /\ append.at = "write" /\ faults < MaxFaults
  /\ \/ UNCHANGED content
     \/ content' = [content EXCEPT ![handle] = Written(@, Garbled)]
  /\ faults' = faults + 1 /\ torn' = TRUE
  /\ Unlock(FALSE)
  /\ UNCHANGED <<name, daemon, counters, appends, acks, crashes>>

\* The counters move when the record is safe, and not before.
SyncData ==
  /\ daemon = "up" /\ append.at = "sync_data"
  /\ bytes' = bytes + 1
  /\ sequence' = sequence + 1
  /\ previous' = appends
  /\ acks' = Append(acks, [record |-> Record, process |-> crashes])
  /\ Unlock(TRUE)
  /\ UNCHANGED <<name, content, daemon, handle, appends, torn, faults, crashes>>

SyncDataFails ==
  /\ daemon = "up" /\ append.at = "sync_data" /\ faults < MaxFaults
  /\ faults' = faults + 1 /\ torn' = TRUE
  /\ Unlock(FALSE)
  /\ UNCHANGED <<name, content, daemon, counters, appends, acks, crashes>>

------------------------------------------------------------------------------
(* The end of the process, and the next one.                               *)

\* Scopes end with it, without a record.
Crash ==
  /\ daemon = "up" /\ crashes < MaxCrashes
  /\ daemon' = "down" /\ crashes' = crashes + 1
  /\ append' = Free /\ index' = 0
  /\ scope' = [s \in Scopes |-> IF scope[s] = "idle" THEN "idle" ELSE "gone"]
  /\ \/ UNCHANGED <<content, torn>>
     \/ /\ append.at = "write"
        /\ content' = [content EXCEPT ![handle] = Written(@, Garbled)]
        /\ torn' = TRUE
  /\ UNCHANGED <<name, counters, appends, acks, faults>>

\* Every line is a record, and follows the one before.
Accepts(file) ==
  /\ \A i \in DOMAIN file : IsRecord(file[i])
  /\ \A i \in DOMAIN file : i > 1 => /\ file[i].number = file[i - 1].number + 1
                                     /\ file[i].follows = file[i - 1].id

\* Faulty: the chain starts anew with the process.
OpenAuditAnew ==
  /\ daemon = "down"
  /\ IF name[0] = NoFile
     THEN Created /\ daemon' = "up" /\ bytes' = 0
     ELSE /\ IF Accepts(Live)
             THEN daemon' = "up" /\ handle' = name[0] /\ bytes' = Len(Live)
             ELSE daemon' = "refused" /\ UNCHANGED <<handle, bytes>>
          /\ UNCHANGED <<name, content>>
  /\ sequence' = 0 /\ previous' = 0
  /\ UNCHANGED <<scope, append, index, appends, acks, torn, faults, crashes>>

\* Audit::open.
OpenAudit ==
  /\ daemon = "down"
  /\ IF name[0] = NoFile
     THEN /\ Created
          /\ daemon' = "up" /\ bytes' = 0 /\ sequence' = 0 /\ previous' = 0
     ELSE /\ IF Accepts(Live) /\ Len(Live) <= MaxBytes + 1
             THEN /\ daemon' = "up"
                  /\ handle' = name[0] /\ bytes' = Len(Live)
                  /\ sequence' = IF Live = <<>> THEN 0 ELSE Last(Live).number
                  /\ previous' = IF Live = <<>> THEN 0 ELSE Last(Live).id
             ELSE daemon' = "refused" /\ UNCHANGED counters
          /\ UNCHANGED <<name, content>>
  /\ UNCHANGED <<scope, append, index, appends, acks, torn, faults, crashes>>

AuditNext ==
  \/ \E s \in Scopes : BeginScope(s) \/ FinishScope(s) \/ DropScope(s)
  \/ CallFails \/ SyncAll \/ Shift \/ Retire \/ Reopen \/ WriteLine \/ WriteLineFails
  \/ SyncData \/ SyncDataFails \/ Crash \/ OpenAudit

AuditSpec == AuditInit /\ [][AuditNext]_auditVars

------------------------------------------------------------------------------
(* Correctness. *)

Places   == {"free", "sync", "shift", "rename", "reopen", "write", "sync_data"}
AppendOK == /\ append \in [at    : Places, scope : Scopes \cup {NoFile},
                           phase : {"none", "start", "finish", "abandoned"}]
            /\ append.at # "free" => append.scope \in Scopes /\ append.phase # "none"
FilesOK  == /\ content \in Seq(Seq(Lines))
            /\ name \in [0 .. Retention -> 1 .. Len(content) \cup {NoFile}]
            /\ handle \in 1 .. Len(content)

AuditTypeOK ==
  /\ scope \in [Scopes -> {"idle", "running", "refused", "finished", "unfinished", "gone"}]
  /\ AppendOK /\ FilesOK
  /\ daemon \in {"up", "down", "refused"}
  /\ bytes \in Nat /\ sequence \in Nat /\ previous \in Nat
  /\ index \in 0 .. Retention /\ appends \in 0 .. MaxAppends
  /\ acks \in Seq([record : Lines, process : Nat])
  /\ torn \in BOOLEAN /\ faults \in 0 .. MaxFaults /\ crashes \in 0 .. MaxCrashes

\* The broker starts again with the log it left, wherever it ended, unless a write or its
\* sync failed: no file is refused because of where a rotation was interrupted.
OwnLogIsAccepted == ~torn => daemon # "refused" /\ (name[0] # NoFile => Accepts(Live))

\* A record is acknowledged in the live file, at its end, never in one that was retired
\* while the append ran or before.
AcksAreInTheLiveFile ==
  [][Len(acks') > Len(acks) =>
       /\ name[0] # NoFile /\ Live # <<>>
       /\ Last(Live) = Last(acks').record \/ torn]_auditVars

\* The records one process acknowledges form a chain, whatever failed between two of them
\* and whichever files they are in.
AcknowledgedRecordsFormAChain ==
  \A i \in DOMAIN acks : i > 1 /\ acks[i].process = acks[i - 1].process =>
    /\ acks[i].record.number = acks[i - 1].record.number + 1
    /\ acks[i].record.follows = acks[i - 1].record.id

\* The names under which a record is on disk.
Where(r) == {n \in DOMAIN name : name[n] # NoFile /\ r \in Range(content[name[n]])}

\* While no system call fails and the process lives, a record is lost only to a full set
\* of newer files.
OnlyTheOldestIsLost ==
  faults = 0 /\ crashes = 0 =>
    \A i \in DOMAIN acks : Where(acks[i].record) = {} =>
      /\ name[Retention] # NoFile \/ append.at # "free"
      /\ Len(acks) - i >= Retention * MaxBytes

=============================================================================
