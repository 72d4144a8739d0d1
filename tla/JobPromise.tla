----------------------------- MODULE JobPromise -----------------------------
(***************************************************************************)
(* What the broker promises the owner of a job, independently of how the   *)
(* job store, the spawned task and the event publisher cooperate.          *)
(*                                                                         *)
(* A job is accepted, starts, and concludes with exactly one verdict.  It  *)
(* is forgotten only after it concluded, or because its whole session was  *)
(* revoked.  The lifecycle events the owner is told never run ahead of     *)
(* what happened and are told in order, each at most once; a job that was  *)
(* forgotten by revocation may never be told to have ended.                *)
(***************************************************************************)
CONSTANTS Jobs,      \* identifiers unique_id() may hand out
          Sessions,  \* session tickets
          None

VARIABLES phase,     \* what happened to each job
          owner,     \* the session each accepted job belongs to
          told       \* the last lifecycle event published for each job

vars == <<phase, owner, told>>

Verdicts == {"succeeded", "cancelled", "failed"}
Finished == {j \in Jobs : phase[j] \in Verdicts}

Forget(gone) == [j \in Jobs |-> IF j \in gone THEN "forgotten" ELSE phase[j]]

Init == /\ phase = [j \in Jobs |-> "none"]
        /\ owner = [j \in Jobs |-> None]
        /\ told = [j \in Jobs |-> "nothing"]

\* Accepting a job may push finished ones out of the bounded store.
Accept(j, s) == /\ phase[j] = "none"
                /\ owner' = [owner EXCEPT ![j] = s]
                /\ \E gone \in SUBSET Finished :
                     phase' = [Forget(gone) EXCEPT ![j] = "queued"]
                /\ UNCHANGED told

\* So may a request that is then refused.
Evict == /\ \E gone \in SUBSET Finished : phase' = Forget(gone)
         /\ UNCHANGED <<owner, told>>

Start(j) == /\ phase[j] = "queued"
            /\ phase' = [phase EXCEPT ![j] = "running"]
            /\ UNCHANGED <<owner, told>>

Conclude(j) == /\ phase[j] = "running"
               /\ \E v \in Verdicts : phase' = [phase EXCEPT ![j] = v]
               /\ UNCHANGED <<owner, told>>

\* Revocation forgets every job of one session and no job of another.
RevokeSession(s) == /\ phase' = Forget({j \in Jobs : owner[j] = s})
                    /\ UNCHANGED <<owner, told>>

TellQueued(j) == /\ told[j] = "nothing"
                 /\ phase[j] # "none"
                 /\ told' = [told EXCEPT ![j] = "queued"]
                 /\ UNCHANGED <<phase, owner>>

TellStarted(j) == /\ told[j] = "queued"
                  /\ phase[j] \notin {"none", "queued"}
                  /\ told' = [told EXCEPT ![j] = "started"]
                  /\ UNCHANGED <<phase, owner>>

TellVerdict(j) == /\ told[j] = "started"
                  /\ \E v \in Verdicts : /\ phase[j] \in {v, "forgotten"}
                                         /\ told' = [told EXCEPT ![j] = v]
                  /\ UNCHANGED <<phase, owner>>

Next == \/ Evict
        \/ \E j \in Jobs : \/ \E s \in Sessions : Accept(j, s)
                           \/ Start(j) \/ Conclude(j)
                           \/ TellQueued(j) \/ TellStarted(j) \/ TellVerdict(j)
        \/ \E s \in Sessions : RevokeSession(s)

Safety == Init /\ [][Next]_vars

\* Every accepted job stops being active: it concludes or is forgotten.
Settles == [](\A j \in Jobs : phase[j] \in {"queued", "running"}
                                => <>(phase[j] \in Verdicts \cup {"forgotten"}))

Spec == Safety /\ Settles
=============================================================================
