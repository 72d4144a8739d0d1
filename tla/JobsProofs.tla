----------------------------- MODULE JobsProofs -----------------------------
(***************************************************************************)
(* Proofs about the job store for any number of jobs, sessions and any     *)
(* limits: the type invariant, the retention bounds, the agreement of what *)
(* is announced with what is stored, and that every step keeps the promise *)
(* of JobPromise.                                                          *)
(***************************************************************************)
EXTENDS Jobs, FiniteSetTheorems, TLAPS

Unstarted == {"new", "checked", "refused"}

\* Where the task of a job is determines what its entry may hold and what its
\* owner has been told.  An entry may be missing at any time: revocation.
TaskInv(j) ==
  /\ task[j] \in Unstarted =>
       /\ state[j] = "absent"
       /\ told[j] = "nothing"
       /\ notices[j] = 0
       /\ j \notin pending
       /\ ~requested[j]
       /\ ~token[j]
  /\ task[j] # "new" => owner[j] \in Sessions
  /\ task[j] = "reserved" => state[j] \in {"absent", "queued"} /\ told[j] = "nothing"
  /\ task[j] = "spawned" => state[j] \in {"absent", "queued"} /\ told[j] = "queued"
  /\ task[j] = "marked" => state[j] \in {"absent", "running"} /\ told[j] = "queued"
  /\ task[j] \in {"ready", "executing", "returned"} =>
       \/ state[j] = "absent" /\ told[j] \in {"queued", "started"}
       \/ state[j] = "running" /\ told[j] = "started"
  /\ task[j] = "returned" => verdict[j] \in Verdicts
  /\ task[j] = "closing" => /\ verdict[j] \in Verdicts
                            /\ state[j] \in {"absent", verdict[j]}
                            /\ told[j] = "started"
  /\ task[j] = "done" => \/ state[j] = "absent"
                         \/ state[j] \in Verdicts /\ told[j] = state[j]

\* What is known of cancellations, per job.
CancelInv(j) ==
  /\ requested[j] => token[j]
  /\ state[j] = "absent" => ~requested[j]
  /\ state[j] # "absent" /\ ~requested[j] => notices[j] = 0 /\ j \notin pending
  /\ notices[j] \in {0, 1}
  /\ j \in pending => notices[j] = 0

\* The inductive invariant.
IInv == /\ TypeOK
        /\ \A j \in Jobs : TaskInv(j) /\ CancelInv(j)
        /\ RetentionBounds

-----------------------------------------------------------------------------
(* Sets of jobs are finite, and removing jobs from the store shrinks them. *)

\* A set of jobs is finite, and a subset of it is no larger.
LEMMA JobSets ==
  ASSUME NEW S \in SUBSET Jobs, NEW T \in SUBSET S
  PROVE  /\ IsFiniteSet(S) /\ Cardinality(S) \in Nat
         /\ IsFiniteSet(T) /\ Cardinality(T) \in Nat
         /\ Cardinality(T) <= Cardinality(S)
  BY JobsAssumption, FS_Subset, FS_CardinalityType

\* One more job makes a set of jobs larger by at most one.
LEMMA OneMore ==
  ASSUME NEW S \in SUBSET Jobs, NEW j \in Jobs, NEW T \in SUBSET (S \cup {j})
  PROVE  /\ Cardinality(T) \in Nat /\ Cardinality(S) \in Nat
         /\ Cardinality(T) <= Cardinality(S) + 1
<1>1. IsFiniteSet(S) /\ Cardinality(S) \in Nat
  BY JobSets
<1>2. Cardinality(S \cup {j}) \in {Cardinality(S), Cardinality(S) + 1}
  BY <1>1, FS_AddElement
<1>3. Cardinality(T) \in Nat /\ Cardinality(T) <= Cardinality(S \cup {j})
  BY JobSets
<1> QED
  BY <1>1, <1>2, <1>3

\* A step that inserts nothing and activates nothing keeps within the limits.
LEMMA ShrinkingKeepsBounds ==
  ASSUME RetentionBounds,
         Entries' \subseteq Entries,
         \A s \in Sessions : /\ OwnedBy(s)' \subseteq OwnedBy(s)
                             /\ (OwnedBy(s) \ Terminal)' \subseteq OwnedBy(s) \ Terminal
  PROVE  RetentionBounds'
<1>1. Entries \in SUBSET Jobs /\ \A s : OwnedBy(s) \in SUBSET Jobs
  BY DEF Entries, OwnedBy
<1>2. Cardinality(Entries') <= MaxJobs
  <2>1. Cardinality(Entries') <= Cardinality(Entries)
    BY <1>1, JobSets
  <2>2. Cardinality(Entries') \in Nat /\ Cardinality(Entries) \in Nat
    BY <1>1, JobSets
  <2> QED
    BY <2>1, <2>2, LimitsAssumption DEF RetentionBounds
<1>3. ASSUME NEW s \in Sessions
      PROVE  /\ Cardinality(OwnedBy(s)') <= MaxSessionJobs
             /\ Cardinality((OwnedBy(s) \ Terminal)') <= MaxActivePerSession
  <2> DEFINE Mine == OwnedBy(s)
             Active == OwnedBy(s) \ Terminal
  <2>1. Mine \in SUBSET Jobs /\ Active \in SUBSET Jobs
    BY <1>1
  <2>2. Cardinality(Mine') <= Cardinality(Mine) /\ Cardinality(Mine') \in Nat
        /\ Cardinality(Mine) \in Nat
    BY <2>1, JobSets
  <2>3. Cardinality(Active') <= Cardinality(Active) /\ Cardinality(Active') \in Nat
        /\ Cardinality(Active) \in Nat
    BY <2>1, JobSets
  <2> QED
    BY <2>2, <2>3, LimitsAssumption DEF RetentionBounds
<1> QED
  BY <1>2, <1>3 DEF RetentionBounds

-----------------------------------------------------------------------------
(* Type correctness. *)

\* Eviction takes finished jobs of the store.
LEMMA EvictedType == \A s : /\ Evicted(s) \subseteq Entries \cap Terminal
                            /\ Evicted(s) \in SUBSET Jobs
  BY DEF Evicted, EvictedForSession, EvictedForBroker, Oldest, OwnedBy, Entries

\* Removing jobs keeps every part of the store in its type.
LEMMA RemovalType ==
  ASSUME TypeOK, NEW gone \in SUBSET Jobs
  PROVE  /\ StatesWithout(gone) \in [Jobs -> States]
         /\ RequestsWithout(gone) \in [Jobs -> BOOLEAN]
         /\ PlacesWithout(gone) \in [Jobs -> Int]
<1>1. StatesWithout(gone) \in [Jobs -> States]
  BY DEF StatesWithout, TypeOK, States
<1>2. RequestsWithout(gone) \in [Jobs -> BOOLEAN]
  BY DEF RequestsWithout, TypeOK
<1>3. ASSUME NEW j \in Jobs
      PROVE  Cardinality({i \in gone : place[i] < place[j]}) \in Nat
  <2>1. {i \in gone : place[i] < place[j]} \in SUBSET Jobs
    OBVIOUS
  <2> QED
    BY <2>1, JobSets
<1>4. PlacesWithout(gone) \in [Jobs -> Int]
  BY <1>3 DEF PlacesWithout, TypeOK
<1> QED
  BY <1>1, <1>2, <1>4

\* Every step preserves the types.
LEMMA TypeStep == IInv /\ [Next]_vars => TypeOK'
<1> SUFFICES ASSUME TypeOK, \A j \in Jobs : TaskInv(j), [Next]_vars
             PROVE  TypeOK'
  BY DEF IInv
<1> USE DEF entry, events, broker
<1>1. ASSUME NEW s \in Sessions, NEW j \in Jobs, ClientStart(s, j)
      PROVE  TypeOK'
  BY <1>1 DEF ClientStart, Check, TypeOK, Tasks
<1>2. ASSUME NEW p \in Jobs, NEW j \in Jobs, StepStart(p, j)
      PROVE  TypeOK'
  BY <1>2 DEF StepStart, Check, TypeOK, Tasks
<1>3. ASSUME NEW j \in Jobs, Reserve(j)
      PROVE  TypeOK'
  <2> DEFINE gone == Evicted(owner[j])
  <2>1. gone \in SUBSET Jobs
    BY EvictedType
  <2>2. Cardinality(Entries \ gone) \in Nat
    BY JobSets DEF Entries
  <2>3. /\ state' \in [Jobs -> States]
        /\ place' \in [Jobs -> Int]
        /\ requested' \in [Jobs -> BOOLEAN]
    BY <1>3, <2>1, <2>2, RemovalType DEF Reserve, States
  <2> QED
    BY <1>3, <2>3 DEF Reserve, TypeOK, Tasks
<1>4. ASSUME NEW j \in Jobs, Refuse(j)
      PROVE  TypeOK'
  <2>1. /\ state' \in [Jobs -> States]
        /\ place' \in [Jobs -> Int]
        /\ requested' \in [Jobs -> BOOLEAN]
    BY <1>4, EvictedType, RemovalType DEF Refuse
  <2> QED
    BY <1>4, <2>1 DEF Refuse, TypeOK, Tasks
<1>5. ASSUME NEW j \in Jobs, AnnounceQueued(j)
      PROVE  TypeOK'
  BY <1>5 DEF AnnounceQueued, Tell, TypeOK, Tasks, Stories
<1>6. ASSUME NEW j \in Jobs, MarkRunning(j)
      PROVE  TypeOK'
  BY <1>6 DEF MarkRunning, AfterMarking, TypeOK, Tasks, States
<1>7. ASSUME NEW j \in Jobs, AnnounceStarted(j)
      PROVE  TypeOK'
  BY <1>7 DEF AnnounceStarted, Tell, TypeOK, Tasks, Stories
<1>8. ASSUME NEW j \in Jobs, Authorize(j)
      PROVE  TypeOK'
  BY <1>8 DEF Authorize, TypeOK, Tasks
<1>9. ASSUME NEW j \in Jobs, TurnAway(j)
      PROVE  TypeOK'
  BY <1>9 DEF TurnAway, TypeOK, Tasks, Verdicts
<1>10. ASSUME NEW j \in Jobs, Return(j)
       PROVE  TypeOK'
  BY <1>10 DEF Return, TypeOK, Tasks
<1>11. ASSUME NEW j \in Jobs, Finish(j)
       PROVE  TypeOK'
  <2>1. verdict[j] \in Verdicts
    BY <1>11 DEF Finish, TaskInv
  <2> QED
    BY <1>11, <2>1 DEF Finish, Concluded, TypeOK, Tasks, States
<1>12. ASSUME NEW j \in Jobs, AnnounceVerdict(j)
       PROVE  TypeOK'
  <2>1. verdict[j] \in Verdicts
    BY <1>12 DEF AnnounceVerdict, TaskInv
  <2> QED
    BY <1>12, <2>1 DEF AnnounceVerdict, SnapshotState, Tell, TypeOK, Tasks, Stories
<1>13. ASSUME NEW s \in Sessions, NEW j \in Jobs, Cancel(s, j)
       PROVE  TypeOK'
  BY <1>13 DEF Cancel, LeftToTheTask, TokenCancelled, FirstNotice, TypeOK
<1>14. ASSUME NEW j \in Jobs, AnnounceCancel(j)
       PROVE  TypeOK'
  BY <1>14 DEF AnnounceCancel, TypeOK
<1>15. ASSUME NEW s \in Sessions, Revoke(s)
       PROVE  TypeOK'
  <2>1. JobsOf(s) \in SUBSET Jobs
    BY DEF JobsOf, OwnedBy, Entries
  <2>2. /\ state' \in [Jobs -> States]
        /\ place' \in [Jobs -> Int]
        /\ requested' \in [Jobs -> BOOLEAN]
    BY <1>15, <2>1, RemovalType DEF Revoke
  <2>3. token' \in [Jobs -> BOOLEAN]
    BY <1>15 DEF Revoke, TokensOf, TypeOK
  <2> QED
    BY <1>15, <2>2, <2>3 DEF Revoke, TypeOK
<1>16. CASE Stop
  <2>1. token' \in [Jobs -> BOOLEAN]
    BY <1>16 DEF Stop, TypeOK
  <2> QED
    BY <1>16, <2>1 DEF Stop, TypeOK
<1>17. CASE UNCHANGED vars
  BY <1>17 DEF vars, TypeOK
<1> QED
  BY <1>1, <1>2, <1>3, <1>4, <1>5, <1>6, <1>7, <1>8, <1>9, <1>10, <1>11, <1>12,
     <1>13, <1>14, <1>15, <1>16, <1>17 DEF Next, TaskStep

-----------------------------------------------------------------------------
(* The per-job invariants. *)

\* A removal leaves every other job's entry alone.
LEMMA Removal ==
  ASSUME NEW gone \in SUBSET Jobs
  PROVE  \A j \in Jobs :
           /\ StatesWithout(gone)[j] = IF j \in gone THEN "absent" ELSE state[j]
           /\ RequestsWithout(gone)[j] = (requested[j] /\ j \notin gone)
  BY DEF StatesWithout, RequestsWithout

\* Every step preserves what holds of each job.
LEMMA PerJobStep ==
  IInv /\ [Next]_vars => \A i \in Jobs : TaskInv(i)' /\ CancelInv(i)'
<1> SUFFICES ASSUME TypeOK, \A i \in Jobs : TaskInv(i) /\ CancelInv(i), [Next]_vars,
                    NEW i \in Jobs
             PROVE  TaskInv(i)' /\ CancelInv(i)'
  BY DEF IInv
<1> USE DEF entry, events, broker
<1>a. TaskInv(i) /\ CancelInv(i)
  OBVIOUS
<1>1. ASSUME NEW s \in Sessions, NEW j \in Jobs, ClientStart(s, j)
      PROVE  TaskInv(i)' /\ CancelInv(i)'
  BY <1>1, <1>a DEF ClientStart, Check, TypeOK, TaskInv, CancelInv, Unstarted
<1>2. ASSUME NEW p \in Jobs, NEW j \in Jobs, StepStart(p, j)
      PROVE  TaskInv(i)' /\ CancelInv(i)'
  <2>1. owner[p] \in Sessions
    BY <1>2 DEF StepStart, TaskInv
  <2> QED
    BY <1>2, <1>a, <2>1 DEF StepStart, Check, TypeOK, TaskInv, CancelInv, Unstarted
<1>3. ASSUME NEW j \in Jobs, Reserve(j)
      PROVE  TaskInv(i)' /\ CancelInv(i)'
  <2> DEFINE gone == Evicted(owner[j])
  <2>1. gone \in SUBSET Jobs
    BY EvictedType
  <2>2. /\ state'[i] = IF i = j THEN "queued"
                       ELSE IF i \in gone THEN "absent" ELSE state[i]
        /\ requested'[i] = (requested[i] /\ i \notin gone)
    BY <1>3, <2>1, Removal DEF Reserve, StatesWithout
  <2>3. TaskInv(j)
    OBVIOUS
  <2> QED
    BY <1>3, <1>a, <2>2, <2>3 DEF Reserve, TypeOK, TaskInv, CancelInv, Unstarted
<1>4. ASSUME NEW j \in Jobs, Refuse(j)
      PROVE  TaskInv(i)' /\ CancelInv(i)'
  <2> DEFINE gone == Evicted(owner[j])
  <2>1. gone \in SUBSET Jobs
    BY EvictedType
  <2>2. /\ state'[i] = IF i \in gone THEN "absent" ELSE state[i]
        /\ requested'[i] = (requested[i] /\ i \notin gone)
    BY <1>4, <2>1, Removal DEF Refuse
  <2> QED
    BY <1>4, <1>a, <2>2 DEF Refuse, TypeOK, TaskInv, CancelInv, Unstarted
<1>5. ASSUME NEW j \in Jobs, AnnounceQueued(j)
      PROVE  TaskInv(i)' /\ CancelInv(i)'
  BY <1>5, <1>a DEF AnnounceQueued, Tell, TypeOK, TaskInv, CancelInv, Unstarted
<1>6. ASSUME NEW j \in Jobs, MarkRunning(j)
      PROVE  TaskInv(i)' /\ CancelInv(i)'
  BY <1>6, <1>a DEF MarkRunning, AfterMarking, Entries, TypeOK, TaskInv, CancelInv,
                    Unstarted
<1>7. ASSUME NEW j \in Jobs, AnnounceStarted(j)
      PROVE  TaskInv(i)' /\ CancelInv(i)'
  BY <1>7, <1>a DEF AnnounceStarted, Tell, TypeOK, TaskInv, CancelInv, Unstarted
<1>8. ASSUME NEW j \in Jobs, Authorize(j)
      PROVE  TaskInv(i)' /\ CancelInv(i)'
  BY <1>8, <1>a DEF Authorize, TypeOK, TaskInv, CancelInv, Unstarted
<1>9. ASSUME NEW j \in Jobs, TurnAway(j)
      PROVE  TaskInv(i)' /\ CancelInv(i)'
  BY <1>9, <1>a DEF TurnAway, TypeOK, TaskInv, CancelInv, Unstarted, Verdicts
<1>10. ASSUME NEW j \in Jobs, Return(j)
       PROVE  TaskInv(i)' /\ CancelInv(i)'
  BY <1>10, <1>a DEF Return, TypeOK, TaskInv, CancelInv, Unstarted
<1>11. ASSUME NEW j \in Jobs, Finish(j)
       PROVE  TaskInv(i)' /\ CancelInv(i)'
  BY <1>11, <1>a DEF Finish, Concluded, Entries, TypeOK, TaskInv, CancelInv,
                     Unstarted, Verdicts
<1>12. ASSUME NEW j \in Jobs, AnnounceVerdict(j)
       PROVE  TaskInv(i)' /\ CancelInv(i)'
  BY <1>12, <1>a DEF AnnounceVerdict, SnapshotState, Tell, TypeOK, TaskInv, CancelInv,
                     Unstarted, Verdicts
<1>13. ASSUME NEW s \in Sessions, NEW j \in Jobs, Cancel(s, j)
       PROVE  TaskInv(i)' /\ CancelInv(i)'
  BY <1>13, <1>a DEF Cancel, LeftToTheTask, TokenCancelled, FirstNotice, OwnedBy,
                     Entries, TypeOK, TaskInv, CancelInv, Unstarted
<1>14. ASSUME NEW j \in Jobs, AnnounceCancel(j)
       PROVE  TaskInv(i)' /\ CancelInv(i)'
  BY <1>14, <1>a DEF AnnounceCancel, TypeOK, TaskInv, CancelInv, Unstarted
<1>15. ASSUME NEW s \in Sessions, Revoke(s)
       PROVE  TaskInv(i)' /\ CancelInv(i)'
  <2>1. JobsOf(s) \in SUBSET Jobs
    BY DEF JobsOf, OwnedBy, Entries
  <2>2. /\ state'[i] = IF i \in JobsOf(s) THEN "absent" ELSE state[i]
        /\ requested'[i] = (requested[i] /\ i \notin JobsOf(s))
    BY <1>15, <2>1, Removal DEF Revoke
  <2>3. token'[i] = (token[i] \/ i \in OwnedBy(s))
    BY <1>15 DEF Revoke, TokensOf
  <2> QED
    BY <1>15, <1>a, <2>2, <2>3 DEF Revoke, OwnedBy, Entries, TypeOK, TaskInv,
                                   CancelInv, Unstarted
<1>16. CASE Stop
  <2>1. token'[i] = (token[i] \/ task[i] \notin Unstarted)
    BY <1>16 DEF Stop, Unstarted
  <2> QED
    BY <1>16, <1>a, <2>1 DEF Stop, TypeOK, TaskInv, CancelInv, Unstarted
<1>17. CASE UNCHANGED vars
  BY <1>17, <1>a DEF vars, TaskInv, CancelInv
<1> QED
  BY <1>1, <1>2, <1>3, <1>4, <1>5, <1>6, <1>7, <1>8, <1>9, <1>10, <1>11, <1>12,
     <1>13, <1>14, <1>15, <1>16, <1>17 DEF Next, TaskStep

-----------------------------------------------------------------------------
(* The retention limits. *)

\* Every step preserves the limits: reserve checks them under the lock that it
\* inserts under, and every other step shrinks the store.
LEMMA BoundsStep == IInv /\ [Next]_vars => RetentionBounds'
<1> SUFFICES ASSUME TypeOK, \A i \in Jobs : TaskInv(i) /\ CancelInv(i),
                    RetentionBounds, [Next]_vars
             PROVE  RetentionBounds'
  BY DEF IInv
<1> USE DEF entry, events, broker
<1> DEFINE Shrinks == /\ Entries' \subseteq Entries
                      /\ \A s \in Sessions :
                           /\ OwnedBy(s)' \subseteq OwnedBy(s)
                           /\ (OwnedBy(s) \ Terminal)' \subseteq OwnedBy(s) \ Terminal
<1>a. ASSUME \A i \in Jobs : \/ state'[i] = "absent"
                             \/ /\ state[i] # "absent" /\ owner'[i] = owner[i]
                                /\ state[i] \in Verdicts => state'[i] \in Verdicts
      PROVE  Shrinks
  BY <1>a DEF Entries, OwnedBy, Terminal
<1>1. ASSUME NEW s, NEW p, NEW j \in Jobs, Check(s, p, j)
      PROVE  Shrinks
  <2>1. state[j] = "absent" /\ state' = state
    BY <1>1 DEF Check, TaskInv, Unstarted
  <2>2. \A i \in Jobs : i # j => owner'[i] = owner[i]
    BY <1>1 DEF Check, TypeOK
  <2> QED
    BY <2>1, <2>2, <1>a
<1>2. ASSUME NEW j \in Jobs, Reserve(j)
      PROVE  RetentionBounds'
  <2> DEFINE o == owner[j]
             gone == Evicted(o)
             left == Entries \ gone
  <2>1. /\ state' = [StatesWithout(gone) EXCEPT ![j] = "queued"]
        /\ owner' = owner
        /\ Admits(o)
    BY <1>2 DEF Reserve
  <2>2. gone \in SUBSET Jobs /\ EvictedForSession(o) \subseteq gone
    BY EvictedType, <2>1 DEF Evicted, Admits
  <2>3. \A i \in Jobs : state'[i] = IF i = j THEN "queued"
                                    ELSE IF i \in gone THEN "absent" ELSE state[i]
    BY <2>1, <2>2, Removal DEF StatesWithout
  <2>4. Entries' \in SUBSET (left \cup {j}) /\ left \in SUBSET Jobs
    BY <2>3 DEF Entries
  <2>5. Cardinality(Entries') <= MaxJobs
    <3>1. Cardinality(left) < MaxJobs
      BY <2>1 DEF Admits
    <3>2. /\ Cardinality(Entries') \in Nat /\ Cardinality(left) \in Nat
          /\ Cardinality(Entries') <= Cardinality(left) + 1
      BY <2>4, OneMore
    <3> QED
      BY <3>1, <3>2, LimitsAssumption
  <2>6. ASSUME NEW s \in Sessions
        PROVE  /\ Cardinality(OwnedBy(s)') <= MaxSessionJobs
               /\ Cardinality((OwnedBy(s) \ Terminal)') <= MaxActivePerSession
    <3> DEFINE Mine == OwnedBy(s)
               Active == OwnedBy(s) \ Terminal
    <3>1. Mine \in SUBSET Jobs /\ Active \in SUBSET Jobs
      BY DEF OwnedBy, Entries
    <3>2. CASE s = o
      <4> DEFINE rest == OwnedBy(o) \ EvictedForSession(o)
                 busy == OwnedBy(o) \ Terminal
      <4>1. Cardinality(rest) < MaxSessionJobs /\ Cardinality(busy) < MaxActivePerSession
        BY <2>1 DEF Admits, SessionHasRoom, MayRunOneMore
      <4>2. rest \in SUBSET Jobs /\ busy \in SUBSET Jobs
        BY DEF OwnedBy, Entries
      <4>3. Mine' \in SUBSET (rest \cup {j})
        BY <2>1, <2>2, <2>3, <3>2 DEF OwnedBy, Entries
      <4>4. Active' \in SUBSET (busy \cup {j})
        BY <2>1, <2>3, <3>2 DEF OwnedBy, Entries, Terminal, Verdicts
      <4>5. /\ Cardinality(Mine') \in Nat /\ Cardinality(rest) \in Nat
            /\ Cardinality(Mine') <= Cardinality(rest) + 1
        BY <4>2, <4>3, OneMore
      <4>6. /\ Cardinality(Active') \in Nat /\ Cardinality(busy) \in Nat
            /\ Cardinality(Active') <= Cardinality(busy) + 1
        BY <4>2, <4>4, OneMore
      <4> QED
        BY <4>1, <4>5, <4>6, LimitsAssumption
    <3>3. CASE s # o
      <4>1. Mine' \in SUBSET Mine /\ Active' \in SUBSET Active
        BY <2>1, <2>3, <3>3 DEF OwnedBy, Entries, Terminal
      <4>2. /\ Cardinality(Mine') \in Nat /\ Cardinality(Mine) \in Nat
            /\ Cardinality(Mine') <= Cardinality(Mine)
        BY <3>1, <4>1, JobSets
      <4>3. /\ Cardinality(Active') \in Nat /\ Cardinality(Active) \in Nat
            /\ Cardinality(Active') <= Cardinality(Active)
        BY <3>1, <4>1, JobSets
      <4> QED
        BY <4>2, <4>3, LimitsAssumption DEF RetentionBounds
    <3> QED
      BY <3>2, <3>3
  <2> QED
    BY <2>5, <2>6 DEF RetentionBounds
<1>3. ASSUME NEW gone \in SUBSET Jobs, state' = StatesWithout(gone), owner' = owner
      PROVE  Shrinks
  BY <1>3, Removal, <1>a
<1>4. ASSUME NEW j \in Jobs, MarkRunning(j)
      PROVE  Shrinks
  <2>1. state[j] \in {"absent", "queued"}
    BY <1>4 DEF MarkRunning, TaskInv
  <2>2. /\ owner' = owner
        /\ \A i \in Jobs : i # j => state'[i] = state[i]
        /\ state'[j] = IF state[j] = "queued" THEN "running" ELSE state[j]
    BY <1>4 DEF MarkRunning, TypeOK
  <2> QED
    BY <2>1, <2>2, <1>a DEF Verdicts
<1>5. ASSUME NEW j \in Jobs, Finish(j)
      PROVE  Shrinks
  <2>1. verdict[j] \in Verdicts
    BY <1>5 DEF Finish, TaskInv
  <2>2. /\ owner' = owner
        /\ \A i \in Jobs : i # j => state'[i] = state[i]
        /\ state[j] = "absent" => state'[j] = "absent"
        /\ state[j] # "absent" => state'[j] \in Verdicts
    BY <1>5, <2>1 DEF Finish, Concluded, Entries, TypeOK
  <2> QED
    BY <2>2, <1>a
<1>6. ASSUME state' = state, owner' = owner
      PROVE  Shrinks
  BY <1>6, <1>a
<1>7. ASSUME Shrinks
      PROVE  RetentionBounds'
  BY <1>7, ShrinkingKeepsBounds
<1>8. ASSUME NEW j \in Jobs, TaskStep(j)
      PROVE  RetentionBounds'
  <2>1. CASE Refuse(j)
    BY <2>1, EvictedType, <1>3, <1>7 DEF Refuse
  <2>2. CASE \/ AnnounceQueued(j) \/ AnnounceStarted(j) \/ Authorize(j) \/ TurnAway(j)
             \/ Return(j) \/ AnnounceVerdict(j)
    BY <2>2, <1>6, <1>7
       DEF AnnounceQueued, AnnounceStarted, Authorize, TurnAway, Return, AnnounceVerdict
  <2> QED
    BY <1>8, <2>1, <2>2, <1>2, <1>4, <1>5, <1>7 DEF TaskStep
<1>9. ASSUME NEW s \in Sessions, NEW j \in Jobs, ClientStart(s, j) \/ Cancel(s, j)
      PROVE  RetentionBounds'
  BY <1>9, <1>1, <1>6, <1>7 DEF ClientStart, Cancel, LeftToTheTask
<1>10. ASSUME NEW p \in Jobs, NEW j \in Jobs, StepStart(p, j)
       PROVE  RetentionBounds'
  BY <1>10, <1>1, <1>7 DEF StepStart
<1>11. ASSUME NEW j \in Jobs, AnnounceCancel(j)
       PROVE  RetentionBounds'
  BY <1>11, <1>6, <1>7 DEF AnnounceCancel
<1>12. ASSUME NEW s \in Sessions, Revoke(s)
       PROVE  RetentionBounds'
  <2>1. JobsOf(s) \in SUBSET Jobs
    BY DEF JobsOf, OwnedBy, Entries
  <2> QED
    BY <1>12, <2>1, <1>3, <1>7 DEF Revoke
<1>13. CASE Stop
  BY <1>13, <1>6, <1>7 DEF Stop
<1>14. CASE UNCHANGED vars
  BY <1>14, <1>6, <1>7 DEF vars
<1> QED
  BY <1>8, <1>9, <1>10, <1>11, <1>12, <1>13, <1>14 DEF Next

-----------------------------------------------------------------------------
(* The invariants, as theorems of the specification. *)

\* The invariant holds initially.
LEMMA InitInv == Init => IInv
<1> SUFFICES ASSUME Init
             PROVE  IInv
  OBVIOUS
<1>1. TypeOK
  <2>1. /\ state \in [Jobs -> States] /\ place \in [Jobs -> Int]
        /\ task \in [Jobs -> Tasks] /\ told \in [Jobs -> Stories]
    BY DEF Init, States, Tasks, Stories
  <2>2. /\ owner \in [Jobs -> Sessions \cup {None}]
        /\ parent \in [Jobs -> Jobs \cup {None}]
        /\ verdict \in [Jobs -> Verdicts \cup {None}]
    BY DEF Init
  <2>3. /\ requested \in [Jobs -> BOOLEAN] /\ token \in [Jobs -> BOOLEAN]
        /\ notices \in [Jobs -> Nat] /\ pending \in SUBSET Jobs
        /\ revoked \in SUBSET Sessions /\ stopping \in BOOLEAN
    BY DEF Init
  <2> QED
    BY <2>1, <2>2, <2>3 DEF TypeOK
<1>2. \A j \in Jobs : TaskInv(j) /\ CancelInv(j)
  BY DEF Init, TaskInv, CancelInv, Unstarted
<1>3. Entries = {} /\ \A s : OwnedBy(s) = {} /\ OwnedBy(s) \ Terminal = {}
  BY DEF Init, Entries, OwnedBy
<1>4. RetentionBounds
  BY <1>3, FS_EmptySet, LimitsAssumption DEF RetentionBounds
<1> QED
  BY <1>1, <1>2, <1>4 DEF IInv

\* The invariant is inductive.
THEOREM Invariance == Safety => []IInv
<1>1. IInv /\ [Next]_vars => IInv'
  BY TypeStep, PerJobStep, BoundsStep DEF IInv
<1> QED
  BY InitInv, <1>1, PTL DEF Safety

\* Every reachable state is well typed.
THEOREM TypeCorrectness == Safety => []TypeOK
<1>1. IInv => TypeOK
  BY DEF IInv
<1> QED
  BY Invariance, <1>1, PTL

\* The broker-wide, per-session and active limits of the store are never
\* exceeded (jobs.rs reserve).
THEOREM StoreStaysWithinBounds == Safety => []RetentionBounds
<1>1. IInv => RetentionBounds
  BY DEF IInv
<1> QED
  BY Invariance, <1>1, PTL

\* An acknowledged cancellation is visible to the execution (jobs.rs cancel).
THEOREM CancelReachesTheTask == Safety => []AcknowledgedCancelReachesTheTask
<1>1. IInv => AcknowledgedCancelReachesTheTask
  BY DEF IInv, CancelInv, AcknowledgedCancelReachesTheTask
<1> QED
  BY Invariance, <1>1, PTL

\* An announced verdict is the one jobs.get returns (jobs.rs start_job).
THEOREM AnnouncementsAgreeWithTheStore == Safety => []AnnouncedVerdictIsTheStoredOne
<1>1. ASSUME IInv, NEW j \in Entries, told[j] \in Verdicts
      PROVE  state[j] = told[j]
  <2>1. j \in Jobs /\ state[j] # "absent" /\ TaskInv(j)
    BY <1>1 DEF IInv, Entries
  <2>2. task[j] = "done"
    BY <1>1, <2>1 DEF TaskInv, Unstarted, Verdicts, IInv, TypeOK, Tasks
  <2> QED
    BY <2>1, <2>2 DEF TaskInv
<1>2. IInv => AnnouncedVerdictIsTheStoredOne
  BY <1>1 DEF AnnouncedVerdictIsTheStoredOne
<1> QED
  BY Invariance, <1>2, PTL

\* Cancelling a job twice announces it once (jobs.rs cancel_job).
THEOREM OneCancellationNotice == Safety => []CancellationAnnouncedOnce
<1>1. IInv => CancellationAnnouncedOnce
  BY DEF IInv, CancelInv, CancellationAnnouncedOnce
<1> QED
  BY Invariance, <1>1, PTL

\* Answers and events agree with what was done to the job (jobs.rs start_job,
\* cancel_job): the three facts above, together.
THEOREM OwnersAreToldTheTruth == Safety => []OwnerIsToldTheTruth
BY CancelReachesTheTask, AnnouncementsAgreeWithTheStore, OneCancellationNotice, PTL
DEF OwnerIsToldTheTruth

-----------------------------------------------------------------------------
(* The queue.  Every entry's position is one more than the number of entries before it;   *)
(* a removal counts the removed ones out, an insertion goes to the end.                    *)

Before(p, E, j) == {i \in E : p[i] < p[j]}

Ranked(p, E) ==
  /\ \A j \in E : p[j] = 1 + Cardinality(Before(p, E, j))
  /\ \A i, j \in E : p[i] = p[j] => i = j

\* A position is one of as many as there are entries.
LEMMA RankedBound ==
  ASSUME NEW E \in SUBSET Jobs, NEW p, Ranked(p, E), NEW j \in E
  PROVE  p[j] \in 1 .. Cardinality(E) /\ p[j] \in Nat /\ Cardinality(E) \in Nat
<1>1. /\ Before(p, E, j) \in SUBSET E /\ IsFiniteSet(E) /\ Cardinality(E) \in Nat
      /\ Cardinality(Before(p, E, j)) \in Nat
      /\ Cardinality(Before(p, E, j)) <= Cardinality(E)
  <2>1. Before(p, E, j) \in SUBSET E
    BY DEF Before
  <2> QED
    BY <2>1, JobSets
<1>2. p[j] \in Nat
  BY <1>1 DEF Ranked
<1>3. j \notin Before(p, E, j)
  BY <1>2 DEF Before
<1>4. Cardinality(Before(p, E, j)) # Cardinality(E)
  BY <1>1, <1>3, FS_Subset
<1> QED
  BY <1>1, <1>2, <1>4 DEF Ranked

\* The positions are all of those.
LEMMA RankedFilled ==
  ASSUME NEW E \in SUBSET Jobs, NEW p, Ranked(p, E)
  PROVE  {p[j] : j \in E} = 1 .. Cardinality(E)
<1> DEFINE n == Cardinality(E)
           f == [j \in E |-> p[j]]
<1>1. n \in Nat /\ IsFiniteSet(E)
  BY JobSets
<1>2. \A j \in E : p[j] \in 1 .. n
  BY RankedBound
<1>3. f \in Injection(E, 1 .. n)
  <2>1. f \in [E -> 1 .. n]
    BY <1>2
  <2>2. \A a, b \in E : f[a] = f[b] => a = b
    BY DEF Ranked
  <2> HIDE DEF f, n
  <2> QED
    BY <2>1, <2>2 DEF Injection, IsInjective
<1>4. IsFiniteSet(1 .. n) /\ Cardinality(1 .. n) = n
  BY <1>1, FS_Interval
<1>5. f \in Surjection(E, 1 .. n)
  BY <1>3, <1>4, FS_Injection
<1>6. \A k \in 1 .. n : \E j \in E : p[j] = k
  BY <1>5 DEF Surjection
<1> QED
  BY <1>2, <1>6

\* retain: what is kept stays in its order, without gaps.
LEMMA RankedRemoval ==
  ASSUME NEW E \in SUBSET Jobs, NEW p, Ranked(p, E), NEW gone \in SUBSET E, NEW q,
         \A j \in E \ gone : q[j] = p[j] - Cardinality({i \in gone : p[i] < p[j]})
  PROVE  Ranked(q, E \ gone)
<1> DEFINE Kept(j) == {i \in E \ gone : p[i] < p[j]}
           Gone(j) == {i \in gone : p[i] < p[j]}
<1>1. ASSUME NEW j \in E
      PROVE  p[j] \in Nat
  BY RankedBound
<1>2. ASSUME NEW j \in E \ gone
      PROVE  q[j] = 1 + Cardinality(Kept(j)) /\ Cardinality(Kept(j)) \in Nat /\ q[j] \in Nat
  <2>1. /\ IsFiniteSet(Before(p, E, j)) /\ Cardinality(Before(p, E, j)) \in Nat
        /\ IsFiniteSet(Gone(j)) /\ Cardinality(Gone(j)) \in Nat
        /\ Cardinality(Kept(j)) \in Nat
    <3>1. /\ Before(p, E, j) \in SUBSET E /\ Gone(j) \in SUBSET E /\ Kept(j) \in SUBSET E
      BY DEF Before
    <3> QED
      BY <3>1, JobSets
  <2>2. Kept(j) = Before(p, E, j) \ Gone(j) /\ Before(p, E, j) \cap Gone(j) = Gone(j)
    BY DEF Before
  <2>3. Cardinality(Kept(j)) = Cardinality(Before(p, E, j)) - Cardinality(Gone(j))
    <3> HIDE DEF Kept, Gone
    <3>1. Cardinality(Before(p, E, j) \ Gone(j))
            = Cardinality(Before(p, E, j)) - Cardinality(Before(p, E, j) \cap Gone(j))
      BY <2>1, FS_Difference
    <3> QED
      BY <3>1, <2>2
  <2>4. p[j] = 1 + Cardinality(Before(p, E, j)) /\ q[j] = p[j] - Cardinality(Gone(j))
    BY DEF Ranked
  <2> QED
    BY <2>1, <2>3, <2>4
<1>3. ASSUME NEW i \in E \ gone, NEW j \in E \ gone, p[i] < p[j]
      PROVE  q[i] < q[j]
  <2>1. Kept(i) \in SUBSET Kept(j) /\ i \in Kept(j) /\ i \notin Kept(i)
    BY <1>1, <1>3
  <2>2. IsFiniteSet(Kept(j)) /\ IsFiniteSet(Kept(i))
    <3>1. Kept(j) \in SUBSET Jobs /\ Kept(i) \in SUBSET Jobs
      OBVIOUS
    <3> QED
      BY <3>1, JobSets
  <2> HIDE DEF Kept
  <2>3. /\ Cardinality(Kept(i)) <= Cardinality(Kept(j))
        /\ Cardinality(Kept(j)) = Cardinality(Kept(i)) => Kept(j) = Kept(i)
    BY <2>1, <2>2, FS_Subset
  <2> QED
    BY <1>2, <2>1, <2>3
<1>4. ASSUME NEW i \in E \ gone, NEW j \in E \ gone
      PROVE  (q[i] < q[j] <=> p[i] < p[j]) /\ (q[i] = q[j] => i = j)
  <2>1. /\ p[i] \in Nat /\ p[j] \in Nat /\ q[i] \in Nat /\ q[j] \in Nat
        /\ p[i] = p[j] => i = j
    BY <1>1, <1>2 DEF Ranked
  <2>2. (p[i] < p[j] => q[i] < q[j]) /\ (p[j] < p[i] => q[j] < q[i])
    BY <1>3
  <2> QED
    BY ONLY <2>1, <2>2
<1>5. \A j \in E \ gone : Before(q, E \ gone, j) = Kept(j)
  BY <1>4 DEF Before
<1> QED
  BY <1>2, <1>4, <1>5 DEF Ranked

\* push_back.
LEMMA RankedInsertion ==
  ASSUME NEW E \in SUBSET Jobs, NEW p, Ranked(p, E), NEW j \in Jobs, j \notin E, NEW q,
         \A i \in E : q[i] = p[i], q[j] = 1 + Cardinality(E)
  PROVE  Ranked(q, E \cup {j})
<1>1. \A i \in E : q[i] \in 1 .. Cardinality(E) /\ q[i] \in Nat /\ Cardinality(E) \in Nat
  BY RankedBound
<1>2. Cardinality(E) \in Nat
  BY JobSets
<1>3. \A i \in E : Before(q, E \cup {j}, i) = Before(p, E, i)
  BY <1>1, <1>2 DEF Before
<1>4. Before(q, E \cup {j}, j) = E
  BY <1>1, <1>2 DEF Before
<1>5. \A i, k \in E \cup {j} : q[i] = q[k] => i = k
  BY <1>1, <1>2 DEF Ranked
<1>6. \A i \in E : q[i] = 1 + Cardinality(Before(q, E \cup {j}, i))
  BY <1>3 DEF Ranked
<1> QED
  BY <1>4, <1>5, <1>6 DEF Ranked

QueueInv == Ranked(place, Entries)

\* A removal of entries.
LEMMA QueueRemoval ==
  ASSUME QueueInv, NEW gone \in SUBSET Entries, state' = StatesWithout(gone),
         place' = PlacesWithout(gone)
  PROVE  QueueInv'
<1>1. Entries' = Entries \ gone
  BY Removal DEF Entries
<1>2. \A j \in Entries \ gone :
        place'[j] = place[j] - Cardinality({i \in gone : place[i] < place[j]})
  BY DEF PlacesWithout, Entries
<1>3. Entries \in SUBSET Jobs
  BY DEF Entries
<1> QED
  BY <1>1, <1>2, <1>3, RankedRemoval DEF QueueInv

LEMMA QueueReserve ==
  ASSUME IInv, QueueInv, NEW j \in Jobs, Reserve(j)
  PROVE  QueueInv'
<1> DEFINE gone == Evicted(owner[j])
           kept == Entries \ gone
           q    == PlacesWithout(gone)
<1>1. gone \in SUBSET Entries /\ gone \in SUBSET Jobs /\ Entries \in SUBSET Jobs
  BY EvictedType DEF Entries
<1>2. state[j] = "absent" /\ j \notin Entries
  BY DEF Reserve, IInv, TaskInv, Unstarted, Entries
<1>3. /\ state' = [StatesWithout(gone) EXCEPT ![j] = "queued"]
      /\ place' = [q EXCEPT ![j] = 1 + Cardinality(kept)]
  BY DEF Reserve
<1>4. Entries' = kept \cup {j}
  <2>1. \A i \in Jobs : state'[i] = IF i = j THEN "queued"
                                    ELSE IF i \in gone THEN "absent" ELSE state[i]
    BY <1>1, <1>3, Removal DEF StatesWithout
  <2> QED
    BY <2>1, <1>1, <1>2 DEF Entries
<1>5. \A i \in kept : q[i] = place[i] - Cardinality({k \in gone : place[k] < place[i]})
  BY <1>1 DEF PlacesWithout
<1>6. Ranked(q, kept)
  BY <1>1, <1>5, RankedRemoval DEF QueueInv
<1>7. place'[j] = 1 + Cardinality(kept) /\ \A i \in kept : place'[i] = q[i]
  BY <1>1, <1>2, <1>3 DEF PlacesWithout
<1> HIDE DEF gone, q
<1>8. Ranked(place', kept \cup {j})
  BY <1>1, <1>2, <1>6, <1>7, RankedInsertion
<1> QED
  BY <1>4, <1>8 DEF QueueInv

LEMMA QueueStep == IInv /\ QueueInv /\ [Next]_vars => QueueInv'
<1> SUFFICES ASSUME IInv, QueueInv, [Next]_vars
             PROVE  QueueInv'
  OBVIOUS
<1> USE DEF entry, events, broker
<1>1. ASSUME NEW j \in Jobs, Reserve(j)
      PROVE  QueueInv'
  BY <1>1, QueueReserve
<1>2. ASSUME NEW j \in Jobs, Refuse(j)
      PROVE  QueueInv'
  <2>1. Evicted(owner[j]) \in SUBSET Entries
    BY EvictedType
  <2> QED
    BY <1>2, <2>1, QueueRemoval DEF Refuse
<1>3. ASSUME NEW s \in Sessions, Revoke(s)
      PROVE  QueueInv'
  <2>1. JobsOf(s) \in SUBSET Entries
    BY DEF JobsOf, OwnedBy
  <2> QED
    BY <1>3, <2>1, QueueRemoval DEF Revoke
<1>4. ASSUME NEW j \in Jobs, MarkRunning(j) \/ Finish(j)
      PROVE  QueueInv'
  <2>1. place' = place
    BY <1>4 DEF MarkRunning, Finish
  <2>2. Entries' = Entries
    BY <1>4
       DEF MarkRunning, Finish, Concluded, Entries, IInv, TypeOK, TaskInv, Verdicts
  <2> QED
    BY <2>1, <2>2 DEF QueueInv
<1>5. ASSUME UNCHANGED <<state, place>>
      PROVE  QueueInv'
  BY <1>5 DEF QueueInv, Entries
<1> QED
  BY <1>1, <1>2, <1>3, <1>4, <1>5
     DEF Next, TaskStep, vars, ClientStart, StepStart, Check, AnnounceQueued, AnnounceStarted,
         Authorize, TurnAway, Return, AnnounceVerdict, Cancel, LeftToTheTask, AnnounceCancel,
         Stop

\* The store is within its limits and its queue is in step with it (jobs.rs reserve).
THEOREM TheStoreIsSound == Safety => []StoreIsSound
<1>1. Init => QueueInv
  BY DEF Init, QueueInv, Ranked, Entries
<1>2. Safety => []QueueInv
  BY <1>1, QueueStep, Invariance, PTL DEF Safety
<1>3. QueueInv => OrderMatchesEntries
  <2>1. Entries \in SUBSET Jobs
    BY DEF Entries
  <2> QED
    BY <2>1, RankedFilled DEF QueueInv, OrderMatchesEntries
<1>4. IInv /\ QueueInv => StoreIsSound
  BY <1>3 DEF IInv, StoreIsSound
<1> QED
  BY <1>2, <1>4, Invariance, PTL

-----------------------------------------------------------------------------
(* What a step may never do. *)

\* How a step changes the entry of job i.
LEMMA EntrySteps ==
  ASSUME IInv, [Next]_vars, NEW i \in Jobs
  PROVE  \/ state'[i] = state[i]
         \/ state[i] = "absent" /\ task[i] = "checked" /\ state'[i] = "queued"
         \/ state[i] = "queued" /\ state'[i] = "running"
         \/ state[i] = "running" /\ state'[i] \in Verdicts
         \/ state[i] \in Verdicts /\ state'[i] = "absent"
         \/ state'[i] = "absent" /\ owner[i] \in revoked' \ revoked
<1> USE DEF entry, events, broker, IInv
<1>1. ASSUME NEW j \in Jobs, Reserve(j)
      PROVE  \/ state'[i] = state[i]
             \/ state[i] = "absent" /\ task[i] = "checked" /\ state'[i] = "queued"
             \/ state[i] \in Verdicts /\ state'[i] = "absent"
  <2> DEFINE gone == Evicted(owner[j])
  <2>1. gone \in SUBSET Jobs /\ gone \subseteq Terminal
    BY EvictedType
  <2>2. state'[i] = IF i = j THEN "queued" ELSE IF i \in gone THEN "absent" ELSE state[i]
    BY <1>1, <2>1, Removal DEF Reserve, StatesWithout
  <2>3. state[j] = "absent" /\ task[j] = "checked"
    BY <1>1 DEF Reserve, TaskInv, Unstarted
  <2> QED
    BY <2>1, <2>2, <2>3 DEF Terminal
<1>2. ASSUME NEW j \in Jobs, Refuse(j)
      PROVE  state'[i] = state[i] \/ (state[i] \in Verdicts /\ state'[i] = "absent")
  BY <1>2, EvictedType, Removal DEF Refuse, Terminal
<1>3. ASSUME NEW j \in Jobs, MarkRunning(j)
      PROVE  state'[i] = state[i] \/ (state[i] = "queued" /\ state'[i] = "running")
  BY <1>3 DEF MarkRunning, TypeOK
<1>4. ASSUME NEW j \in Jobs, Finish(j)
      PROVE  state'[i] = state[i] \/ (state[i] = "running" /\ state'[i] \in Verdicts)
  BY <1>4 DEF Finish, Concluded, Entries, TypeOK, TaskInv
<1>5. ASSUME NEW s \in Sessions, Revoke(s)
      PROVE  state'[i] = state[i] \/ (state'[i] = "absent" /\ owner[i] \in revoked' \ revoked)
  <2>1. JobsOf(s) \in SUBSET Jobs /\ \A j \in JobsOf(s) : owner[j] = s
    BY DEF JobsOf, OwnedBy, Entries
  <2>2. s \in revoked' \ revoked
    BY <1>5 DEF Revoke
  <2>3. state'[i] = IF i \in JobsOf(s) THEN "absent" ELSE state[i]
    BY <1>5, <2>1, Removal DEF Revoke
  <2> QED
    BY <2>1, <2>2, <2>3
<1> QED
  BY <1>1, <1>2, <1>3, <1>4, <1>5
     DEF Next, TaskStep, vars, ClientStart, StepStart, Check, AnnounceQueued,
         AnnounceStarted, Authorize, TurnAway, Return, AnnounceVerdict, Cancel,
         LeftToTheTask, AnnounceCancel, Stop

\* Only finished jobs are evicted (jobs.rs remove_oldest_terminal).
THEOREM ActiveJobsStay == Safety => OnlyFinishedJobsAreEvicted
<1>1. ASSUME IInv, [Next]_vars
      PROVE  [\A j \in Entries : j \notin Entries' =>
                j \in Terminal \/ owner[j] \in revoked' \ revoked]_vars
  BY <1>1, EntrySteps DEF Entries, Terminal, Verdicts
<1> QED
  BY Invariance, <1>1, PTL DEF Safety, OnlyFinishedJobsAreEvicted

-----------------------------------------------------------------------------
(* Evictions. *)

\* What stays behind the oldest of a set is younger than each of them.
LEMMA OldestComeFirst ==
  ASSUME IInv, NEW S \in SUBSET Jobs, NEW n \in Nat, NEW j \in Oldest(S, n),
         NEW i \in S, i \notin Oldest(S, n)
  PROVE  place[j] < place[i]
<1>1. place[i] \in Int /\ place[j] \in Int /\ \A k \in S : place[k] \in Int
  BY DEF IInv, TypeOK, Oldest
<1>2. PICK I : I = {k \in S : place[k] < place[i]}
  OBVIOUS
<1>3. PICK J : J = {k \in S : place[k] < place[j]}
  OBVIOUS
<1>4. /\ IsFiniteSet(I) /\ IsFiniteSet(J)
      /\ Cardinality(I) \in Nat /\ Cardinality(J) \in Nat
  BY <1>2, <1>3, JobSets
<1>5. Cardinality(J) < n /\ ~(Cardinality(I) < n)
  BY <1>2, <1>3 DEF Oldest
<1>6. ASSUME ~(place[j] < place[i])
      PROVE  I \subseteq J
  BY <1>1, <1>2, <1>3, <1>6
<1>7. I \subseteq J => Cardinality(I) <= Cardinality(J)
  BY <1>4, FS_Subset
<1> QED
  BY <1>4, <1>5, <1>6, <1>7

\* The oldest of a set are some of it, and none when none are wanted.
LEMMA OldestType ==
  ASSUME NEW S \in SUBSET Jobs, NEW n \in Nat
  PROVE  Oldest(S, n) \in SUBSET S /\ (Oldest(S, n) # {} => n # 0)
<1>1. \A j \in S : Cardinality({i \in S : place[i] < place[j]}) \in Nat
  <2> SUFFICES ASSUME NEW j \in S
               PROVE  Cardinality({i \in S : place[i] < place[j]}) \in Nat
    OBVIOUS
  <2>1. {i \in S : place[i] < place[j]} \in SUBSET Jobs
    OBVIOUS
  <2> QED
    BY <2>1, JobSets
<1>2. Oldest(S, n) \in SUBSET S
  BY DEF Oldest
<1>3. ASSUME n = 0, NEW j \in Oldest(S, n)
      PROVE  FALSE
  <2>1. j \in S /\ Cardinality({i \in S : place[i] < place[j]}) < 0
    BY <1>3 DEF Oldest
  <2> QED
    BY <2>1, <1>1
<1> QED
  BY <1>2, <1>3

\* A limit wants something gone only when it is reached.
LEMMA ExcessType ==
  ASSUME NEW S \in SUBSET Jobs, NEW limit \in Nat
  PROVE  /\ Excess(S, limit) \in Nat /\ Cardinality(S) \in Nat
         /\ Excess(S, limit) # 0 => Cardinality(S) >= limit
<1>1. Cardinality(S) \in Nat
  BY JobSets
<1> QED
  BY <1>1 DEF Excess

\* What reserve evicts for a session: another's entries only when the broker is full, and
\* of every session the oldest.
LEMMA FairEviction ==
  ASSUME IInv, NEW s \in Sessions, NEW j \in Evicted(s)
  PROVE  /\ j \in Entries
         /\ owner[j] # s => Cardinality(Entries) >= MaxJobs
         /\ \A i \in Terminal \ Evicted(s) : owner[i] = owner[j] => place[j] < place[i]
<1> DEFINE own  == OwnedBy(s)
           gone == EvictedForSession(s)
           kept == Entries \ gone
           n    == Excess(own, MaxSessionJobs)
           m    == Excess(kept, MaxJobs)
<1>1. /\ own \in SUBSET Jobs /\ Entries \in SUBSET Jobs /\ kept \in SUBSET Jobs
      /\ own \cap Terminal \in SUBSET Jobs /\ kept \cap Terminal \in SUBSET Jobs
  BY DEF OwnedBy, Entries
<1>2. /\ n \in Nat /\ m \in Nat
      /\ m # 0 => Cardinality(kept) >= MaxJobs
  BY <1>1, ExcessType, LimitsAssumption
<1>3. gone = Oldest(own \cap Terminal, n) /\ EvictedForBroker(s) = Oldest(kept \cap Terminal, m)
  BY DEF EvictedForSession, EvictedForBroker
<1>4. /\ gone \in SUBSET (own \cap Terminal)
      /\ EvictedForBroker(s) \in SUBSET (kept \cap Terminal)
      /\ EvictedForBroker(s) # {} => m # 0
  <2> HIDE DEF own, kept, n, m
  <2> QED
    BY <1>1, <1>2, <1>3, OldestType
<1>5. \/ j \in gone
      \/ j \in EvictedForBroker(s) /\ Evicted(s) = gone \cup EvictedForBroker(s)
  BY DEF Evicted
<1>6. gone \subseteq Evicted(s)
  BY DEF Evicted
<1>7. CASE j \in gone
  <2>1. j \in Entries /\ owner[j] = s
    BY <1>7, <1>4 DEF OwnedBy
  <2>2. ASSUME NEW i \in Terminal \ Evicted(s), owner[i] = owner[j]
        PROVE  place[j] < place[i]
    <3>1. i \in own \cap Terminal
      BY <2>1, <2>2 DEF OwnedBy, Terminal, Entries, Verdicts
    <3>2. i \notin gone
      BY <2>2, <1>6
    <3> HIDE DEF own, gone, n
    <3> QED
      BY <1>1, <1>2, <1>3, <1>7, <3>1, <3>2, OldestComeFirst
  <2> QED
    BY <2>1, <2>2
<1>8. CASE j \in EvictedForBroker(s) /\ Evicted(s) = gone \cup EvictedForBroker(s)
  <2>1. j \in Entries
    BY <1>8, <1>4
  <2>2. Cardinality(Entries) >= MaxJobs
    <3>1. Cardinality(kept) >= MaxJobs
      BY <1>2, <1>4, <1>8
    <3>2. IsFiniteSet(Entries) /\ Cardinality(Entries) \in Nat /\ Cardinality(kept) \in Nat
      BY <1>1, JobSets
    <3>3. Cardinality(kept) <= Cardinality(Entries)
      BY <1>1, <3>2, FS_Subset
    <3> QED
      BY <3>1, <3>2, <3>3, LimitsAssumption
  <2>3. ASSUME NEW i \in Terminal \ Evicted(s), owner[i] = owner[j]
        PROVE  place[j] < place[i]
    <3>1. i \in kept \cap Terminal
      BY <2>3, <1>6 DEF Terminal, Entries, Verdicts
    <3>2. i \notin EvictedForBroker(s)
      BY <2>3, <1>8
    <3> HIDE DEF kept, m
    <3> QED
      BY <1>1, <1>2, <1>3, <1>8, <3>1, <3>2, OldestComeFirst
  <2> QED
    BY <2>1, <2>2, <2>3
<1> QED
  BY <1>5, <1>7, <1>8

\* Entries go to a revocation or to the eviction for the job that leaves "checked".
LEMMA EvictionSteps ==
  ASSUME IInv, [Next]_vars, revoked' = revoked, NEW j \in Entries, j \notin Entries'
  PROVE  \E i \in Jobs :
           /\ owner[i] \in Sessions /\ j \in Evicted(owner[i])
           /\ Evicted(owner[i]) \cap Entries' \subseteq {i} /\ state[i] = "absent"
           /\ task' = [task EXCEPT ![i] = task'[i]]
<1> USE DEF entry, events, broker
<1>1. ASSUME NEW i \in Jobs, Reserve(i) \/ Refuse(i)
      PROVE  /\ owner[i] \in Sessions /\ j \in Evicted(owner[i])
             /\ Evicted(owner[i]) \cap Entries' \subseteq {i} /\ state[i] = "absent"
             /\ task' = [task EXCEPT ![i] = task'[i]]
  <2>1. task[i] = "checked" /\ state[i] = "absent"
    BY <1>1 DEF Reserve, Refuse, IInv, TaskInv, Unstarted
  <2>2. owner[i] \in Sessions
    BY <2>1 DEF IInv, TypeOK, TaskInv
  <2>3. \A k \in Jobs : state'[k] = IF k \in Evicted(owner[i]) THEN
                                      IF k = i /\ Reserve(i) THEN "queued" ELSE "absent"
                                    ELSE IF k = i /\ Reserve(i) THEN "queued" ELSE state[k]
    BY <1>1 DEF Reserve, Refuse, StatesWithout
  <2>4. task' = [task EXCEPT ![i] = task'[i]]
    BY <1>1 DEF Reserve, Refuse, IInv, TypeOK
  <2> QED
    BY <2>1, <2>2, <2>3, <2>4 DEF Entries
<1>2. ASSUME NEW s \in Sessions, Revoke(s)
      PROVE  FALSE
  BY <1>2 DEF Revoke
<1>3. ASSUME NEW i \in Jobs, MarkRunning(i) \/ Finish(i)
      PROVE  FALSE
  BY <1>3 DEF MarkRunning, Finish, Concluded, Entries, IInv, TypeOK, TaskInv, Verdicts
<1>4. ~UNCHANGED state
  BY DEF Entries
<1> QED
  BY <1>1, <1>2, <1>3, <1>4
     DEF Next, TaskStep, vars, ClientStart, StepStart, Check, AnnounceQueued, AnnounceStarted,
         Authorize, TurnAway, Return, AnnounceVerdict, Cancel, LeftToTheTask, AnnounceCancel,
         Stop

\* A reservation takes of every session the oldest result first, and of another session
\* only what the whole broker has no room for (jobs.rs reserve).
LEMMA EvictionStep ==
  ASSUME IInv, [Next]_vars, revoked' = revoked, NEW j \in Entries \ Entries'
  PROVE  /\ \A i \in Jobs : task[i] = "checked" /\ task'[i] # "checked" /\ owner[i] # owner[j]
                             => Cardinality(Entries) >= MaxJobs
         /\ \A i \in Terminal : i \in Entries' /\ owner[i] = owner[j] => place[j] < place[i]
<1>1. PICK i \in Jobs :
        /\ owner[i] \in Sessions /\ j \in Evicted(owner[i])
        /\ Evicted(owner[i]) \cap Entries' \subseteq {i} /\ state[i] = "absent"
        /\ task' = [task EXCEPT ![i] = task'[i]]
  BY EvictionSteps
<1>2. /\ owner[j] # owner[i] => Cardinality(Entries) >= MaxJobs
      /\ \A k \in Terminal \ Evicted(owner[i]) : owner[k] = owner[j] => place[j] < place[k]
  BY <1>1, FairEviction
<1>3. \A k \in Jobs : task'[k] # task[k] => k = i
  BY <1>1 DEF IInv, TypeOK
<1>4. i \notin Terminal
  BY <1>1 DEF Terminal, Verdicts
<1> QED
  BY <1>1, <1>2, <1>3, <1>4

\* Both halves of a fair eviction (jobs.rs reserve).
THEOREM EvictionsAreJust == Safety => EvictionsAreFair
<1>1. ASSUME IInv, [Next]_vars
      PROVE  [revoked' = revoked =>
                \A j \in Entries \ Entries' :
                  /\ \A i \in Jobs : /\ task[i] = "checked" /\ task'[i] # "checked"
                                     /\ owner[i] # owner[j]
                                     => Cardinality(Entries) >= MaxJobs
                  /\ \A i \in Terminal : /\ i \in Entries' /\ owner[i] = owner[j]
                                         => place[j] < place[i]]_vars
  BY <1>1, EvictionStep
<1>2. Safety => EvictionIsOldestFirst
  BY Invariance, <1>1, PTL DEF Safety, EvictionIsOldestFirst
<1> QED
  BY <1>2, ActiveJobsStay, PTL DEF EvictionsAreFair

\* A verdict is final and a forgotten job stays forgotten (jobs.rs finish).
THEOREM VerdictsAreFinal == Safety => VerdictIsFinal
<1>1. ASSUME IInv, [Next]_vars
      PROVE  [\A j \in Jobs :
                /\ j \in Terminal => state'[j] \in {state[j], "absent"}
                /\ j \notin Entries /\ task[j] \notin {"new", "checked"}
                     => state'[j] = "absent"]_vars
  BY <1>1, EntrySteps DEF Entries, Terminal, Verdicts
<1> QED
  BY Invariance, <1>1, PTL DEF Safety, VerdictIsFinal

\* Nobody's cancellation is anybody else's (jobs.rs cancel, revoke_session).
THEOREM CancellationsAreScoped == Safety => CancellationIsScoped
<1>1. ASSUME IInv, [Next]_vars
      PROVE  [\A j \in Jobs : token'[j] # token[j] =>
                \/ stopping'
                \/ owner[j] \in revoked' \ revoked
                \/ requested'[j] /\ ~requested[j]]_vars
  <2> SUFFICES ASSUME NEW i \in Jobs, token'[i] # token[i]
               PROVE  \/ stopping'
                      \/ owner[i] \in revoked' \ revoked
                      \/ requested'[i] /\ ~requested[i]
    OBVIOUS
  <2> USE DEF entry, events, broker, IInv
  <2>1. ASSUME NEW j \in Jobs, Reserve(j)
        PROVE  stopping'
    BY <1>1, <2>1 DEF Reserve, TaskInv, TypeOK, Unstarted
  <2>2. ASSUME NEW s \in Sessions, NEW j \in Jobs, Cancel(s, j)
        PROVE  requested'[i] /\ ~requested[i]
    BY <1>1, <2>2 DEF Cancel, TokenCancelled, CancelInv, TypeOK
  <2>3. ASSUME NEW s \in Sessions, Revoke(s)
        PROVE  owner[i] \in revoked' \ revoked
    BY <1>1, <2>3 DEF Revoke, TokensOf, OwnedBy, TypeOK
  <2>4. CASE Stop
    BY <2>4 DEF Stop
  <2> QED
    BY <1>1, <2>1, <2>2, <2>3, <2>4
       DEF Next, TaskStep, vars, ClientStart, StepStart, Check, Refuse, AnnounceQueued,
           MarkRunning, AnnounceStarted, Authorize, TurnAway, Return, Finish,
           AnnounceVerdict, AnnounceCancel
<1> QED
  BY Invariance, <1>1, PTL DEF Safety, CancellationIsScoped

-----------------------------------------------------------------------------
(* The job store implements the promise. *)

\* The phase and the owner JobPromise sees.
PromisedPhase == [j \in Jobs |-> Phase(j)]
PromisedOwner == [j \in Jobs |-> IF Phase(j) = "none" THEN None ELSE owner[j]]

\* A job has no phase exactly while its task is unstarted.
LEMMA NoPhase ==
  ASSUME IInv, NEW j \in Jobs
  PROVE  /\ (Phase(j) = "none") <=> (task[j] \in Unstarted)
         /\ task[j] \in Unstarted => state[j] = "absent"
         /\ j \in Entries => Phase(j) = state[j]
         /\ j \notin Entries /\ task[j] \notin Unstarted => Phase(j) = "forgotten"
  BY DEF Phase, Entries, Unstarted, IInv, TypeOK, TaskInv, States, Verdicts

\* The phases and owners after a step that inserts no entry.
LEMMA PhasesAfter ==
  ASSUME IInv,
         \A j \in Jobs : state[j] = "absent" => state'[j] = "absent",
         \A j \in Jobs : (task'[j] \in Unstarted) <=> (task[j] \in Unstarted),
         \A j \in Jobs : state'[j] \in States,
         owner' = owner
  PROVE  /\ PromisedOwner' = PromisedOwner
         /\ PromisedPhase' = [j \in Jobs |->
                                IF j \in Entries /\ state'[j] = "absent" THEN "forgotten"
                                ELSE IF j \in Entries THEN state'[j] ELSE Phase(j)]
<1>1. ASSUME NEW j \in Jobs
      PROVE  /\ Phase(j)' = IF j \in Entries /\ state'[j] = "absent" THEN "forgotten"
                            ELSE IF j \in Entries THEN state'[j] ELSE Phase(j)
             /\ (Phase(j)' = "none") <=> (Phase(j) = "none")
  BY <1>1, NoPhase DEF Phase, Entries, Unstarted, States, Verdicts
<1>2. PromisedOwner' = PromisedOwner
  BY <1>1 DEF PromisedOwner
<1>3. PromisedPhase' = [j \in Jobs |->
                          IF j \in Entries /\ state'[j] = "absent" THEN "forgotten"
                          ELSE IF j \in Entries THEN state'[j] ELSE Phase(j)]
  BY <1>1 DEF PromisedPhase
<1> QED
  BY <1>2, <1>3

\* A step that leaves the entries, the owners and the set of unstarted jobs alone
\* leaves the phases and the owners alone.
LEMMA SamePhases ==
  ASSUME state' = state,
         \A j \in Jobs : (task'[j] \in Unstarted) <=> (task[j] \in Unstarted),
         \A j \in Jobs : task[j] \notin Unstarted => owner'[j] = owner[j],
         IInv
  PROVE  PromisedPhase' = PromisedPhase /\ PromisedOwner' = PromisedOwner
<1>1. ASSUME NEW j \in Jobs
      PROVE  Phase(j)' = Phase(j)
  BY <1>1 DEF Phase, Entries, Unstarted
<1>2. PromisedPhase' = PromisedPhase
  BY <1>1 DEF PromisedPhase
<1>3. ASSUME NEW j \in Jobs
      PROVE  (IF Phase(j) = "none" THEN None ELSE owner[j])'
             = IF Phase(j) = "none" THEN None ELSE owner[j]
  BY <1>1, <1>3, NoPhase
<1>4. PromisedOwner' = PromisedOwner
  BY <1>3 DEF PromisedOwner
<1> QED
  BY <1>2, <1>4

\* Every step of the store is a step of the promise or a stutter.
LEMMA PromiseStep ==
  ASSUME IInv, TypeOK', [Next]_vars
  PROVE  [Promise!Next]_(Promise!vars)
<1> USE DEF entry, events, broker
<1>a. \A j \in Jobs : state'[j] \in States
  BY DEF TypeOK
<1>1. ASSUME NEW j \in Jobs, Reserve(j)
      PROVE  \E s \in Sessions : Promise!Accept(j, s)
  <2> DEFINE gone == Evicted(owner[j])
  <2>1. gone \in SUBSET Jobs /\ gone \subseteq Entries \cap Terminal
    BY EvictedType
  <2>2. task[j] = "checked" /\ task' = [task EXCEPT ![j] = "reserved"]
        /\ owner' = owner /\ told' = told
        /\ state' = [StatesWithout(gone) EXCEPT ![j] = "queued"]
    BY <1>1 DEF Reserve
  <2>3. \A i \in Jobs : state'[i] = IF i = j THEN "queued"
                                    ELSE IF i \in gone THEN "absent" ELSE state[i]
    BY <2>1, <2>2, Removal DEF StatesWithout
  <2>4. gone \in SUBSET Promise!Finished
    BY <2>1, NoPhase DEF Promise!Finished, Promise!Verdicts, Terminal, Verdicts
  <2>5. Phase(j) = "none" /\ j \notin Entries /\ j \notin gone /\ owner[j] \in Sessions
    BY <2>1, <2>2, NoPhase DEF Entries, Unstarted, IInv, TaskInv
  <2>6. ASSUME NEW i \in Jobs
        PROVE  Phase(i)' = IF i = j THEN "queued"
                           ELSE IF i \in gone THEN "forgotten" ELSE Phase(i)
    <3>1. CASE i = j
      BY <2>3, <3>1 DEF Phase, Entries
    <3>2. CASE i # j /\ i \in gone
      <4>1. task'[i] = task[i] /\ task[i] \notin Unstarted /\ state'[i] = "absent"
        BY <2>1, <2>2, <2>3, <3>2, NoPhase DEF Entries, IInv, TypeOK
      <4> QED
        BY <4>1, <3>2 DEF Phase, Entries, Unstarted
    <3>3. CASE i # j /\ i \notin gone
      BY <2>2, <2>3, <3>3 DEF Phase, Entries, IInv, TypeOK
    <3> QED
      BY <3>1, <3>2, <3>3
  <2>7. PromisedPhase' = [[i \in Jobs |-> IF i \in gone THEN "forgotten"
                                         ELSE PromisedPhase[i]]
                            EXCEPT ![j] = "queued"]
    BY <2>6 DEF PromisedPhase
  <2>8. PromisedOwner' = [PromisedOwner EXCEPT ![j] = owner[j]]
    <3>1. \A i \in Jobs : i # j => (Phase(i)' = "none" <=> Phase(i) = "none")
      BY <2>1, <2>6, NoPhase DEF Terminal, Verdicts
    <3>2. Phase(j)' # "none"
      BY <2>6
    <3> QED
      BY <2>2, <3>1, <3>2 DEF PromisedOwner
  <2> QED
    BY <2>2, <2>4, <2>5, <2>7, <2>8
       DEF Promise!Accept, Promise!Forget, PromisedPhase, PromisedOwner
<1>2. ASSUME NEW j \in Jobs, Refuse(j)
      PROVE  Promise!Evict
  <2> DEFINE gone == Evicted(owner[j])
  <2>1. gone \in SUBSET Jobs /\ gone \subseteq Entries \cap Terminal
    BY EvictedType
  <2>2. \A i \in Jobs : state'[i] = IF i \in gone THEN "absent" ELSE state[i]
    BY <1>2, <2>1, Removal DEF Refuse
  <2>3. \A i \in Jobs : (task'[i] \in Unstarted) <=> (task[i] \in Unstarted)
    BY <1>2 DEF Refuse, Unstarted, IInv, TypeOK
  <2>4. owner' = owner /\ told' = told
    BY <1>2 DEF Refuse
  <2>5. /\ PromisedOwner' = PromisedOwner
        /\ PromisedPhase' = [i \in Jobs |->
                               IF i \in Entries /\ state'[i] = "absent" THEN "forgotten"
                               ELSE IF i \in Entries THEN state'[i] ELSE Phase(i)]
    BY <1>a, <2>2, <2>3, <2>4, PhasesAfter
  <2>6. PromisedPhase' = [i \in Jobs |-> IF i \in gone THEN "forgotten"
                                        ELSE PromisedPhase[i]]
    BY <2>1, <2>2, <2>5, NoPhase DEF PromisedPhase, Entries
  <2>7. gone \in SUBSET Promise!Finished
    BY <2>1, NoPhase DEF Promise!Finished, Promise!Verdicts, Terminal, Verdicts
  <2> QED
    BY <2>4, <2>5, <2>6, <2>7
       DEF Promise!Evict, Promise!Forget, PromisedPhase, PromisedOwner
<1>3. ASSUME NEW j \in Jobs, MarkRunning(j)
      PROVE  Promise!Start(j) \/ UNCHANGED Promise!vars
  <2>1. /\ owner' = owner /\ told' = told
        /\ \A i \in Jobs : state'[i] = IF i = j /\ state[j] = "queued" THEN "running"
                                       ELSE state[i]
        /\ \A i \in Jobs : (task'[i] \in Unstarted) <=> (task[i] \in Unstarted)
    BY <1>3 DEF MarkRunning, AfterMarking, Unstarted, IInv, TypeOK
  <2>2. /\ PromisedOwner' = PromisedOwner
        /\ PromisedPhase' = [i \in Jobs |->
                               IF i \in Entries /\ state'[i] = "absent" THEN "forgotten"
                               ELSE IF i \in Entries THEN state'[i] ELSE Phase(i)]
    BY <1>a, <2>1, PhasesAfter
  <2>3. CASE state[j] = "queued"
    <3>a. j \in Entries /\ \A i \in Jobs : PromisedPhase[i] = IF i \in Entries THEN state[i] ELSE Phase(i)
      BY <2>3, NoPhase DEF PromisedPhase, Entries
    <3>b. \A i \in Jobs : PromisedPhase'[i] = IF i = j THEN "running" ELSE PromisedPhase[i]
      BY <2>1, <2>2, <2>3, <3>a, NoPhase DEF Entries
    <3>1. PromisedPhase' = [PromisedPhase EXCEPT ![j] = "running"]
      BY <3>b DEF PromisedPhase
    <3>2. PromisedPhase[j] = "queued"
      BY <2>3, NoPhase DEF PromisedPhase, Entries
    <3> QED
      BY <2>1, <2>2, <3>1, <3>2 DEF Promise!Start, PromisedPhase, PromisedOwner
  <2>4. CASE state[j] # "queued"
    <3>1. PromisedPhase' = PromisedPhase
      BY <2>1, <2>2, <2>4, NoPhase DEF PromisedPhase, Entries
    <3> QED
      BY <2>1, <2>2, <3>1 DEF Promise!vars, PromisedPhase, PromisedOwner
  <2> QED
    BY <2>3, <2>4
<1>4. ASSUME NEW j \in Jobs, Finish(j)
      PROVE  Promise!Conclude(j) \/ UNCHANGED Promise!vars
  <2>1. verdict[j] \in Verdicts /\ state[j] \in {"absent", "running"}
    BY <1>4 DEF Finish, IInv, TaskInv
  <2>2. /\ owner' = owner /\ told' = told
        /\ \A i \in Jobs : state'[i] = IF i = j /\ j \in Entries THEN verdict[j]
                                       ELSE state[i]
        /\ \A i \in Jobs : (task'[i] \in Unstarted) <=> (task[i] \in Unstarted)
    BY <1>4 DEF Finish, Concluded, Unstarted, IInv, TypeOK
  <2>3. /\ PromisedOwner' = PromisedOwner
        /\ PromisedPhase' = [i \in Jobs |->
                               IF i \in Entries /\ state'[i] = "absent" THEN "forgotten"
                               ELSE IF i \in Entries THEN state'[i] ELSE Phase(i)]
    <3>1. \A i \in Jobs : state[i] = "absent" => state'[i] = "absent"
      BY <2>2 DEF Entries
    <3> QED
      BY <1>a, <2>2, <3>1, PhasesAfter
  <2>4. CASE j \in Entries
    <3>1. PromisedPhase' = [PromisedPhase EXCEPT ![j] = verdict[j]]
      BY <2>1, <2>2, <2>3, <2>4, NoPhase DEF PromisedPhase, Entries, Verdicts
    <3>2. PromisedPhase[j] = "running"
      BY <2>1, <2>4, NoPhase DEF PromisedPhase, Entries
    <3> QED
      BY <2>1, <2>2, <2>3, <3>1, <3>2
         DEF Promise!Conclude, Promise!Verdicts, Verdicts, PromisedPhase, PromisedOwner
  <2>5. CASE j \notin Entries
    <3>1. PromisedPhase' = PromisedPhase
      BY <2>2, <2>3, <2>5, NoPhase DEF PromisedPhase, Entries
    <3> QED
      BY <2>2, <2>3, <3>1 DEF Promise!vars, PromisedPhase, PromisedOwner
  <2> QED
    BY <2>4, <2>5
<1>5. ASSUME NEW s \in Sessions, Revoke(s)
      PROVE  Promise!RevokeSession(s)
  <2>1. JobsOf(s) \in SUBSET Jobs
    BY DEF JobsOf, OwnedBy, Entries
  <2>2. /\ owner' = owner /\ told' = told /\ task' = task
        /\ \A i \in Jobs : state'[i] = IF i \in JobsOf(s) THEN "absent" ELSE state[i]
    BY <1>5, <2>1, Removal DEF Revoke
  <2>3. /\ PromisedOwner' = PromisedOwner
        /\ PromisedPhase' = [i \in Jobs |->
                               IF i \in Entries /\ state'[i] = "absent" THEN "forgotten"
                               ELSE IF i \in Entries THEN state'[i] ELSE Phase(i)]
    BY <1>a, <2>2, PhasesAfter
  <2>4. {i \in Jobs : PromisedOwner[i] = s}
        = {i \in Jobs : Phase(i) # "none" /\ owner[i] = s}
    BY NoneAssumption DEF PromisedOwner
  <2>5. \A i \in Jobs :
          PromisedPhase'[i] = IF Phase(i) # "none" /\ owner[i] = s THEN "forgotten"
                              ELSE Phase(i)
    BY <2>2, <2>3, NoPhase DEF JobsOf, OwnedBy, Entries
  <2>6. PromisedPhase' = [i \in Jobs |-> IF i \in {k \in Jobs : PromisedOwner[k] = s}
                                        THEN "forgotten" ELSE PromisedPhase[i]]
    BY <2>4, <2>5 DEF PromisedPhase
  <2> QED
    BY <2>2, <2>3, <2>6
       DEF Promise!RevokeSession, Promise!Forget, PromisedPhase, PromisedOwner
<1>6. ASSUME NEW j \in Jobs, AnnounceQueued(j)
      PROVE  Promise!TellQueued(j)
  <2>1. /\ state' = state /\ owner' = owner /\ told' = [told EXCEPT ![j] = "queued"]
        /\ task[j] \notin Unstarted /\ told[j] = "nothing"
        /\ \A i \in Jobs : (task'[i] \in Unstarted) <=> (task[i] \in Unstarted)
    BY <1>6 DEF AnnounceQueued, Tell, Unstarted, IInv, TypeOK, TaskInv
  <2>2. PromisedPhase' = PromisedPhase /\ PromisedOwner' = PromisedOwner
    BY <2>1, SamePhases
  <2>3. Phase(j) # "none"
    BY <2>1, NoPhase
  <2> QED
    BY <2>1, <2>2, <2>3 DEF Promise!TellQueued, PromisedPhase, PromisedOwner
<1>7. ASSUME NEW j \in Jobs, AnnounceStarted(j)
      PROVE  Promise!TellStarted(j)
  <2>1. /\ state' = state /\ owner' = owner /\ told' = [told EXCEPT ![j] = "started"]
        /\ task[j] \notin Unstarted /\ told[j] = "queued"
        /\ state[j] \in {"absent", "running"}
        /\ \A i \in Jobs : (task'[i] \in Unstarted) <=> (task[i] \in Unstarted)
    BY <1>7 DEF AnnounceStarted, Tell, Unstarted, IInv, TypeOK, TaskInv
  <2>2. PromisedPhase' = PromisedPhase /\ PromisedOwner' = PromisedOwner
    BY <2>1, SamePhases
  <2>3. Phase(j) \in {"running", "forgotten"}
    BY <2>1, NoPhase DEF Entries
  <2> QED
    BY <2>1, <2>2, <2>3 DEF Promise!TellStarted, PromisedPhase, PromisedOwner
<1>8. ASSUME NEW j \in Jobs, AnnounceVerdict(j)
      PROVE  Promise!TellVerdict(j)
  <2>1. /\ state' = state /\ owner' = owner /\ told' = [told EXCEPT ![j] = verdict[j]]
        /\ task[j] \notin Unstarted /\ told[j] = "started" /\ verdict[j] \in Verdicts
        /\ state[j] \in {"absent", verdict[j]}
        /\ \A i \in Jobs : (task'[i] \in Unstarted) <=> (task[i] \in Unstarted)
    BY <1>8 DEF AnnounceVerdict, SnapshotState, Tell, Unstarted, IInv, TypeOK, TaskInv
  <2>2. PromisedPhase' = PromisedPhase /\ PromisedOwner' = PromisedOwner
    BY <2>1, SamePhases
  <2>3. Phase(j) \in {verdict[j], "forgotten"}
    BY <2>1, NoPhase DEF Entries
  <2> QED
    BY <2>1, <2>2, <2>3
       DEF Promise!TellVerdict, Promise!Verdicts, Verdicts, PromisedPhase, PromisedOwner
<1>9. ASSUME /\ state' = state /\ told' = told
             /\ \A i \in Jobs : (task'[i] \in Unstarted) <=> (task[i] \in Unstarted)
             /\ \A i \in Jobs : task[i] \notin Unstarted => owner'[i] = owner[i]
      PROVE  UNCHANGED Promise!vars
  <2>1. PromisedPhase' = PromisedPhase /\ PromisedOwner' = PromisedOwner
    BY <1>9, SamePhases
  <2> QED
    BY <1>9, <2>1 DEF Promise!vars, PromisedPhase, PromisedOwner
<1>10. ASSUME NEW j \in Jobs,
              \/ \E s \in Sessions, p \in Jobs \cup {None} : Check(s, p, j)
              \/ Authorize(j) \/ TurnAway(j) \/ Return(j) \/ AnnounceCancel(j)
              \/ \E s \in Sessions : Cancel(s, j)
       PROVE  UNCHANGED Promise!vars
  BY <1>9, <1>10 DEF Check, Authorize, TurnAway, Return, AnnounceCancel, Cancel,
                     LeftToTheTask, Unstarted, IInv, TypeOK
<1>11. CASE Stop \/ UNCHANGED vars
  BY <1>9, <1>11 DEF Stop, vars
<1>12. ASSUME NEW j \in Jobs, NEW s \in Sessions, ClientStart(s, j)
       PROVE  UNCHANGED Promise!vars
  BY <1>10, <1>12 DEF ClientStart
<1>13. ASSUME NEW j \in Jobs, NEW p \in Jobs, StepStart(p, j)
       PROVE  UNCHANGED Promise!vars
  <2>1. owner[p] \in Sessions
    BY <1>13 DEF StepStart, IInv, TaskInv
  <2> QED
    BY <1>10, <1>13, <2>1 DEF StepStart
<1>14. ASSUME NEW j \in Jobs, TaskStep(j)
       PROVE  Promise!Next \/ UNCHANGED Promise!vars
  <2>1. CASE Reserve(j) \/ Refuse(j)
    BY <1>1, <1>2, <2>1 DEF Promise!Next
  <2>2. CASE MarkRunning(j) \/ Finish(j)
    BY <1>3, <1>4, <2>2 DEF Promise!Next
  <2>3. CASE AnnounceQueued(j) \/ AnnounceStarted(j) \/ AnnounceVerdict(j)
    BY <1>6, <1>7, <1>8, <2>3 DEF Promise!Next
  <2>4. CASE Authorize(j) \/ TurnAway(j) \/ Return(j)
    BY <1>10, <2>4
  <2> QED
    BY <1>14, <2>1, <2>2, <2>3, <2>4 DEF TaskStep
<1>15. ASSUME NEW s \in Sessions, Revoke(s)
       PROVE  Promise!Next
  BY <1>5, <1>15 DEF Promise!Next
<1>16. ASSUME NEW j \in Jobs, AnnounceCancel(j) \/ \E s \in Sessions : Cancel(s, j)
       PROVE  UNCHANGED Promise!vars
  BY <1>10, <1>16
<1>17. Promise!Next \/ UNCHANGED Promise!vars
  BY <1>11, <1>12, <1>13, <1>14, <1>15, <1>16 DEF Next
<1> QED
  BY <1>17

\* The store, the tasks and the publications implement JobPromise, in every
\* interleaving and for any limits.
THEOREM StoreImplementsThePromise == Safety => KeepsThePromise
<1>1. Init => Promise!Init
  BY DEF Init, Promise!Init, Phase, Entries
<1>2. IInv /\ IInv' /\ [Next]_vars => [Promise!Next]_(Promise!vars)
  BY PromiseStep DEF IInv
<1> QED
  BY Invariance, <1>1, <1>2, PTL DEF Safety, KeepsThePromise, Promise!Safety
=============================================================================
