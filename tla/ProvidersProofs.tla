--------------------------- MODULE ProvidersProofs ---------------------------
(***************************************************************************)
(* Proofs about provider leases and recovery, for any connections, calls,  *)
(* revisions and restart budget.                                           *)
(***************************************************************************)
EXTENDS Providers, FiniteSetTheorems, TLAPS

Refreshing == {"enumerating", "validating", "checked"}
Joining    == {"joining", "prepared", "ready"}
Joins(c)   == pc[c] \in Joining /\ by[c] = "recovery"

\* What an operation remembers is not newer than the catalogue, and a candidate
\* was built below the last revision.
WorkInv == \A w \in Workers :
  /\ base[w] <= revision
  /\ pc[w] \in Refreshing => base[w] # 0
  /\ pc[w] \in {"prepared", "ready", "checked"} => expected[w] < MaxRevision

\* A connection that has not joined is in no lease; the candidate of an owner
\* found the slot empty, the one of recovery found the connection it replaces.
NewInv == \A c \in Conns :
  /\ pc[c] \in Joining \cup {"unborn", "dropped"} => \A g \in Generations : lease[g] # c
  /\ pc[c] \in {"prepared", "ready"} =>
       IF by[c] = "owner" THEN base[c] = 0
                          ELSE base[c] # 0 /\ lease[base[c]] = current

\* From the close on, the supervisor looks after a closed connection, whose process has
\* ended or is to be killed, and publishes at most one new one.
SupInv ==
  /\ sup \in {"backoff", "launching", "publishing"} => current \in closed
  /\ \A c \in Conns : Joins(c) => sup = "publishing"
  /\ \A c, d \in Conns : Joins(c) /\ Joins(d) => c = d
  /\ \A c \in Conns : by[c] = "recovery" => pc[c] # "unborn"
  /\ \A c \in closed : process[c] # "running"
  /\ \A c \in Supervised : process[c] # "running" \/ c = current \/ Joins(c)

\* The inductive invariant.
IInv == TypeOK /\ WorkInv /\ NewInv /\ SupInv

CatalogueOK == /\ revision \in Generations
               /\ slot \in 0 .. revision
               /\ lease \in [Generations -> Conns \cup {None}]
               /\ slot # 0 => lease[slot] # None
               /\ epochOver \in SUBSET Generations

\* An invalidation keeps the catalogue well typed and never moves it back.
LEMMA InvalidateOK ==
  ASSUME TypeOK, NEW c, Invalidate(c), UNCHANGED <<slot, lease>>
  PROVE  /\ CatalogueOK' /\ revision <= revision'
         /\ \A g \in epochOver' \ epochOver : g = slot /\ Holds(c)
<1>1. CASE Holds(c) /\ revision < MaxRevision
  <2>1. revision' = revision + 1 /\ epochOver' = epochOver \cup {slot} /\ slot # 0
    BY <1>1 DEF Invalidate, Holds
  <2>2. /\ revision \in Nat /\ revision + 1 \in 1 .. MaxRevision
        /\ slot \in 0 .. revision + 1 /\ slot \in 1 .. MaxRevision
    BY <1>1, <2>1, BoundAssumption DEF TypeOK, Generations
  <2> QED
    BY <1>1, <2>1, <2>2 DEF TypeOK, CatalogueOK, Generations
<1>2. CASE ~(Holds(c) /\ revision < MaxRevision)
  <2>1. UNCHANGED <<revision, slot, lease, epochOver>>
    BY <1>2 DEF Invalidate
  <2>2. CatalogueOK
    BY DEF TypeOK, CatalogueOK
  <2>3. revision <= revision
    BY BoundAssumption DEF TypeOK, Generations
  <2> QED
    BY <2>1, <2>2, <2>3 DEF CatalogueOK, Generations
<1> QED
  BY <1>1, <1>2

\* A publication below the last revision does so, too.
LEMMA PublishOK ==
  ASSUME TypeOK, NEW d \in Conns, Publish(d), revision < MaxRevision,
         epochOver' \in SUBSET Generations
  PROVE  /\ CatalogueOK' /\ revision' = revision + 1 /\ revision \in Nat
         /\ slot' = revision + 1 /\ slot' \in Generations /\ lease'[slot'] = d
         /\ \A g \in Generations : g # slot' => lease'[g] = lease[g]
<1>1. revision \in Nat /\ revision + 1 \in Generations
  BY BoundAssumption DEF TypeOK, Generations
<1>2. lease' = [lease EXCEPT ![revision + 1] = d] /\ d # None
  BY ConnsAssumption DEF Publish
<1>3. lease'[revision + 1] = d /\ lease' \in [Generations -> Conns \cup {None}]
  BY <1>1, <1>2 DEF TypeOK
<1>4. revision' = revision + 1 /\ slot' = revision + 1 /\ slot' \in 0 .. revision'
  BY <1>1 DEF Publish
<1> QED
  BY <1>1, <1>2, <1>3, <1>4 DEF TypeOK, CatalogueOK

\* A task that leaves an operation keeps its types.
LEMMA RestOK ==
  ASSUME TypeOK, NEW w \in Workers,
         Rest(w, AfterFailure(w)) \/ Rest(w, "watching") \/ Rest(w, "dropped")
  PROVE  /\ pc' \in [Workers -> {"unborn", "joining", "prepared", "ready", "watching",
                       "enumerating", "validating", "checked", "failed", "terminating",
                       "ended", "dropped"}]
         /\ base' \in [Workers -> 0 .. MaxRevision]
         /\ expected' \in [Workers -> 0 .. MaxRevision]
         /\ hard' \in [Workers -> BOOLEAN]
<1>1. PICK state \in {"watching", "failed", "dropped"} :
         /\ pc' = [pc EXCEPT ![w] = state]
         /\ base' = [base EXCEPT ![w] = 0]
         /\ expected' = [expected EXCEPT ![w] = 0]
         /\ hard' = [hard EXCEPT ![w] = FALSE]
  BY DEF Rest, AfterFailure
<1>2. 0 \in 0 .. MaxRevision
  BY BoundAssumption
<1> QED
  BY <1>1, <1>2 DEF TypeOK

\* To be killed is to run no more, and nobody who has ended or is to be killed runs again.
LEMMA DoomedOK ==
  ASSUME TypeOK, NEW c \in Conns, Doomed(c)
  PROVE  /\ process' \in [Conns -> {"running", "doomed", "ended"}]
         /\ process'[c] # "running"
         /\ \A d \in Conns : process[d] # "running" => process'[d] # "running"
BY DEF TypeOK, Doomed

\* A restart is charged to the budget or is the end of supervision.
LEMMA BudgetOK ==
  ASSUME TypeOK, Retry \/ GiveUp
  PROVE  /\ attempts' \in 0 .. MaxAttempts
         /\ sup' \in {"supervising", "backoff", "launching", "publishing", "ended"}
BY BoundAssumption DEF TypeOK, Retry, GiveUp

\* Every step preserves the types.
LEMMA TypeStep == IInv /\ [Next]_vars => TypeOK'
<1> SUFFICES ASSUME IInv, [Next]_vars
             PROVE  TypeOK'
  OBVIOUS
<1> USE ConnsAssumption, BoundAssumption
    DEF IInv, TypeOK, Workers, Generations, catalogue, child, scopes, work, supervisor, Holds
<1>1. ASSUME NEW w \in Workers, NEW h \in BOOLEAN, BeginRefresh(w, h)
      PROVE  TypeOK'
  <2>1. slot \in 0 .. MaxRevision
    OBVIOUS
  <2>2. /\ pc' = [pc EXCEPT ![w] = "enumerating"]
        /\ base' = [base EXCEPT ![w] = slot]
        /\ hard' = [hard EXCEPT ![w] = h]
        /\ UNCHANGED <<catalogue, child, scopes, expected, by, supervisor, pin>>
    BY <1>1 DEF BeginRefresh
  <2> QED
    BY <2>1, <2>2
<1>2. ASSUME NEW c \in Conns, RefusedRefresh(c)
      PROVE  TypeOK'
  BY <1>2 DEF RefusedRefresh
<1>3. ASSUME NEW w \in Workers, BadRefresh(w)
      PROVE  TypeOK'
  <2>1. CatalogueOK'
    BY <1>3, InvalidateOK DEF BadRefresh
  <2>2. Rest(w, AfterFailure(w))
    BY <1>3 DEF BadRefresh
  <2> QED
    BY <1>3, <2>1, <2>2, RestOK DEF BadRefresh, CatalogueOK
<1>4. ASSUME NEW w \in Workers, Candidate(w)
      PROVE  TypeOK'
  BY <1>4 DEF Candidate
<1>5. ASSUME NEW w \in Workers, Validated(w)
      PROVE  TypeOK'
  BY <1>5 DEF Validated
<1>6. ASSUME NEW w \in Workers, CommitRefresh(w)
      PROVE  TypeOK'
  <2>1. /\ Publish(lease[slot]) /\ lease[slot] \in Conns /\ revision < MaxRevision
        /\ slot \in Generations
    BY <1>6 DEF CommitRefresh, Unchanged, Target, WorkInv, Refreshing
  <2>2. epochOver' \in SUBSET Generations
    BY <1>6, <2>1 DEF CommitRefresh, Unchanged
  <2>3. CatalogueOK'
    BY <2>1, <2>2, PublishOK
  <2>4. Rest(w, "watching")
    BY <1>6 DEF CommitRefresh
  <2> QED
    BY <1>6, <2>3, <2>4, RestOK DEF CommitRefresh, CatalogueOK
<1>7. ASSUME NEW w \in Workers, LostRefresh(w)
      PROVE  TypeOK'
  BY <1>7 DEF LostRefresh, Rest, AfterFailure
<1>8. ASSUME NEW c \in Conns, WatcherInvalidates(c)
      PROVE  TypeOK'
  <2>1. CatalogueOK'
    BY <1>8, InvalidateOK DEF WatcherInvalidates
  <2> QED
    BY <1>8, <2>1 DEF WatcherInvalidates, CatalogueOK
<1>9. ASSUME NEW c \in Conns, WatcherStops(c)
      PROVE  TypeOK'
  BY <1>9 DEF WatcherStops, Rest
<1>10. ASSUME NEW c \in Conns, Terminate(c)
      PROVE  TypeOK'
  <2>1. lifeOver' \in SUBSET Conns
    BY <1>10 DEF Terminate, Terminated
  <2>2. \E state \in {"terminating", "ended"} : pc' = [pc EXCEPT ![c] = state]
    BY <1>10 DEF Terminate
  <2> QED
    BY <1>10, <2>1, <2>2 DEF Terminate
<1>11. ASSUME NEW c \in Conns, FinishTermination(c)
      PROVE  TypeOK'
  <2>1. CatalogueOK'
    BY <1>11, InvalidateOK DEF FinishTermination
  <2> QED
    BY <1>11, <2>1 DEF FinishTermination, CatalogueOK
<1>12. ASSUME NEW c \in Conns, Exit(c)
      PROVE  TypeOK'
  BY <1>12 DEF Exit
<1>13. ASSUME NEW c \in Conns, Mount(c)
      PROVE  TypeOK'
  BY <1>13 DEF Mount
<1>14. ASSUME OwnerInvalidates
      PROVE  TypeOK'
  <2>1. CatalogueOK'
    BY <1>14, InvalidateOK DEF OwnerInvalidates
  <2> QED
    BY <1>14, <2>1 DEF OwnerInvalidates, CatalogueOK
<1>15. ASSUME Remove
      PROVE  TypeOK'
  BY <1>15 DEF Remove
<1>16. ASSUME Stop
      PROVE  TypeOK'
  BY <1>16 DEF Stop
<1>17. ASSUME OtherCommit
      PROVE  TypeOK'
  BY <1>17 DEF OtherCommit
<1>18. ASSUME SeeExit
      PROVE  TypeOK'
  BY <1>18, BudgetOK DEF SeeExit
<1>19. ASSUME BackoffEnds
      PROVE  TypeOK'
  BY <1>19 DEF BackoffEnds, GiveUp
<1>20. ASSUME LaunchFails
      PROVE  TypeOK'
  BY <1>20, BudgetOK DEF LaunchFails
<1>21. ASSUME NEW c \in Conns, Launched(c)
      PROVE  TypeOK'
  BY <1>21 DEF Launched
<1>22. ASSUME SupervisorStops
      PROVE  TypeOK'
  BY <1>22 DEF SupervisorStops, GiveUp
<1>23. ASSUME NEW c \in Conns, Prepare(c)
      PROVE  TypeOK'
  BY <1>23 DEF Prepare, Vacant
<1>24. ASSUME NEW c \in Conns, Ready(c)
      PROVE  TypeOK'
  BY <1>24 DEF Ready
<1>25. ASSUME NEW c \in Conns, Join(c)
      PROVE  TypeOK'
  <2>1. Publish(c) /\ revision < MaxRevision /\ base[c] = slot /\ c \in Workers
    BY <1>25 DEF Join, Admissible, Unchanged, WorkInv
  <2>2. by[c] = "recovery" => slot \in Generations /\ lease[slot] \in Conns
    BY <1>25, <2>1 DEF Join, NewInv
  <2>3. epochOver' \in SUBSET Generations /\ lifeOver' \in SUBSET Conns
    <3>1. IF by[c] = "recovery"
          THEN epochOver' = epochOver \cup {base[c]} /\ lifeOver' = lifeOver \cup {lease[base[c]]}
          ELSE UNCHANGED <<epochOver, lifeOver>>
      BY <1>25 DEF Join
    <3> QED
      BY <2>1, <2>2, <3>1
  <2>4. CatalogueOK'
    BY <2>1, <2>3, PublishOK
  <2>5. Rest(c, "watching")
    BY <1>25 DEF Join
  <2> QED
    BY <1>25, <2>1, <2>3, <2>4, <2>5, RestOK DEF Join, CatalogueOK
<1>26. ASSUME NEW c \in Conns, RejectJoin(c)
      PROVE  TypeOK'
  <2>1. Rest(c, "dropped") /\ Doomed(c) /\ UNCHANGED <<catalogue, closed, scopes, by, current, pin>>
    BY <1>26 DEF RejectJoin, Dropped
  <2>2. attempts' \in 0 .. MaxAttempts /\ sup' \in {"supervising", "backoff", "launching", "publishing", "ended"}
    BY <1>26, BudgetOK DEF RejectJoin
  <2> QED
    BY <2>1, <2>2, RestOK, DoomedOK
<1>27. ASSUME NEW c \in Conns, LoseJoin(c)
      PROVE  TypeOK'
  <2>1. Rest(c, "dropped") /\ Doomed(c) /\ UNCHANGED <<catalogue, closed, scopes, by, current, pin>>
    BY <1>27 DEF LoseJoin, Dropped
  <2>2. attempts' \in 0 .. MaxAttempts /\ sup' \in {"supervising", "backoff", "launching", "publishing", "ended"}
    BY <1>27, BudgetOK DEF LoseJoin
  <2> QED
    BY <2>1, <2>2, RestOK, DoomedOK
<1>28. ASSUME NEW x \in Users, Resolve(x)
      PROVE  TypeOK'
  <2>1. pin' = [pin EXCEPT ![x] = slot] /\ slot \in 0 .. MaxRevision
    BY <1>28 DEF Resolve
  <2>2. UNCHANGED <<catalogue, child, scopes, work, supervisor>>
    BY <1>28 DEF Resolve
  <2> QED
    BY <2>1, <2>2
<1>29. ASSUME NEW x \in Users, Return(x)
      PROVE  TypeOK'
  BY <1>29 DEF Return, Ended
<1>30. ASSUME NEW x \in Users, Revoke(x)
      PROVE  TypeOK'
  BY <1>30 DEF Revoke, Ended
<1>31. ASSUME NEW c \in Conns, Condemn(c)
      PROVE  TypeOK'
  BY <1>31, DoomedOK DEF Condemn
<1>32. ASSUME NEW c \in Conns, Close(c)
      PROVE  TypeOK'
  BY <1>32, DoomedOK DEF Close
<1>33. ASSUME NEW c \in Conns, LaunchDropped(c)
      PROVE  TypeOK'
  <2>1. /\ Rest(c, "dropped") /\ Doomed(c) /\ by' = [by EXCEPT ![c] = "recovery"]
        /\ UNCHANGED <<catalogue, closed, scopes, current, pin>>
    BY <1>33 DEF LaunchDropped, Dropped
  <2>2. attempts' \in 0 .. MaxAttempts /\ sup' \in {"supervising", "backoff", "launching", "publishing", "ended"}
    BY <1>33, BudgetOK DEF LaunchDropped
  <2> QED
    BY <2>1, <2>2, RestOK, DoomedOK
<1>34. CASE UNCHANGED vars
  BY <1>34 DEF vars
<1> HIDE DEF IInv, TypeOK, Generations, catalogue, child, scopes, work, supervisor, Holds
<1> QED
  BY <1>1, <1>2, <1>3, <1>4, <1>5, <1>6, <1>7, <1>8, <1>9, <1>10, <1>11,
     <1>12, <1>13, <1>14, <1>15, <1>16, <1>17, <1>18, <1>19, <1>20, <1>21,
     <1>22, <1>23, <1>24, <1>25, <1>26, <1>27, <1>28, <1>29, <1>30, <1>31, <1>32, <1>33, <1>34
  DEF Next, DaemonNext, OwnerNext, WatcherStep, WorkerStep, JoinStep, SupStep, Workers

\* Operations remember a state the catalogue has been in.
LEMMA WorkStep == IInv /\ [Next]_vars => WorkInv'
<1> SUFFICES ASSUME IInv, [Next]_vars
             PROVE  WorkInv'
  OBVIOUS
<1> USE ConnsAssumption, BoundAssumption
    DEF IInv, TypeOK, WorkInv, Workers, Generations, catalogue, child, scopes, work, supervisor, Refreshing
<1>1. ASSUME NEW w \in Workers, NEW h \in BOOLEAN, BeginRefresh(w, h)
      PROVE  WorkInv'
  BY <1>1 DEF BeginRefresh, Refreshable
<1>2. ASSUME NEW c \in Conns, RefusedRefresh(c)
      PROVE  WorkInv'
  BY <1>2 DEF RefusedRefresh
<1>3. ASSUME NEW w \in Workers, BadRefresh(w)
      PROVE  WorkInv'
  BY <1>3 DEF BadRefresh, Invalidate, Rest, AfterFailure
<1>4. ASSUME NEW w \in Workers, Candidate(w)
      PROVE  WorkInv'
  BY <1>4 DEF Candidate
<1>5. ASSUME NEW w \in Workers, Validated(w)
      PROVE  WorkInv'
  BY <1>5 DEF Validated
<1>6. ASSUME NEW w \in Workers, CommitRefresh(w)
      PROVE  WorkInv'
  BY <1>6 DEF CommitRefresh, Unchanged, Publish, Target, Rest
<1>7. ASSUME NEW w \in Workers, LostRefresh(w)
      PROVE  WorkInv'
  BY <1>7 DEF LostRefresh, Rest, AfterFailure
<1>8. ASSUME NEW c \in Conns, WatcherInvalidates(c)
      PROVE  WorkInv'
  BY <1>8 DEF WatcherInvalidates, Invalidate
<1>9. ASSUME NEW c \in Conns, WatcherStops(c)
      PROVE  WorkInv'
  BY <1>9 DEF WatcherStops, Rest
<1>10. ASSUME NEW c \in Conns, Terminate(c)
      PROVE  WorkInv'
  BY <1>10 DEF Terminate, Terminated
<1>11. ASSUME NEW c \in Conns, FinishTermination(c)
      PROVE  WorkInv'
  BY <1>11 DEF FinishTermination, Invalidate
<1>12. ASSUME NEW c \in Conns, Exit(c)
      PROVE  WorkInv'
  BY <1>12 DEF Exit
<1>13. ASSUME NEW c \in Conns, Mount(c)
      PROVE  WorkInv'
  BY <1>13 DEF Mount
<1>14. ASSUME OwnerInvalidates
      PROVE  WorkInv'
  BY <1>14 DEF OwnerInvalidates, Invalidate
<1>15. ASSUME Remove
      PROVE  WorkInv'
  BY <1>15 DEF Remove
<1>16. ASSUME Stop
      PROVE  WorkInv'
  BY <1>16 DEF Stop
<1>17. ASSUME OtherCommit
      PROVE  WorkInv'
  BY <1>17 DEF OtherCommit
<1>18. ASSUME SeeExit
      PROVE  WorkInv'
  BY <1>18 DEF SeeExit, Closed, Retry, GiveUp
<1>19. ASSUME BackoffEnds
      PROVE  WorkInv'
  BY <1>19 DEF BackoffEnds, GiveUp
<1>20. ASSUME LaunchFails
      PROVE  WorkInv'
  BY <1>20 DEF LaunchFails, Retry, GiveUp
<1>21. ASSUME NEW c \in Conns, Launched(c)
      PROVE  WorkInv'
  BY <1>21 DEF Launched
<1>22. ASSUME SupervisorStops
      PROVE  WorkInv'
  BY <1>22 DEF SupervisorStops, GiveUp
<1>23. ASSUME NEW c \in Conns, Prepare(c)
      PROVE  WorkInv'
  BY <1>23 DEF Prepare, Vacant
<1>24. ASSUME NEW c \in Conns, Ready(c)
      PROVE  WorkInv'
  BY <1>24 DEF Ready
<1>25. ASSUME NEW c \in Conns, Join(c)
      PROVE  WorkInv'
  BY <1>25 DEF Join, Admissible, Unchanged, Publish, Rest
<1>26. ASSUME NEW c \in Conns, RejectJoin(c)
      PROVE  WorkInv'
  BY <1>26 DEF RejectJoin, Dropped, Rest, Retry, GiveUp
<1>27. ASSUME NEW c \in Conns, LoseJoin(c)
      PROVE  WorkInv'
  BY <1>27 DEF LoseJoin, Dropped, Rest, GiveUp
<1>28. ASSUME NEW x \in Users, Resolve(x)
      PROVE  WorkInv'
  BY <1>28 DEF Resolve
<1>29. ASSUME NEW x \in Users, Return(x)
      PROVE  WorkInv'
  BY <1>29 DEF Return, Ended
<1>30. ASSUME NEW x \in Users, Revoke(x)
      PROVE  WorkInv'
  BY <1>30 DEF Revoke, Ended
<1>31. ASSUME NEW c \in Conns, Condemn(c)
      PROVE  WorkInv'
  BY <1>31 DEF Condemn
<1>32. ASSUME NEW c \in Conns, Close(c)
      PROVE  WorkInv'
  BY <1>32 DEF Close
<1>33. ASSUME NEW c \in Conns, LaunchDropped(c)
      PROVE  WorkInv'
  BY <1>33 DEF LaunchDropped, Dropped, Rest, Retry, GiveUp
<1>34. CASE UNCHANGED vars
  BY <1>34 DEF vars
<1> HIDE DEF IInv, TypeOK, WorkInv, Generations, catalogue, child, scopes, work, supervisor, Refreshing
<1> QED
  BY <1>1, <1>2, <1>3, <1>4, <1>5, <1>6, <1>7, <1>8, <1>9, <1>10, <1>11,
     <1>12, <1>13, <1>14, <1>15, <1>16, <1>17, <1>18, <1>19, <1>20, <1>21,
     <1>22, <1>23, <1>24, <1>25, <1>26, <1>27, <1>28, <1>29, <1>30, <1>31, <1>32, <1>33, <1>34
  DEF Next, DaemonNext, OwnerNext, WatcherStep, WorkerStep, JoinStep, SupStep, Workers

\* Only a publication puts a new connection into a lease.
LEMMA NewStep == IInv /\ [Next]_vars => NewInv'
<1> SUFFICES ASSUME IInv, [Next]_vars
             PROVE  NewInv'
  OBVIOUS
<1> USE ConnsAssumption, BoundAssumption
    DEF IInv, TypeOK, NewInv, Workers, Generations, catalogue, child, scopes, work, supervisor, Joining
<1>1. ASSUME NEW w \in Workers, NEW h \in BOOLEAN, BeginRefresh(w, h)
      PROVE  NewInv'
  BY <1>1 DEF BeginRefresh, Refreshable
<1>2. ASSUME NEW c \in Conns, RefusedRefresh(c)
      PROVE  NewInv'
  BY <1>2 DEF RefusedRefresh
<1>3. ASSUME NEW w \in Workers, BadRefresh(w)
      PROVE  NewInv'
  BY <1>3 DEF BadRefresh, Invalidate, Rest, AfterFailure
<1>4. ASSUME NEW w \in Workers, Candidate(w)
      PROVE  NewInv'
  BY <1>4 DEF Candidate
<1>5. ASSUME NEW w \in Workers, Validated(w)
      PROVE  NewInv'
  BY <1>5 DEF Validated
<1>6. ASSUME NEW w \in Workers, CommitRefresh(w)
      PROVE  NewInv'
  <2>1. /\ Publish(lease[slot]) /\ lease[slot] \in Conns /\ revision < MaxRevision
        /\ slot \in Generations
    BY <1>6 DEF CommitRefresh, Unchanged, Target, WorkInv, Refreshing
  <2>0. epochOver' \in SUBSET Generations
    BY <1>6, <2>1 DEF CommitRefresh, Unchanged
  <2>2. /\ lease'[slot'] = lease[slot]
        /\ \A g \in Generations : g # slot' => lease'[g] = lease[g]
        /\ slot' = revision + 1 /\ revision \in Nat
    BY <2>1, <2>0, PublishOK
  <2>3. \A d \in Conns : base[d] <= revision /\ base[d] \in 0 .. MaxRevision
    BY DEF WorkInv
  <2>4. ASSUME NEW d \in Conns
        PROVE  pc'[d] \in Joining \cup {"unborn", "dropped"} =>
                 pc[d] = pc'[d] /\ base'[d] = base[d]
    BY <1>6 DEF CommitRefresh, Rest
  <2>5. UNCHANGED <<by, current>>
    BY <1>6 DEF CommitRefresh
  <2>6. ASSUME NEW d \in Conns, pc'[d] \in Joining \cup {"unborn", "dropped"}
        PROVE  \A g \in Generations : lease'[g] # d
    <3>1. \A g \in Generations : lease[g] # d
      BY <2>4, <2>6
    <3> QED
      BY <3>1, <2>1, <2>2
  <2>7. ASSUME NEW d \in Conns, pc'[d] \in {"prepared", "ready"}
        PROVE  IF by'[d] = "owner" THEN base'[d] = 0
                                   ELSE base'[d] # 0 /\ lease'[base'[d]] = current'
    <3>1. pc[d] = pc'[d] /\ base'[d] = base[d]
      BY <2>4, <2>7
    <3>2. base[d] # 0 => lease'[base[d]] = lease[base[d]]
      BY <2>2, <2>3
    <3> QED
      BY <3>1, <3>2, <2>5, <2>7
  <2> QED
    BY <2>6, <2>7
<1>7. ASSUME NEW w \in Workers, LostRefresh(w)
      PROVE  NewInv'
  BY <1>7 DEF LostRefresh, Rest, AfterFailure
<1>8. ASSUME NEW c \in Conns, WatcherInvalidates(c)
      PROVE  NewInv'
  BY <1>8 DEF WatcherInvalidates, Invalidate
<1>9. ASSUME NEW c \in Conns, WatcherStops(c)
      PROVE  NewInv'
  BY <1>9 DEF WatcherStops, Rest
<1>10. ASSUME NEW c \in Conns, Terminate(c)
      PROVE  NewInv'
  BY <1>10 DEF Terminate, Terminated
<1>11. ASSUME NEW c \in Conns, FinishTermination(c)
      PROVE  NewInv'
  BY <1>11 DEF FinishTermination, Invalidate
<1>12. ASSUME NEW c \in Conns, Exit(c)
      PROVE  NewInv'
  BY <1>12 DEF Exit
<1>13. ASSUME NEW c \in Conns, Mount(c)
      PROVE  NewInv'
  BY <1>13 DEF Mount
<1>14. ASSUME OwnerInvalidates
      PROVE  NewInv'
  BY <1>14 DEF OwnerInvalidates, Invalidate
<1>15. ASSUME Remove
      PROVE  NewInv'
  BY <1>15 DEF Remove
<1>16. ASSUME Stop
      PROVE  NewInv'
  BY <1>16 DEF Stop
<1>17. ASSUME OtherCommit
      PROVE  NewInv'
  BY <1>17 DEF OtherCommit
<1>18. ASSUME SeeExit
      PROVE  NewInv'
  BY <1>18 DEF SeeExit, Closed, Retry, GiveUp
<1>19. ASSUME BackoffEnds
      PROVE  NewInv'
  BY <1>19 DEF BackoffEnds, GiveUp
<1>20. ASSUME LaunchFails
      PROVE  NewInv'
  BY <1>20 DEF LaunchFails, Retry, GiveUp
<1>21. ASSUME NEW c \in Conns, Launched(c)
      PROVE  NewInv'
  BY <1>21 DEF Launched
<1>22. ASSUME SupervisorStops
      PROVE  NewInv'
  BY <1>22 DEF SupervisorStops, GiveUp
<1>23. ASSUME NEW c \in Conns, Prepare(c)
      PROVE  NewInv'
  BY <1>23 DEF Prepare, Vacant, Holds
<1>24. ASSUME NEW c \in Conns, Ready(c)
      PROVE  NewInv'
  BY <1>24 DEF Ready
<1>25. ASSUME NEW c \in Conns, Join(c)
      PROVE  NewInv'
  <2>1. Publish(c) /\ revision < MaxRevision /\ epochOver' \in SUBSET Generations
    BY <1>25, TypeStep DEF Join, Admissible, Unchanged, WorkInv
  <2>2. /\ lease'[slot'] = c
        /\ \A g \in Generations : g # slot' => lease'[g] = lease[g]
        /\ slot' = revision + 1 /\ revision \in Nat
    BY <2>1, PublishOK
  <2>3. \A d \in Conns : base[d] <= revision /\ base[d] \in 0 .. MaxRevision
    BY DEF WorkInv
  <2>4. /\ pc'[c] = "watching"
        /\ \A d \in Conns : d # c => pc'[d] = pc[d] /\ base'[d] = base[d]
    BY <1>25 DEF Join, Rest
  <2>5. /\ by' = by
        /\ \A d \in Conns : d # c /\ Joins(d) => current' = current
    BY <1>25 DEF Join, SupInv, Joins
  <2>6. ASSUME NEW d \in Conns, pc'[d] \in Joining \cup {"unborn", "dropped"}
        PROVE  \A g \in Generations : lease'[g] # d
    <3>1. d # c /\ \A g \in Generations : lease[g] # d
      BY <2>4, <2>6
    <3> QED
      BY <3>1, <2>2
  <2>7. ASSUME NEW d \in Conns, pc'[d] \in {"prepared", "ready"}
        PROVE  IF by'[d] = "owner" THEN base'[d] = 0
                                   ELSE base'[d] # 0 /\ lease'[base'[d]] = current'
    <3>1. d # c /\ pc[d] = pc'[d] /\ base'[d] = base[d]
      BY <2>4, <2>7
    <3>2. base[d] # 0 => lease'[base[d]] = lease[base[d]]
      BY <2>2, <2>3
    <3>3. by[d] # "owner" => current' = current
      BY <3>1, <2>5, <2>7 DEF Joins
    <3> QED
      BY <3>1, <3>2, <3>3, <2>5, <2>7
  <2> QED
    BY <2>6, <2>7
<1>26. ASSUME NEW c \in Conns, RejectJoin(c)
      PROVE  NewInv'
  BY <1>26 DEF RejectJoin, Dropped, Rest, Retry, GiveUp
<1>27. ASSUME NEW c \in Conns, LoseJoin(c)
      PROVE  NewInv'
  BY <1>27 DEF LoseJoin, Dropped, Rest, GiveUp
<1>28. ASSUME NEW x \in Users, Resolve(x)
      PROVE  NewInv'
  BY <1>28 DEF Resolve
<1>29. ASSUME NEW x \in Users, Return(x)
      PROVE  NewInv'
  BY <1>29 DEF Return, Ended
<1>30. ASSUME NEW x \in Users, Revoke(x)
      PROVE  NewInv'
  BY <1>30 DEF Revoke, Ended
<1>31. ASSUME NEW c \in Conns, Condemn(c)
      PROVE  NewInv'
  BY <1>31 DEF Condemn
<1>32. ASSUME NEW c \in Conns, Close(c)
      PROVE  NewInv'
  BY <1>32 DEF Close
<1>33. ASSUME NEW c \in Conns, LaunchDropped(c)
      PROVE  NewInv'
  BY <1>33 DEF LaunchDropped, Dropped, Rest, Retry, GiveUp
<1>34. CASE UNCHANGED vars
  BY <1>34 DEF vars
<1> HIDE DEF IInv, TypeOK, NewInv, Generations, catalogue, child, scopes, work, supervisor, Joining
<1> QED
  BY <1>1, <1>2, <1>3, <1>4, <1>5, <1>6, <1>7, <1>8, <1>9, <1>10, <1>11,
     <1>12, <1>13, <1>14, <1>15, <1>16, <1>17, <1>18, <1>19, <1>20, <1>21,
     <1>22, <1>23, <1>24, <1>25, <1>26, <1>27, <1>28, <1>29, <1>30, <1>31, <1>32, <1>33, <1>34
  DEF Next, DaemonNext, OwnerNext, WatcherStep, WorkerStep, JoinStep, SupStep, Workers

\* The supervisor and the connections it launches stay in step.
LEMMA SupervisorStep == IInv /\ [Next]_vars => SupInv'
<1> SUFFICES ASSUME IInv, [Next]_vars
             PROVE  SupInv'
  OBVIOUS
<1> USE ConnsAssumption
    DEF IInv, TypeOK, SupInv, Workers, catalogue, child, scopes, work, supervisor, Joining, Joins, Supervised
<1>1. ASSUME NEW w \in Workers, NEW h \in BOOLEAN, BeginRefresh(w, h)
      PROVE  SupInv'
  BY <1>1 DEF BeginRefresh, Refreshable
<1>2. ASSUME NEW c \in Conns, RefusedRefresh(c)
      PROVE  SupInv'
  BY <1>2 DEF RefusedRefresh
<1>3. ASSUME NEW w \in Workers, BadRefresh(w)
      PROVE  SupInv'
  BY <1>3 DEF BadRefresh, Invalidate, Rest, AfterFailure
<1>4. ASSUME NEW w \in Workers, Candidate(w)
      PROVE  SupInv'
  BY <1>4 DEF Candidate
<1>5. ASSUME NEW w \in Workers, Validated(w)
      PROVE  SupInv'
  BY <1>5 DEF Validated
<1>6. ASSUME NEW w \in Workers, CommitRefresh(w)
      PROVE  SupInv'
  BY <1>6 DEF CommitRefresh, Unchanged, Publish, Target, Rest
<1>7. ASSUME NEW w \in Workers, LostRefresh(w)
      PROVE  SupInv'
  BY <1>7 DEF LostRefresh, Rest, AfterFailure
<1>8. ASSUME NEW c \in Conns, WatcherInvalidates(c)
      PROVE  SupInv'
  BY <1>8 DEF WatcherInvalidates, Invalidate
<1>9. ASSUME NEW c \in Conns, WatcherStops(c)
      PROVE  SupInv'
  BY <1>9 DEF WatcherStops, Rest
<1>10. ASSUME NEW c \in Conns, Terminate(c)
      PROVE  SupInv'
  BY <1>10 DEF Terminate, Terminated
<1>11. ASSUME NEW c \in Conns, FinishTermination(c)
      PROVE  SupInv'
  BY <1>11 DEF FinishTermination, Invalidate
<1>12. ASSUME NEW c \in Conns, Exit(c)
      PROVE  SupInv'
  BY <1>12 DEF Exit
<1>13. ASSUME NEW c \in Conns, Mount(c)
      PROVE  SupInv'
  BY <1>13 DEF Mount
<1>14. ASSUME OwnerInvalidates
      PROVE  SupInv'
  BY <1>14 DEF OwnerInvalidates, Invalidate
<1>15. ASSUME Remove
      PROVE  SupInv'
  BY <1>15 DEF Remove
<1>16. ASSUME Stop
      PROVE  SupInv'
  BY <1>16 DEF Stop
<1>17. ASSUME OtherCommit
      PROVE  SupInv'
  BY <1>17 DEF OtherCommit
<1>18. ASSUME SeeExit
      PROVE  SupInv'
  <2>1. CASE Retry
    BY <1>18, <2>1 DEF SeeExit, Closed, Retry
  <2>2. CASE GiveUp
    BY <1>18, <2>2 DEF SeeExit, Closed, GiveUp
  <2> QED
    BY <1>18, <2>1, <2>2 DEF SeeExit
<1>19. ASSUME BackoffEnds
      PROVE  SupInv'
  BY <1>19 DEF BackoffEnds, GiveUp
<1>20. ASSUME LaunchFails
      PROVE  SupInv'
  BY <1>20 DEF LaunchFails, Retry, GiveUp
<1>21. ASSUME NEW c \in Conns, Launched(c)
      PROVE  SupInv'
  BY <1>21 DEF Launched
<1>22. ASSUME SupervisorStops
      PROVE  SupInv'
  BY <1>22 DEF SupervisorStops, GiveUp
<1>23. ASSUME NEW c \in Conns, Prepare(c)
      PROVE  SupInv'
  BY <1>23 DEF Prepare, Vacant
<1>24. ASSUME NEW c \in Conns, Ready(c)
      PROVE  SupInv'
  BY <1>24 DEF Ready
<1>25. ASSUME NEW c \in Conns, Join(c)
      PROVE  SupInv'
  BY <1>25 DEF Join, Admissible, Unchanged, Publish, Rest
<1>26. ASSUME NEW c \in Conns, RejectJoin(c)
      PROVE  SupInv'
  BY <1>26, DoomedOK DEF RejectJoin, Dropped, Rest, Retry, GiveUp
<1>27. ASSUME NEW c \in Conns, LoseJoin(c)
      PROVE  SupInv'
  BY <1>27, DoomedOK DEF LoseJoin, Dropped, Rest, GiveUp
<1>28. ASSUME NEW x \in Users, Resolve(x)
      PROVE  SupInv'
  BY <1>28 DEF Resolve
<1>29. ASSUME NEW x \in Users, Return(x)
      PROVE  SupInv'
  BY <1>29 DEF Return, Ended
<1>30. ASSUME NEW x \in Users, Revoke(x)
      PROVE  SupInv'
  BY <1>30 DEF Revoke, Ended
<1>31. ASSUME NEW c \in Conns, Condemn(c)
      PROVE  SupInv'
  BY <1>31, DoomedOK DEF Condemn
<1>32. ASSUME NEW c \in Conns, Close(c)
      PROVE  SupInv'
  BY <1>32, DoomedOK DEF Close
<1>33. ASSUME NEW c \in Conns, LaunchDropped(c)
      PROVE  SupInv'
  BY <1>33, DoomedOK DEF LaunchDropped, Dropped, Rest, Retry, GiveUp
<1>34. CASE UNCHANGED vars
  BY <1>34 DEF vars
<1> HIDE DEF IInv, TypeOK, SupInv, Joins, Joining, Supervised, catalogue, child, scopes, work, supervisor
<1> QED
  BY <1>1, <1>2, <1>3, <1>4, <1>5, <1>6, <1>7, <1>8, <1>9, <1>10, <1>11,
     <1>12, <1>13, <1>14, <1>15, <1>16, <1>17, <1>18, <1>19, <1>20, <1>21,
     <1>22, <1>23, <1>24, <1>25, <1>26, <1>27, <1>28, <1>29, <1>30, <1>31, <1>32, <1>33, <1>34
  DEF Next, DaemonNext, OwnerNext, WatcherStep, WorkerStep, JoinStep, SupStep, Workers

\* Every step is a commit of the catalogue, an exit, or invisible there.
LEMMA CatalogStep == IInv /\ [Next]_vars => [Serial!Next]_<<revision, slot, lease, closed>>
<1> SUFFICES ASSUME IInv, [Next]_vars
             PROVE  [Serial!Next]_<<revision, slot, lease, closed>>
  OBVIOUS
<1> USE DEF IInv, TypeOK, Workers, catalogue, child, scopes, work, supervisor
<1>1. ASSUME NEW w \in Workers, NEW h \in BOOLEAN, BeginRefresh(w, h)
      PROVE  [Serial!Next]_<<revision, slot, lease, closed>>
  BY <1>1 DEF BeginRefresh, Refreshable
<1>2. ASSUME NEW c \in Conns, RefusedRefresh(c)
      PROVE  [Serial!Next]_<<revision, slot, lease, closed>>
  BY <1>2 DEF RefusedRefresh
<1>3. ASSUME NEW w \in Workers, BadRefresh(w)
      PROVE  [Serial!Next]_<<revision, slot, lease, closed>>
  BY <1>3 DEF BadRefresh, Invalidate, Serial!Next, Serial!Touch, Serial!NextRevision
<1>4. ASSUME NEW w \in Workers, Candidate(w)
      PROVE  [Serial!Next]_<<revision, slot, lease, closed>>
  BY <1>4 DEF Candidate
<1>5. ASSUME NEW w \in Workers, Validated(w)
      PROVE  [Serial!Next]_<<revision, slot, lease, closed>>
  BY <1>5 DEF Validated
<1>6. ASSUME NEW w \in Workers, CommitRefresh(w)
      PROVE  [Serial!Next]_<<revision, slot, lease, closed>>
  <2>1. revision < MaxRevision /\ slot # 0 /\ Publish(lease[slot]) /\ UNCHANGED closed
    BY <1>6 DEF CommitRefresh, Unchanged, Target, WorkInv, Refreshing
  <2> QED
    BY <2>1 DEF Publish, Serial!Next, Serial!Refresh, Serial!Publish, Serial!NextRevision
<1>7. ASSUME NEW w \in Workers, LostRefresh(w)
      PROVE  [Serial!Next]_<<revision, slot, lease, closed>>
  BY <1>7 DEF LostRefresh, Rest, AfterFailure
<1>8. ASSUME NEW c \in Conns, WatcherInvalidates(c)
      PROVE  [Serial!Next]_<<revision, slot, lease, closed>>
  BY <1>8 DEF WatcherInvalidates, Invalidate, Serial!Next, Serial!Touch, Serial!NextRevision
<1>9. ASSUME NEW c \in Conns, WatcherStops(c)
      PROVE  [Serial!Next]_<<revision, slot, lease, closed>>
  BY <1>9 DEF WatcherStops, Rest
<1>10. ASSUME NEW c \in Conns, Terminate(c)
      PROVE  [Serial!Next]_<<revision, slot, lease, closed>>
  BY <1>10 DEF Terminate, Terminated
<1>11. ASSUME NEW c \in Conns, FinishTermination(c)
      PROVE  [Serial!Next]_<<revision, slot, lease, closed>>
  BY <1>11 DEF FinishTermination, Invalidate, Serial!Next, Serial!Touch, Serial!NextRevision
<1>12. ASSUME NEW c \in Conns, Exit(c)
      PROVE  [Serial!Next]_<<revision, slot, lease, closed>>
  BY <1>12 DEF Exit
<1>13. ASSUME NEW c \in Conns, Mount(c)
      PROVE  [Serial!Next]_<<revision, slot, lease, closed>>
  BY <1>13 DEF Mount
<1>14. ASSUME OwnerInvalidates
      PROVE  [Serial!Next]_<<revision, slot, lease, closed>>
  BY <1>14 DEF OwnerInvalidates, Invalidate, Serial!Next, Serial!Touch, Serial!NextRevision
<1>15. ASSUME Remove
      PROVE  [Serial!Next]_<<revision, slot, lease, closed>>
  BY <1>15 DEF Remove, Serial!Next, Serial!Remove, Serial!NextRevision
<1>16. ASSUME Stop
      PROVE  [Serial!Next]_<<revision, slot, lease, closed>>
  BY <1>16 DEF Stop
<1>17. ASSUME OtherCommit
      PROVE  [Serial!Next]_<<revision, slot, lease, closed>>
  BY <1>17 DEF OtherCommit, Serial!Next, Serial!Touch, Serial!NextRevision
<1>18. ASSUME SeeExit
      PROVE  [Serial!Next]_<<revision, slot, lease, closed>>
  BY <1>18 DEF SeeExit, Closed, Retry, GiveUp
<1>19. ASSUME BackoffEnds
      PROVE  [Serial!Next]_<<revision, slot, lease, closed>>
  BY <1>19 DEF BackoffEnds, GiveUp
<1>20. ASSUME LaunchFails
      PROVE  [Serial!Next]_<<revision, slot, lease, closed>>
  BY <1>20 DEF LaunchFails, Retry, GiveUp
<1>21. ASSUME NEW c \in Conns, Launched(c)
      PROVE  [Serial!Next]_<<revision, slot, lease, closed>>
  BY <1>21 DEF Launched
<1>22. ASSUME SupervisorStops
      PROVE  [Serial!Next]_<<revision, slot, lease, closed>>
  BY <1>22 DEF SupervisorStops, GiveUp
<1>23. ASSUME NEW c \in Conns, Prepare(c)
      PROVE  [Serial!Next]_<<revision, slot, lease, closed>>
  BY <1>23 DEF Prepare, Vacant
<1>24. ASSUME NEW c \in Conns, Ready(c)
      PROVE  [Serial!Next]_<<revision, slot, lease, closed>>
  BY <1>24 DEF Ready
<1>25. ASSUME NEW c \in Conns, Join(c)
      PROVE  [Serial!Next]_<<revision, slot, lease, closed>>
  <2>1. /\ revision < MaxRevision /\ Publish(c) /\ UNCHANGED closed
        /\ base[c] = slot
    BY <1>25 DEF Join, Admissible, Unchanged, WorkInv
  <2>2. Serial!Unpublished(c) /\ Serial!Publish(c)
    BY <1>25, <2>1 DEF Join, NewInv, Joining, Generations, Publish, Serial!Unpublished,
       Serial!Generations, Serial!Publish, Serial!NextRevision
  <2>3. CASE by[c] = "owner"
    BY <1>25, <2>1, <2>2, <2>3 DEF Join, NewInv, Serial!Next, Serial!Mount
  <2>4. CASE by[c] = "recovery"
    <3>1. slot # 0 /\ lease[slot] = current
      BY <1>25, <2>1, <2>4 DEF Join, NewInv
    <3>2. current \in closed
      BY <1>25, <2>4 DEF Join, SupInv, Joins, Joining
    <3> QED
      BY <2>1, <2>2, <3>1, <3>2 DEF Serial!Next, Serial!Replace
  <2> QED
    BY <2>3, <2>4
<1>26. ASSUME NEW c \in Conns, RejectJoin(c)
      PROVE  [Serial!Next]_<<revision, slot, lease, closed>>
  BY <1>26 DEF RejectJoin, Dropped
<1>27. ASSUME NEW c \in Conns, LoseJoin(c)
      PROVE  [Serial!Next]_<<revision, slot, lease, closed>>
  BY <1>27 DEF LoseJoin, Dropped
<1>28. ASSUME NEW x \in Users, Resolve(x)
      PROVE  [Serial!Next]_<<revision, slot, lease, closed>>
  BY <1>28 DEF Resolve
<1>29. ASSUME NEW x \in Users, Return(x)
      PROVE  [Serial!Next]_<<revision, slot, lease, closed>>
  BY <1>29 DEF Return, Ended
<1>30. ASSUME NEW x \in Users, Revoke(x)
      PROVE  [Serial!Next]_<<revision, slot, lease, closed>>
  BY <1>30 DEF Revoke, Ended
<1>31. ASSUME NEW c \in Conns, Condemn(c)
      PROVE  [Serial!Next]_<<revision, slot, lease, closed>>
  BY <1>31 DEF Condemn
<1>32. ASSUME NEW c \in Conns, Close(c)
      PROVE  [Serial!Next]_<<revision, slot, lease, closed>>
  BY <1>32 DEF Close, Serial!Next, Serial!Close
<1>33. ASSUME NEW c \in Conns, LaunchDropped(c)
      PROVE  [Serial!Next]_<<revision, slot, lease, closed>>
  BY <1>33 DEF LaunchDropped, Dropped
<1>34. CASE UNCHANGED vars
  BY <1>34 DEF vars
<1> HIDE DEF IInv, TypeOK, catalogue, child, scopes, work, supervisor
<1> QED
  BY <1>1, <1>2, <1>3, <1>4, <1>5, <1>6, <1>7, <1>8, <1>9, <1>10, <1>11,
     <1>12, <1>13, <1>14, <1>15, <1>16, <1>17, <1>18, <1>19, <1>20, <1>21,
     <1>22, <1>23, <1>24, <1>25, <1>26, <1>27, <1>28, <1>29, <1>30, <1>31, <1>32, <1>33, <1>34
  DEF Next, DaemonNext, OwnerNext, WatcherStep, WorkerStep, JoinStep, SupStep, Workers

-----------------------------------------------------------------------------
(* Theorems *)

LEMMA InitInv == Init => IInv
<1> SUFFICES ASSUME Init PROVE IInv
  OBVIOUS
<1> USE ConnsAssumption, BoundAssumption DEF Init, Workers, Generations
<1>1. TypeOK
  <2>1. slot = 1 /\ 1 \in Generations /\ 0 \in 0 .. MaxRevision /\ slot \in 0 .. revision
    OBVIOUS
  <2>2. lease \in [Generations -> Conns \cup {None}] /\ lease[slot] # None
    BY <2>1
  <2>3. pc \in [Workers -> {"unborn", "watching"}] /\ hard \in [Workers -> BOOLEAN]
    OBVIOUS
  <2>4. /\ base \in [Workers -> 0 .. MaxRevision] /\ expected \in [Workers -> 0 .. MaxRevision]
        /\ pin \in [Users -> 0 .. MaxRevision] /\ by \in [Conns -> {"owner"}]
    BY <2>1
  <2>5. /\ revision = 1 /\ closed = {} /\ lifeOver = {} /\ epochOver = {} /\ stopped = FALSE
        /\ sup = "supervising" /\ current = First /\ attempts = 0
    OBVIOUS
  <2>6. /\ slot \in 0 .. revision /\ revision \in Generations
        /\ slot # 0 => lease[slot] # None
    BY <2>1, <2>2
  <2>7. attempts \in 0 .. MaxAttempts /\ process \in [Conns -> {"running", "doomed", "ended"}]
    OBVIOUS
  <2> HIDE DEF Init, Generations
  <2> QED
    BY <2>2, <2>3, <2>4, <2>5, <2>6, <2>7 DEF TypeOK
<1>2. WorkInv /\ NewInv
  BY DEF WorkInv, NewInv, Refreshing, Joining
<1>3. SupInv
  BY DEF SupInv, Joins, Supervised
<1> QED
  BY <1>1, <1>2, <1>3 DEF IInv

LEMMA InvHolds == Safety => []IInv
<1>1. Init => IInv
  BY InitInv
<1>2. IInv /\ [Next]_vars => IInv'
  BY TypeStep, WorkStep, NewStep, SupervisorStep DEF IInv
<1> QED
  BY <1>1, <1>2, PTL DEF Safety

\* The types of catalogue, tokens, operations and supervisor; in particular the
\* revision never leaves its range, which is checked_add's doing.
THEOREM TypeCorrectness == Safety => []TypeOK
<1>1. IInv => TypeOK
  BY DEF IInv
<1> QED
  BY <1>1, InvHolds, PTL

\* mount, refresh, replace, remove and invalidate, each with its waits, implement
\* the serial catalogue, for any connections and any number of revisions.
THEOREM SerialCommits == Safety => CommitsAreSerial
<1>1. Init => Serial!Init
  BY DEF Init, Serial!Init, Generations, Serial!Generations
<1>2. IInv /\ [Next]_vars => [Serial!Next]_<<revision, slot, lease, closed>>
  BY CatalogStep
<1> QED
  BY <1>1, <1>2, InvHolds, PTL DEF Safety, CommitsAreSerial, Serial!Spec

\* Before a successor is launched the process has ended or is to be killed, and so is a
\* successor that is not published.
THEOREM NeverTwoProcesses == Safety => []OneIsKept
<1>1. IInv => OneIsKept
  <2> SUFFICES ASSUME IInv, NEW c \in Supervised, NEW d \in Supervised, c # d,
                      process[c] = "running", process[d] = "running"
               PROVE  FALSE
    BY DEF OneIsKept
  <2>1. c \in Conns /\ d \in Conns
    BY ConnsAssumption DEF Supervised
  <2>2. (c = current \/ Joins(c)) /\ (d = current \/ Joins(d))
    BY DEF IInv, SupInv
  <2>3. Joins(c) \/ Joins(d) => process[current] # "running"
    BY <2>1 DEF IInv, SupInv
  <2> QED
    BY <2>1, <2>2, <2>3 DEF IInv, SupInv
<1> QED
  BY <1>1, InvHolds, PTL

\* Restarts so far, and the one that is under way, are within the attempts made.
Restarted == {c \in Conns : by[c] = "recovery"}
BudgetInv == /\ IsFiniteSet(Restarted)
             /\ Cardinality(Restarted)
                  + (IF sup \in {"backoff", "launching"} THEN 1 ELSE 0) <= attempts

\* A process is launched only for an attempt that was counted.
LEMMA BudgetStep == IInv /\ BudgetInv /\ [Next]_vars => BudgetInv'
<1> SUFFICES ASSUME IInv /\ BudgetInv, [Next]_vars
             PROVE  BudgetInv'
  OBVIOUS
<1> USE DEF IInv, TypeOK, SupInv, BudgetInv, Restarted, catalogue, child, scopes, work, supervisor
<1>1. ASSUME NEW w \in Workers, NEW h \in BOOLEAN, BeginRefresh(w, h)
      PROVE  BudgetInv'
  BY <1>1 DEF BeginRefresh, Refreshable
<1>2. ASSUME NEW c \in Conns, RefusedRefresh(c)
      PROVE  BudgetInv'
  BY <1>2 DEF RefusedRefresh
<1>3. ASSUME NEW w \in Workers, BadRefresh(w)
      PROVE  BudgetInv'
  BY <1>3 DEF BadRefresh, Invalidate, Rest, AfterFailure
<1>4. ASSUME NEW w \in Workers, Candidate(w)
      PROVE  BudgetInv'
  BY <1>4 DEF Candidate
<1>5. ASSUME NEW w \in Workers, Validated(w)
      PROVE  BudgetInv'
  BY <1>5 DEF Validated
<1>6. ASSUME NEW w \in Workers, CommitRefresh(w)
      PROVE  BudgetInv'
  BY <1>6 DEF CommitRefresh, Unchanged, Publish, Target, Rest
<1>7. ASSUME NEW w \in Workers, LostRefresh(w)
      PROVE  BudgetInv'
  BY <1>7 DEF LostRefresh, Rest, AfterFailure
<1>8. ASSUME NEW c \in Conns, WatcherInvalidates(c)
      PROVE  BudgetInv'
  BY <1>8 DEF WatcherInvalidates, Invalidate
<1>9. ASSUME NEW c \in Conns, WatcherStops(c)
      PROVE  BudgetInv'
  BY <1>9 DEF WatcherStops, Rest
<1>10. ASSUME NEW c \in Conns, Terminate(c)
      PROVE  BudgetInv'
  BY <1>10 DEF Terminate, Terminated
<1>11. ASSUME NEW c \in Conns, FinishTermination(c)
      PROVE  BudgetInv'
  BY <1>11 DEF FinishTermination, Invalidate
<1>12. ASSUME NEW c \in Conns, Exit(c)
      PROVE  BudgetInv'
  BY <1>12 DEF Exit
<1>13. ASSUME NEW c \in Conns, Mount(c)
      PROVE  BudgetInv'
  <2>1. pc[c] = "unborn" /\ by[c] # "recovery"
    BY <1>13 DEF Mount
  <2>2. by' = [by EXCEPT ![c] = "owner"]
    BY <1>13 DEF Mount
  <2>3. Restarted' = Restarted
    BY <2>1, <2>2
  <2> QED
    BY <1>13, <2>3 DEF Mount
<1>14. ASSUME OwnerInvalidates
      PROVE  BudgetInv'
  BY <1>14 DEF OwnerInvalidates, Invalidate
<1>15. ASSUME Remove
      PROVE  BudgetInv'
  BY <1>15 DEF Remove
<1>16. ASSUME Stop
      PROVE  BudgetInv'
  BY <1>16 DEF Stop
<1>17. ASSUME OtherCommit
      PROVE  BudgetInv'
  BY <1>17 DEF OtherCommit
<1>18. ASSUME SeeExit
      PROVE  BudgetInv'
  <2>1. Restarted' = Restarted /\ Cardinality(Restarted) \in Nat
    BY <1>18, FS_CardinalityType DEF SeeExit
  <2> HIDE DEF Restarted
  <2> QED
    BY <1>18, <2>1, BoundAssumption DEF SeeExit, Closed, Retry, GiveUp
<1>19. ASSUME BackoffEnds
      PROVE  BudgetInv'
  <2>1. Restarted' = Restarted /\ Cardinality(Restarted) \in Nat
    BY <1>19, FS_CardinalityType DEF BackoffEnds
  <2> HIDE DEF Restarted
  <2> QED
    BY <1>19, <2>1, BoundAssumption DEF BackoffEnds, GiveUp
<1>20. ASSUME LaunchFails
      PROVE  BudgetInv'
  <2>1. Restarted' = Restarted /\ Cardinality(Restarted) \in Nat
    BY <1>20, FS_CardinalityType DEF LaunchFails
  <2> HIDE DEF Restarted
  <2> QED
    BY <1>20, <2>1, BoundAssumption DEF LaunchFails, Retry, GiveUp
<1>21. ASSUME NEW c \in Conns, Launched(c)
      PROVE  BudgetInv'
  <2>1. by[c] # "recovery" /\ Restarted' = Restarted \cup {c} /\ c \notin Restarted
    BY <1>21 DEF Launched
  <2>2. /\ IsFiniteSet(Restarted)
        /\ Cardinality(Restarted) + 1 <= attempts
    BY <1>21 DEF Launched
  <2>3. /\ IsFiniteSet(Restarted')
        /\ Cardinality(Restarted') = Cardinality(Restarted) + 1
    <3> HIDE DEF Restarted
    <3> QED
      BY <2>1, <2>2, FS_AddElement
  <2>4. sup' = "publishing" /\ attempts' = attempts
    BY <1>21 DEF Launched
  <2> HIDE DEF Restarted
  <2>5. Cardinality(Restarted) \in Nat
    BY <2>2, FS_CardinalityType
  <2> QED
    BY <2>2, <2>3, <2>4, <2>5
<1>22. ASSUME SupervisorStops
      PROVE  BudgetInv'
  <2>1. Restarted' = Restarted /\ Cardinality(Restarted) \in Nat
    BY <1>22, FS_CardinalityType DEF SupervisorStops
  <2> HIDE DEF Restarted
  <2> QED
    BY <1>22, <2>1, BoundAssumption DEF SupervisorStops, GiveUp
<1>23. ASSUME NEW c \in Conns, Prepare(c)
      PROVE  BudgetInv'
  BY <1>23 DEF Prepare, Vacant
<1>24. ASSUME NEW c \in Conns, Ready(c)
      PROVE  BudgetInv'
  BY <1>24 DEF Ready
<1>25. ASSUME NEW c \in Conns, Join(c)
      PROVE  BudgetInv'
  <2>1. Restarted' = Restarted /\ Cardinality(Restarted) \in Nat
    BY <1>25, FS_CardinalityType DEF Join
  <2> HIDE DEF Restarted
  <2> QED
    BY <1>25, <2>1, BoundAssumption DEF Join, Admissible, Unchanged, Publish, Rest
<1>26. ASSUME NEW c \in Conns, RejectJoin(c)
      PROVE  BudgetInv'
  <2>1. Restarted' = Restarted /\ Cardinality(Restarted) \in Nat
    BY <1>26, FS_CardinalityType DEF RejectJoin, Dropped, Rest
  <2> HIDE DEF Restarted
  <2> QED
    BY <1>26, <2>1, BoundAssumption DEF RejectJoin, Dropped, Rest, Retry, GiveUp
<1>27. ASSUME NEW c \in Conns, LoseJoin(c)
      PROVE  BudgetInv'
  <2>1. Restarted' = Restarted /\ Cardinality(Restarted) \in Nat
    BY <1>27, FS_CardinalityType DEF LoseJoin, Dropped, Rest
  <2> HIDE DEF Restarted
  <2> QED
    BY <1>27, <2>1, BoundAssumption DEF LoseJoin, Dropped, Rest, GiveUp
<1>28. ASSUME NEW x \in Users, Resolve(x)
      PROVE  BudgetInv'
  BY <1>28 DEF Resolve
<1>29. ASSUME NEW x \in Users, Return(x)
      PROVE  BudgetInv'
  BY <1>29 DEF Return, Ended
<1>30. ASSUME NEW x \in Users, Revoke(x)
      PROVE  BudgetInv'
  BY <1>30 DEF Revoke, Ended
<1>31. ASSUME NEW c \in Conns, Condemn(c)
      PROVE  BudgetInv'
  BY <1>31 DEF Condemn
<1>32. ASSUME NEW c \in Conns, Close(c)
      PROVE  BudgetInv'
  BY <1>32 DEF Close
<1>33. ASSUME NEW c \in Conns, LaunchDropped(c)
      PROVE  BudgetInv'
  <2>1. by[c] # "recovery" /\ Restarted' = Restarted \cup {c} /\ c \notin Restarted
    BY <1>33 DEF LaunchDropped
  <2>2. /\ IsFiniteSet(Restarted)
        /\ Cardinality(Restarted) + 1 <= attempts
    BY <1>33 DEF LaunchDropped
  <2>3. /\ IsFiniteSet(Restarted')
        /\ Cardinality(Restarted') = Cardinality(Restarted) + 1
    <3> HIDE DEF Restarted
    <3> QED
      BY <2>1, <2>2, FS_AddElement
  <2> HIDE DEF Restarted
  <2>4. Cardinality(Restarted) \in Nat
    BY <2>2, FS_CardinalityType
  <2> QED
    BY <1>33, <2>2, <2>3, <2>4, BoundAssumption DEF LaunchDropped, Retry, GiveUp
<1>34. CASE UNCHANGED vars
  BY <1>34 DEF vars
<1> HIDE DEF IInv, TypeOK, SupInv, BudgetInv, Restarted
<1> QED
  BY <1>1, <1>2, <1>3, <1>4, <1>5, <1>6, <1>7, <1>8, <1>9, <1>10, <1>11,
     <1>12, <1>13, <1>14, <1>15, <1>16, <1>17, <1>18, <1>19, <1>20, <1>21,
     <1>22, <1>23, <1>24, <1>25, <1>26, <1>27, <1>28, <1>29, <1>30, <1>31, <1>32, <1>33, <1>34
  DEF Next, DaemonNext, OwnerNext, WatcherStep, WorkerStep, JoinStep, SupStep, Workers

\* attempts is never reset: the budget is one for the broker's lifetime, however
\* many restarts succeed.
THEOREM RestartsAreBounded == Safety => []BoundedRecovery
<1>1. Init => BudgetInv
  <2> SUFFICES ASSUME Init PROVE BudgetInv
    OBVIOUS
  <2>1. Restarted = {}
    BY DEF Init, Restarted
  <2> QED
    BY <2>1, FS_EmptySet DEF Init, BudgetInv
<1>2. IInv /\ BudgetInv => BoundedRecovery
  <2> SUFFICES ASSUME IInv, BudgetInv PROVE BoundedRecovery
    OBVIOUS
  <2>1. Cardinality(Restarted) \in Nat
    BY FS_CardinalityType DEF BudgetInv
  <2>2. attempts \in Nat /\ attempts <= MaxAttempts
    BY BoundAssumption DEF IInv, TypeOK
  <2> QED
    BY <2>1, <2>2, BoundAssumption DEF BudgetInv, BoundedRecovery, Restarted
<1> QED
  BY <1>1, <1>2, BudgetStep, InvHolds, PTL DEF Safety

\* However launches, publications, exits and broken pipes mix, no process started for
\* another is left without being told to end, and the budget holds (recovery.rs supervise,
\* driver-host lib.rs).
THEOREM OrderlyRestarts == Safety => []RestartsAreOrderly
BY NeverTwoProcesses, RestartsAreBounded, PTL DEF RestartsAreOrderly

\* In the daemon only a connection's own watcher refreshes it, and whatever else
\* cancels the epoch it started from has ended the connection.
DownInv == /\ pc[Owner] = "watching"
           /\ \A c \in Conns : pc[c] \in Refreshing =>
                /\ lease[base[c]] = c
                /\ base[c] \in epochOver => LifeOver(c)

\* A watcher never refreshes a generation whose epoch is over and whose connection
\* might be alive.
LEMMA DownStep == IInv /\ DownInv /\ [DaemonNext]_vars => DownInv'
<1> SUFFICES ASSUME IInv /\ DownInv, [DaemonNext]_vars
             PROVE  DownInv'
  OBVIOUS
<1> USE ConnsAssumption, BoundAssumption DEF DownInv, LifeOver, IInv, TypeOK, catalogue, child, scopes, work, supervisor, Workers, Generations, Refreshing, Holds
<1>1. ASSUME NEW w \in Conns, NEW h \in BOOLEAN, BeginRefresh(w, h)
      PROVE  DownInv'
  BY <1>1 DEF BeginRefresh, Refreshable, Active
<1>2. ASSUME NEW c \in Conns, RefusedRefresh(c)
      PROVE  DownInv'
  BY <1>2 DEF RefusedRefresh
<1>3. ASSUME NEW w \in Conns, BadRefresh(w)
      PROVE  DownInv'
  <2>1. \A g \in epochOver' \ epochOver : lease[g] = lease[base[w]] /\ lease[base[w]] = w
    <3>1. lease[base[w]] = w
      BY <1>3 DEF BadRefresh
    <3>2. Invalidate(w) /\ UNCHANGED <<slot, lease>>
      BY <1>3, <3>1 DEF BadRefresh, Target
    <3>3. \A g \in epochOver' \ epochOver : g = slot /\ lease[slot] = w
      BY <3>2, InvalidateOK
    <3> QED
      BY <3>1, <3>3
  <2>2. \A d \in Conns : pc'[d] \in Refreshing => d # w /\ pc[d] = pc'[d] /\ base'[d] = base[d]
    BY <1>3 DEF BadRefresh, Rest, AfterFailure
  <2>3. pc'[Owner] = pc[Owner] /\ UNCHANGED <<lease, lifeOver, stopped>>
    BY <1>3 DEF BadRefresh, Rest
  <2> QED
    BY <2>1, <2>2, <2>3
<1>4. ASSUME NEW w \in Conns, Candidate(w)
      PROVE  DownInv'
  BY <1>4 DEF Candidate
<1>5. ASSUME NEW w \in Conns, Validated(w)
      PROVE  DownInv'
  BY <1>5 DEF Validated
<1>6. ASSUME NEW w \in Conns, CommitRefresh(w)
      PROVE  DownInv'
  <2>1. /\ Publish(lease[slot]) /\ lease[slot] \in Conns /\ revision < MaxRevision
        /\ slot \in Generations /\ base[w] = slot
    BY <1>6 DEF CommitRefresh, Unchanged, Target, WorkInv
  <2>2. epochOver' \in SUBSET Generations /\ epochOver' \subseteq epochOver \cup {base[w]}
    BY <1>6, <2>1 DEF CommitRefresh
  <2>3. /\ \A g \in Generations : g # slot' => lease'[g] = lease[g]
        /\ slot' = revision + 1 /\ revision \in Nat
    BY <2>1, <2>2, PublishOK
  <2>4. \A d \in Conns : base[d] <= revision /\ base[d] \in 0 .. MaxRevision
    BY DEF WorkInv
  <2>5. \A d \in Conns : pc'[d] \in Refreshing => d # w /\ pc[d] = pc'[d] /\ base'[d] = base[d]
    BY <1>6 DEF CommitRefresh, Rest
  <2>6. pc'[Owner] = pc[Owner] /\ UNCHANGED <<lifeOver, stopped>>
    BY <1>6 DEF CommitRefresh, Rest
  <2>7. ASSUME NEW d \in Conns, pc'[d] \in Refreshing
        PROVE  lease'[base'[d]] = d /\ (base'[d] \in epochOver' => LifeOver(d)')
    <3>1. d # w /\ pc[d] \in Refreshing /\ base'[d] = base[d] /\ base[d] # 0
      BY <2>5, <2>7 DEF WorkInv
    <3>2. lease'[base[d]] = lease[base[d]] /\ lease[base[d]] = d
      BY <2>3, <2>4, <3>1
    <3>3. base[d] # base[w]
      BY <1>6, <3>1, <3>2 DEF CommitRefresh
    <3> QED
      BY <3>1, <3>2, <3>3, <2>2, <2>6
  <2> QED
    BY <2>6, <2>7
<1>7. ASSUME NEW w \in Conns, LostRefresh(w)
      PROVE  DownInv'
  BY <1>7 DEF LostRefresh, Rest, AfterFailure
<1>8. ASSUME NEW c \in Conns, WatcherInvalidates(c)
      PROVE  DownInv'
  BY <1>8 DEF WatcherInvalidates, Invalidate
<1>9. ASSUME NEW c \in Conns, WatcherStops(c)
      PROVE  DownInv'
  BY <1>9 DEF WatcherStops, Rest
<1>10. ASSUME NEW c \in Conns, Terminate(c)
      PROVE  DownInv'
  BY <1>10 DEF Terminate, Terminated
<1>11. ASSUME NEW c \in Conns, FinishTermination(c)
      PROVE  DownInv'
  <2>1. \A g \in epochOver' \ epochOver : lease[g] = c
    BY <1>11, InvalidateOK DEF FinishTermination
  <2>2. UNCHANGED <<lease, base, lifeOver, stopped>> /\ pc'[c] = "ended"
    BY <1>11 DEF FinishTermination
  <2>3. \A w \in Workers \ {c} : pc'[w] = pc[w]
    BY <1>11 DEF FinishTermination
  <2> QED
    BY <2>1, <2>2, <2>3
<1>12. ASSUME NEW c \in Conns, Exit(c)
      PROVE  DownInv'
  BY <1>12 DEF Exit
<1>13. ASSUME Stop
      PROVE  DownInv'
  BY <1>13 DEF Stop
<1>14. ASSUME OtherCommit
      PROVE  DownInv'
  BY <1>14 DEF OtherCommit
<1>15. ASSUME SeeExit
      PROVE  DownInv'
  BY <1>15 DEF SeeExit, Closed, Retry, GiveUp
<1>16. ASSUME BackoffEnds
      PROVE  DownInv'
  BY <1>16 DEF BackoffEnds, GiveUp
<1>17. ASSUME LaunchFails
      PROVE  DownInv'
  BY <1>17 DEF LaunchFails, Retry, GiveUp
<1>18. ASSUME NEW c \in Conns, Launched(c)
      PROVE  DownInv'
  BY <1>18 DEF Launched
<1>19. ASSUME SupervisorStops
      PROVE  DownInv'
  BY <1>19 DEF SupervisorStops, GiveUp
<1>20. ASSUME NEW c \in Conns, Prepare(c)
      PROVE  DownInv'
  BY <1>20 DEF Prepare, Vacant
<1>21. ASSUME NEW c \in Conns, Ready(c)
      PROVE  DownInv'
  BY <1>21 DEF Ready
<1>22. ASSUME NEW c \in Conns, Join(c)
      PROVE  DownInv'
  <2>1. Publish(c) /\ revision < MaxRevision /\ base[c] = slot
    BY <1>22 DEF Join, Admissible, Unchanged, WorkInv
  <2>2. by[c] = "recovery" => slot \in Generations /\ lease[slot] \in Conns
    BY <1>22, <2>1 DEF Join, NewInv
  <2>3. /\ epochOver' \in SUBSET Generations
        /\ epochOver' \subseteq epochOver \cup {slot}
        /\ slot \in epochOver' => slot \in epochOver \/ lease[slot] \in lifeOver'
        /\ lifeOver \subseteq lifeOver' /\ stopped' = stopped
    <3>1. CASE by[c] = "recovery"
      <4>1. /\ epochOver' = epochOver \cup {slot}
            /\ lifeOver' = lifeOver \cup {lease[slot]} /\ stopped' = stopped
        BY <1>22, <2>1, <3>1 DEF Join
      <4> QED
        BY <4>1, <2>2, <3>1
    <3>2. CASE by[c] # "recovery"
      BY <1>22, <3>2 DEF Join
    <3> QED
      BY <3>1, <3>2
  <2>4. /\ \A g \in Generations : g # slot' => lease'[g] = lease[g]
        /\ slot' = revision + 1 /\ revision \in Nat
    BY <2>1, <2>3, PublishOK
  <2>5. \A d \in Conns : base[d] <= revision /\ base[d] \in 0 .. MaxRevision
    BY DEF WorkInv
  <2>6. \A d \in Conns : pc'[d] \in Refreshing => d # c /\ pc[d] = pc'[d] /\ base'[d] = base[d]
    BY <1>22 DEF Join, Rest
  <2>7. pc'[Owner] = pc[Owner]
    BY <1>22 DEF Join, Rest
  <2>8. ASSUME NEW d \in Conns, pc'[d] \in Refreshing
        PROVE  lease'[base'[d]] = d /\ (base'[d] \in epochOver' => LifeOver(d)')
    <3>1. pc[d] \in Refreshing /\ base'[d] = base[d] /\ base[d] # 0
      BY <2>6, <2>8 DEF WorkInv
    <3>2. lease'[base[d]] = lease[base[d]] /\ lease[base[d]] = d
      BY <2>4, <2>5, <3>1
    <3> QED
      BY <3>1, <3>2, <2>3
  <2> QED
    BY <2>7, <2>8
<1>23. ASSUME NEW c \in Conns, RejectJoin(c)
      PROVE  DownInv'
  BY <1>23 DEF RejectJoin, Dropped, Rest, Retry, GiveUp
<1>24. ASSUME NEW c \in Conns, LoseJoin(c)
      PROVE  DownInv'
  BY <1>24 DEF LoseJoin, Dropped, Rest, GiveUp
<1>25. ASSUME NEW x \in Users, Resolve(x)
      PROVE  DownInv'
  BY <1>25 DEF Resolve
<1>26. ASSUME NEW x \in Users, Return(x)
      PROVE  DownInv'
  BY <1>26 DEF Return, Ended
<1>27. ASSUME NEW x \in Users, Revoke(x)
      PROVE  DownInv'
  BY <1>27 DEF Revoke, Ended
<1>28. ASSUME NEW c \in Conns, Condemn(c)
      PROVE  DownInv'
  BY <1>28 DEF Condemn
<1>29. ASSUME NEW c \in Conns, Close(c)
      PROVE  DownInv'
  BY <1>29 DEF Close
<1>30. ASSUME NEW c \in Conns, LaunchDropped(c)
      PROVE  DownInv'
  BY <1>30 DEF LaunchDropped, Dropped, Rest, Retry, GiveUp
<1>31. CASE UNCHANGED vars
  BY <1>31 DEF vars
<1> HIDE DEF DownInv, IInv, TypeOK
<1> QED
  BY <1>1, <1>2, <1>3, <1>4, <1>5, <1>6, <1>7, <1>8, <1>9, <1>10, <1>11,
     <1>12, <1>13, <1>14, <1>15, <1>16, <1>17, <1>18, <1>19, <1>20, <1>21,
     <1>22, <1>23, <1>24, <1>25, <1>26, <1>27, <1>28, <1>29, <1>30, <1>31
  DEF DaemonNext, WatcherStep, WorkerStep, JoinStep, SupStep

\* In a step of the daemon what is over stays over, and the slot changes only when
\* a refresh or a new connection is published.
MovesOn ==
  /\ closed \subseteq closed' /\ lifeOver \subseteq lifeOver' /\ epochOver \subseteq epochOver'
  /\ stopped => stopped'
  /\ \/ UNCHANGED <<slot, lease>>
     \/ \E w \in Conns : CommitRefresh(w)
     \/ \E c \in Conns : Join(c)

\* Every step of the daemon moves on in that way.
LEMMA Forward == IInv /\ [DaemonNext]_vars => MovesOn
<1> SUFFICES ASSUME IInv, [DaemonNext]_vars
             PROVE  MovesOn
  OBVIOUS
<1> USE DEF MovesOn, catalogue, child, scopes, work, supervisor
<1>1. ASSUME NEW w \in Conns, NEW h \in BOOLEAN, BeginRefresh(w, h)
      PROVE  MovesOn
  BY <1>1 DEF BeginRefresh, Refreshable
<1>2. ASSUME NEW c \in Conns, RefusedRefresh(c)
      PROVE  MovesOn
  BY <1>2 DEF RefusedRefresh
<1>3. ASSUME NEW w \in Conns, BadRefresh(w)
      PROVE  MovesOn
  BY <1>3 DEF BadRefresh, Invalidate
<1>4. ASSUME NEW w \in Conns, Candidate(w)
      PROVE  MovesOn
  BY <1>4 DEF Candidate
<1>5. ASSUME NEW w \in Conns, Validated(w)
      PROVE  MovesOn
  BY <1>5 DEF Validated
<1>6. ASSUME NEW w \in Conns, CommitRefresh(w)
      PROVE  MovesOn
  BY <1>6 DEF CommitRefresh
<1>7. ASSUME NEW w \in Conns, LostRefresh(w)
      PROVE  MovesOn
  BY <1>7 DEF LostRefresh, Rest, AfterFailure
<1>8. ASSUME NEW c \in Conns, WatcherInvalidates(c)
      PROVE  MovesOn
  BY <1>8 DEF WatcherInvalidates, Invalidate
<1>9. ASSUME NEW c \in Conns, WatcherStops(c)
      PROVE  MovesOn
  BY <1>9 DEF WatcherStops, Rest
<1>10. ASSUME NEW c \in Conns, Terminate(c)
      PROVE  MovesOn
  BY <1>10 DEF Terminate, Terminated
<1>11. ASSUME NEW c \in Conns, FinishTermination(c)
      PROVE  MovesOn
  BY <1>11 DEF FinishTermination, Invalidate
<1>12. ASSUME NEW c \in Conns, Exit(c)
      PROVE  MovesOn
  BY <1>12 DEF Exit
<1>13. ASSUME Stop
      PROVE  MovesOn
  BY <1>13 DEF Stop
<1>14. ASSUME OtherCommit
      PROVE  MovesOn
  BY <1>14 DEF OtherCommit
<1>15. ASSUME SeeExit
      PROVE  MovesOn
  BY <1>15 DEF SeeExit, Closed, Retry, GiveUp
<1>16. ASSUME BackoffEnds
      PROVE  MovesOn
  BY <1>16 DEF BackoffEnds, GiveUp
<1>17. ASSUME LaunchFails
      PROVE  MovesOn
  BY <1>17 DEF LaunchFails, Retry, GiveUp
<1>18. ASSUME NEW c \in Conns, Launched(c)
      PROVE  MovesOn
  BY <1>18 DEF Launched
<1>19. ASSUME SupervisorStops
      PROVE  MovesOn
  BY <1>19 DEF SupervisorStops, GiveUp
<1>20. ASSUME NEW c \in Conns, Prepare(c)
      PROVE  MovesOn
  BY <1>20 DEF Prepare, Vacant
<1>21. ASSUME NEW c \in Conns, Ready(c)
      PROVE  MovesOn
  BY <1>21 DEF Ready
<1>22. ASSUME NEW c \in Conns, Join(c)
      PROVE  MovesOn
  BY <1>22 DEF Join
<1>23. ASSUME NEW c \in Conns, RejectJoin(c)
      PROVE  MovesOn
  BY <1>23 DEF RejectJoin, Dropped, Rest, Retry, GiveUp
<1>24. ASSUME NEW c \in Conns, LoseJoin(c)
      PROVE  MovesOn
  BY <1>24 DEF LoseJoin, Dropped, Rest, GiveUp
<1>25. ASSUME NEW x \in Users, Resolve(x)
      PROVE  MovesOn
  BY <1>25 DEF Resolve
<1>26. ASSUME NEW x \in Users, Return(x)
      PROVE  MovesOn
  BY <1>26 DEF Return, Ended
<1>27. ASSUME NEW x \in Users, Revoke(x)
      PROVE  MovesOn
  BY <1>27 DEF Revoke, Ended
<1>28. ASSUME NEW c \in Conns, Condemn(c)
      PROVE  MovesOn
  BY <1>28 DEF Condemn
<1>29. ASSUME NEW c \in Conns, Close(c)
      PROVE  MovesOn
  BY <1>29 DEF Close
<1>30. ASSUME NEW c \in Conns, LaunchDropped(c)
      PROVE  MovesOn
  BY <1>30 DEF LaunchDropped, Dropped, Rest, Retry, GiveUp
<1>31. CASE UNCHANGED vars
  BY <1>31 DEF vars
<1> HIDE DEF MovesOn
<1> QED
  BY <1>1, <1>2, <1>3, <1>4, <1>5, <1>6, <1>7, <1>8, <1>9, <1>10, <1>11,
     <1>12, <1>13, <1>14, <1>15, <1>16, <1>17, <1>18, <1>19, <1>20, <1>21,
     <1>22, <1>23, <1>24, <1>25, <1>26, <1>27, <1>28, <1>29, <1>30, <1>31
  DEF DaemonNext, WatcherStep, WorkerStep, JoinStep, SupStep

\* Without the owner, a provider that is down comes back only as a new connection:
\* no refresh, however long it waited, brings an invalidated lease back.
THEOREM NoResurrection == Daemon => DownStaysDown
<1>1. Daemon => []IInv
  <2>1. [DaemonNext]_vars => [Next]_vars
    BY DEF Next
  <2>2. IInv /\ [DaemonNext]_vars => IInv'
    BY <2>1, TypeStep, WorkStep, NewStep, SupervisorStep DEF IInv
  <2> QED
    BY <2>2, InitInv, PTL DEF Daemon
<1>2. Daemon => []DownInv
  <2>1. Init => DownInv
    BY ConnsAssumption DEF Init, DownInv, Workers, Refreshing
  <2> QED
    BY <2>1, <1>1, DownStep, PTL DEF Daemon
<1>3. IInv /\ DownInv /\ [DaemonNext]_vars =>
        (slot # 0 /\ slot' # 0 /\ ~Active(slot) /\ Active(slot)' => lease'[slot'] # lease[slot])
  <2> SUFFICES ASSUME IInv, DownInv, [DaemonNext]_vars, slot # 0, ~Active(slot), Active(slot)'
               PROVE  lease'[slot'] # lease[slot]
    OBVIOUS
  <2>1. MovesOn
    BY Forward
  <2>2. CASE UNCHANGED <<slot, lease>>
    BY <2>1, <2>2 DEF MovesOn, Active, Alive, LifeOver
  <2>3. CASE \E c \in Conns : Join(c)
    <3>1. PICK c \in Conns : Join(c)
      BY <2>3
    <3>2. /\ Publish(c) /\ revision < MaxRevision /\ epochOver' \in SUBSET Generations
          /\ \A g \in Generations : lease[g] # c
      BY <3>1, TypeStep
         DEF Join, Admissible, Unchanged, IInv, TypeOK, WorkInv, NewInv, Joining, Workers, Next
    <3>3. lease'[slot'] = c
      BY <3>2, PublishOK DEF IInv
    <3> QED
      BY <3>2, <3>3, BoundAssumption DEF IInv, TypeOK, Generations
  <2>4. CASE \E w \in Conns : CommitRefresh(w)
    <3>1. PICK w \in Conns : CommitRefresh(w)
      BY <2>4
    <3>2. /\ base[w] = slot /\ lease[slot] = w /\ Publish(w) /\ revision < MaxRevision
          /\ slot \in epochOver => LifeOver(w)
      BY <3>1 DEF CommitRefresh, Unchanged, Target, DownInv, Refreshing, IInv, TypeOK, WorkInv,
                  Workers
    <3>3. ~Alive(w)
      BY <3>2 DEF Active, Alive
    <3>4. ~Alive(w)'
      BY <3>3, <2>1 DEF MovesOn, Alive, LifeOver
    <3>5. epochOver' \in SUBSET Generations
      BY <2>1, TypeStep DEF IInv, TypeOK, Next
    <3>6. lease'[slot'] = w
      BY <3>2, <3>5, PublishOK DEF IInv
    <3> QED
      BY <3>4, <3>6 DEF Active, Alive, LifeOver
  <2> QED
    BY <2>1, <2>2, <2>3, <2>4 DEF MovesOn
<1> QED
  BY <1>1, <1>2, <1>3, PTL DEF Daemon, DownStaysDown
=============================================================================
