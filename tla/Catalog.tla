------------------------------- MODULE Catalog ------------------------------
(***************************************************************************)
(* What the provider catalogue promises (crates/core/src/providers.rs,     *)
(* "The registry and provider leases commit together"): the slot of one    *)
(* provider changes by whole commits, one after the other, each under a    *)
(* new revision, whatever enumerations, validations and restarts go on     *)
(* at the same time.  Nothing comes back after it was removed, and a       *)
(* provider is replaced only by its owner or after its connection closed.  *)
(***************************************************************************)
EXTENDS Integers

CONSTANTS Conns, None, First, MaxRevision

VARIABLES revision,  \* revision of the catalogue
          slot,      \* generation of the lease in the provider's slot, 0 if none
          lease,     \* the connection behind each generation
          closed     \* connections whose close token is cancelled

Generations == 1 .. MaxRevision

Unpublished(c) == \A g \in Generations : lease[g] # c

Init == /\ revision = 1
        /\ slot = 1
        /\ lease = [g \in Generations |-> IF g = 1 THEN First ELSE None]
        /\ closed = {}

NextRevision == revision < MaxRevision /\ revision' = revision + 1

Publish(c) == /\ NextRevision
              /\ slot' = revision + 1
              /\ lease' = [lease EXCEPT ![revision + 1] = c]

\* The owner registers a new connection; the connection offers other capabilities;
\* a new connection replaces one that closed.
Mount(c)   == slot = 0 /\ Unpublished(c) /\ Publish(c) /\ UNCHANGED closed
Refresh    == slot # 0 /\ Publish(lease[slot]) /\ UNCHANGED closed
Replace(c) == /\ slot # 0 /\ lease[slot] \in closed
              /\ Unpublished(c) /\ Publish(c) /\ UNCHANGED closed
Remove     == slot # 0 /\ slot' = 0 /\ NextRevision /\ UNCHANGED <<lease, closed>>

\* Anything else in the catalogue changes.
Touch   == NextRevision /\ UNCHANGED <<slot, lease, closed>>
Close(c) == closed' = closed \cup {c} /\ UNCHANGED <<revision, slot, lease>>

Next == \/ \E c \in Conns : Mount(c) \/ Replace(c) \/ Close(c)
        \/ Refresh \/ Remove \/ Touch

Spec == Init /\ [][Next]_<<revision, slot, lease, closed>>
=============================================================================
