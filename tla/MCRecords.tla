----------------------------- MODULE MCRecords ------------------------------
(***************************************************************************)
(* Three records of what happened elsewhere: the broker's event history in *)
(* memory (Events), which a restart loses, its audit log on disk (Audit),  *)
(* which it must not lose, and the Figma hub's picture of a document that  *)
(* others change too (FigmaBridge).  They share no state: a behaviour is   *)
(* one of one of them, and the others stay as they began.                  *)
(***************************************************************************)
EXTENDS MCEvents, Audit, FigmaBridge

CONSTANTS
  MaxActors,    \* bound: connections and requests of the bridge together
  MaxHappened   \* bound: restarts of the broker and events of its last process together

VARIABLE part

MCInit == part \in {"events", "audit", "bridge"} /\ Init /\ AuditInit /\ BridgeInit

Opened == {c \in Conns : place[c] # "none"}
Begun  == {r \in Requests : verdict[r] # "none" \/ exec.request = r}

MCNext ==
  \/ /\ part = "events" /\ Next /\ UNCHANGED <<part, auditVars, bridgeVars>>
     /\ (Len(log) + restarts <= MaxHappened)'
  \/ part = "audit" /\ AuditNext /\ UNCHANGED <<part, vars, bridgeVars>>
  \/ /\ part = "bridge" /\ BridgeNext /\ UNCHANGED <<part, vars, auditVars>>
     /\ (Cardinality(Opened) + Cardinality(Begun) <= MaxActors)'

MCSpec == MCInit /\ [][MCNext]_<<part, vars, auditVars, bridgeVars>>
=============================================================================
