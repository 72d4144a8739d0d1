------------------------- MODULE FigmaBridgeProofs --------------------------
(***************************************************************************)
(* The Figma driver's bridge (FigmaBridge) for any number of connections,  *)
(* executions, changes and reloads: the session's entry is served by the   *)
(* connection that the plugin has open, the hub is never ahead of the      *)
(* document, and a late answer is taken for what it is.                    *)
(*                                                                         *)
(* That an entry is never taken away from a live connection rests on the   *)
(* order of generations (GenInv), which rests on the plugin having one     *)
(* socket at a time (SocketInv) and on the handshake being spoken in order *)
(* (TalkInv); and on an execution that waits being pending (WaiterInv),    *)
(* which rests on no answer preceding its request (SentInv).               *)
(*                                                                         *)
(* That a late answer is known for one rests on a request being in one     *)
(* place at a time, so that its answer comes once (OnceInv), and on the    *)
(* entry's connection remembering whatever it carried and was not answered *)
(* (MemoryInv).                                                            *)
(***************************************************************************)
EXTENDS FigmaBridge, TLAPS

-----------------------------------------------------------------------------
(* The inductive invariant. *)

Places == {"none", "hello", "challenged", "authenticated", "serving", "leaving", "broken",
           "unlisted", "cleared", "over"}
Late   == {"serving", "leaving", "broken", "unlisted", "cleared", "over"}
Passed == {"authenticated", "serving", "leaving", "broken", "unlisted", "cleared"}

Outcomes == {"unavailable", "stale", "timeout", "ok", "failed", "conflict"}
Answers  == [kind : {"response"}, request : Requests, via : Conns,
             says : {"ok", "failed", "conflict"}, revision : Nat]
Orders   == [kind : {"close"}]
            \cup [kind : {"request"}, request : Requests, guard : Nat \cup {None}]
ToPlugin == Orders \cup [kind : {"challenge", "ready", "refused"}]
ToHub    == Answers \cup [kind : {"hello", "event"}, revision : Nat]
            \cup [kind : {"proof", "goodbye"}]

Executions ==
  [at : {"free", "selecting", "selected", "entered", "waiting", "expired"},
   request : Requests \cup {None}, on : Conns \cup {None}, guard : Nat \cup {None},
   mail : Seq(Answers)]

ExecTypeOK    == exec \in Executions
VerdictTypeOK == verdict \in [Requests -> Outcomes \cup {"none"}]

ConnTypeOK == /\ place \in [Conns -> Places] /\ gen \in [Conns -> Nat]
              /\ listed \in Conns \cup {None} /\ credential \in Nat \cup {None}

WaitTypeOK == pending \in [Conns -> SUBSET Requests] /\ tombs \in [Conns -> SUBSET Requests]
SeenTypeOK == seen \in [Conns -> Nat]

QueueTypeOK    == queue \in [Conns -> Seq(Orders)]
ToPluginTypeOK == toPlugin \in [Conns -> Seq(ToPlugin)]
ToHubTypeOK    == toHub \in [Conns -> Seq(ToHub)]

JoinedTypeOK   == joined \in [Conns -> BOOLEAN]

Windows == [sock : Conns \cup {None}, active : BOOLEAN, trusted : BOOLEAN, context : Nat]

PluginTypeOK ==
  /\ ui \in Windows
  /\ revision \in Nat /\ work \in [Requests -> Conns \cup {None}] /\ reloads \in Nat

BridgeTypeOK ==
  /\ ExecTypeOK /\ VerdictTypeOK /\ ConnTypeOK /\ WaitTypeOK /\ SeenTypeOK
  /\ QueueTypeOK /\ ToPluginTypeOK /\ ToHubTypeOK
  /\ JoinedTypeOK /\ PluginTypeOK

\* The fields of the execution that its place needs.
ExecInv ==
  /\ exec.at # "free" => exec.request \in Requests /\ verdict[exec.request] = "none"
  /\ exec.at = "free" => exec.request = None
  /\ exec.at \in {"selected", "entered", "waiting", "expired"} => exec.on \in Conns
  /\ exec.on # None => place[exec.on] \in Late
  /\ exec.mail # <<>> => exec.at = "waiting" /\ exec.on \in Conns

\* The plugin has one socket, the one it opened last.
SocketInv ==
  /\ \A c \in Conns : joined[c] = (ui.sock = c)
  /\ ui.active => ui.sock # None /\ place[ui.sock] \in Late
  /\ \A c \in Conns : ui.sock = c =>
        place[c] # "none" /\ \A b \in Conns : place[b] # "none" => b <= c
  /\ \A b, c \in Conns : place[b] = "none" /\ place[c] # "none" => c < b

\* What is on the wire before a connection is ready.
TalkOK(c) ==
  /\ ~joined[c] => toPlugin[c] = <<>>
  /\ place[c] \in {"none", "hello"} => toPlugin[c] = <<>>
  /\ place[c] = "none" => toHub[c] = <<>>
  /\ place[c] = "hello" => /\ Len(toHub[c]) <= 1
                           /\ \A i \in 1 .. Len(toHub[c]) : toHub[c][i].kind = "hello"
  /\ place[c] \notin Late =>
       \A i \in 1 .. Len(toPlugin[c]) : toPlugin[c][i].kind # "ready"

TalkInv == \A c \in Conns : TalkOK(c)

\* Generations grow in the order in which connections were opened, as far as they are proved.
Proved(c) == place[c] \in Passed \/ (place[c] = "challenged" /\ toHub[c] # <<>>)

\* The credential is the latest generation that was proved.
CredentialInv == credential # None => \A c \in Conns :
  gen[c] <= credential + 1 /\ (place[c] \in Passed => gen[c] <= credential)

GenInv == \A b, c \in Conns : b < c /\ Proved(b) /\ place[c] \in Passed \cup {"challenged"} =>
  gen[b] <= gen[c] /\ (place[b] \in Passed /\ place[c] \in Passed => gen[b] < gen[c])

\* A request that is or was on the wire, and no other, may be at work or answered.
Sent(r) == verdict[r] # "none" \/ (exec.request = r /\ exec.at \in {"waiting", "expired"})
OfSent(S) == {m \in S : m.kind \in {"request", "response"} => Sent(m.request)}

SentInv == /\ queue \in [Conns -> Seq(OfSent(Orders))]
           /\ toPlugin \in [Conns -> Seq(OfSent(ToPlugin))]
           /\ toHub \in [Conns -> Seq(OfSent(ToHub))]
           /\ \A r \in Requests : work[r] # None => Sent(r)

\* The entry's task lives.
ListedInv == listed # None => place[listed] \in {"serving", "leaving", "broken"}

\* The connection that the plugin has open and the hub serves is the entry.
LatestInv == \A c \in Conns : joined[c] /\ place[c] = "serving" => listed = c

\* Who waits for an answer of the entry is among its pending requests.
WaiterInv ==
  exec.at \in {"entered", "waiting"} /\ exec.mail = <<>> /\ listed = exec.on =>
    exec.request \in pending[exec.on]

\* No revision on its way from a plugin that is there is later than the plugin's.
UpTo(v) == {m \in ToHub : m.kind \in {"hello", "event", "response"} => m.revision <= v}

RevisionInv ==
  /\ ui.context <= revision
  /\ \A c \in Conns : place[c] = "none" => seen[c] = 0
  /\ \A c \in Conns : joined[c] =>
        /\ seen[c] <= revision
        /\ toHub[c] \in Seq(UpTo(revision))
        /\ exec.on = c /\ exec.mail # <<>> => Head(exec.mail).revision <= revision

\* The executions that messages name, and whether each is named once.
Concerns(m) == m.kind \in {"request", "response"}
Named(s)    == {s[n].request : n \in {k \in DOMAIN s : Concerns(s[k])}}
Once(s)     == \A k, n \in DOMAIN s :
  Concerns(s[k]) /\ Concerns(s[n]) /\ s[k].request = s[n].request => k = n

Apart(b, c) ==
  /\ b # c => /\ Named(queue[b]) \cap Named(queue[c]) = {}
              /\ Named(toPlugin[b]) \cap Named(toPlugin[c]) = {}
              /\ Named(toHub[b]) \cap Named(toHub[c]) = {}
  /\ Named(queue[b]) \cap Named(toPlugin[c]) = {}
  /\ Named(queue[b]) \cap Named(toHub[c]) = {}
  /\ Named(toPlugin[b]) \cap Named(toHub[c]) = {}

\* A request is on its way, at work or answered, in one place.
OnceInv ==
  /\ \A c \in Conns : Once(queue[c]) /\ Once(toPlugin[c]) /\ Once(toHub[c])
  /\ \A b, c \in Conns : Apart(b, c)
  /\ \A r \in Requests, c \in Conns : work[r] # None =>
        r \notin Named(queue[c]) /\ r \notin Named(toPlugin[c]) /\ r \notin Named(toHub[c])

\* What a connection carried and has not been answered yet; an answer through another
\* connection than its request's own is not counted.
OwnAnswers(s, c) ==
  {s[n].request : n \in {k \in DOMAIN s : s[k].kind = "response" /\ s[k].via = c}}
Unanswered(c) == Named(queue[c]) \cup Named(toPlugin[c]) \cup OwnAnswers(toHub[c], c)
                 \cup {r \in Requests : work[r] = c}

\* The entry's connection knows whatever it has not been answered.
Remembered(c, r) == \/ r \in pending[c] \cup tombs[c]
                    \/ exec.at = "expired" /\ exec.request = r /\ exec.on = c

MemoryInv == \A c \in Conns : \A r \in Unanswered(c) :
  place[c] \in Late /\ (listed = c => Remembered(c, r))

BridgeInv ==
  /\ BridgeTypeOK /\ ExecInv /\ SocketInv /\ TalkInv /\ CredentialInv /\ GenInv /\ SentInv
  /\ ListedInv /\ LatestInv /\ WaiterInv /\ RevisionInv /\ OnceInv /\ MemoryInv

-----------------------------------------------------------------------------
(* The types of what is stored and sent. *)

\* What a connection's task hears is taken from its socket.
LEMMA HeardKept ==
  ASSUME ToHubTypeOK, NEW c \in Conns, Hear(c), toHub[c] # <<>>
  PROVE  ToHubTypeOK' /\ Head(toHub[c]) \in ToHub
  BY DEF ToHubTypeOK, Hear

\* The updates of an execution.
LEMMA ExecutionChanged ==
  ASSUME NEW e \in Executions
  PROVE  /\ NoExecution \in Executions
         /\ \A r \in Requests :
              [NoExecution EXCEPT !.at = "selecting", !.request = r] \in Executions
         /\ \A c \in Conns, g \in Nat \cup {None} :
              [e EXCEPT !.at = "selected", !.on = c, !.guard = g] \in Executions
         /\ [e EXCEPT !.at = "entered"] \in Executions
         /\ [e EXCEPT !.at = "waiting"] \in Executions
         /\ [e EXCEPT !.at = "expired", !.mail = <<>>] \in Executions
         /\ \A m \in Answers : [e EXCEPT !.mail = <<m>>] \in Executions
<1>1. <<>> \in Seq(Answers) /\ \A m \in Answers : <<m>> \in Seq(Answers)
  OBVIOUS
<1> QED BY <1>1 DEF Executions, NoExecution

\* The fields of the execution.
LEMMA AnExecution ==
  ASSUME ExecTypeOK
  PROVE  /\ exec.request \in Requests \cup {None} /\ exec.on \in Conns \cup {None}
         /\ exec.guard \in Nat \cup {None} /\ exec.mail \in Seq(Answers)
         /\ exec.mail # <<>> => Head(exec.mail) \in Answers
  BY DEF ExecTypeOK, Executions

\* A channel that is emptied, or whose first message is taken.
LEMMA Emptied ==
  ASSUME NEW S, NEW C, NEW q \in [C -> Seq(S)], NEW c \in C
  PROVE  /\ [q EXCEPT ![c] = <<>>] \in [C -> Seq(S)]
         /\ q[c] # <<>> => [q EXCEPT ![c] = Tail(@)] \in [C -> Seq(S)] /\ Head(q[c]) \in S
  OBVIOUS

\* The hub's messages.
LEMMA ToPluginMessages ==
  /\ \A k \in {"challenge", "ready", "refused"} : [kind |-> k] \in ToPlugin
  /\ [kind |-> "close"] \in Orders
  /\ \A r \in Requests, g \in Nat \cup {None} :
       [kind |-> "request", request |-> r, guard |-> g] \in Orders
  /\ Orders \subseteq ToPlugin
  BY DEF ToPlugin, Orders

\* The updates of the plugin's window.
LEMMA WindowChanged ==
  ASSUME NEW u \in Windows
  PROVE  /\ Closed(u) \in Windows
         /\ \A c \in Conns : [u EXCEPT !.sock = c] \in Windows
         /\ [u EXCEPT !.active = TRUE] \in Windows
         /\ \A b \in BOOLEAN : [Closed(u) EXCEPT !.trusted = b] \in Windows
         /\ \A n \in Nat : /\ [u EXCEPT !.context = n] \in Windows
                           /\ [Closed(u) EXCEPT !.context = n] \in Windows
  BY DEF Windows, Closed

\* The fields of the plugin's window.
LEMMA WindowFields ==
  ASSUME NEW u \in Windows
  PROVE  /\ u.sock \in Conns \cup {None} /\ u.context \in Nat
         /\ u.active \in BOOLEAN /\ u.trusted \in BOOLEAN
         /\ Closed(u).trusted = u.trusted
  BY DEF Windows, Closed

\* A socket that is closed has no plugin's end.
LEMMA HungUp ==
  ASSUME HangUp
  PROVE  JoinedTypeOK'
  BY Zenon DEF HangUp, JoinedTypeOK

\* An entry that is taken away leaves the rest in its types.
LEMMA InvalidatedKept ==
  ASSUME ConnTypeOK, SeenTypeOK, WaitTypeOK,
         NEW c \in Conns \cup {None}, NEW b \in BOOLEAN, Invalidated(c, b)
  PROVE  listed' \in Conns \cup {None} /\ SeenTypeOK' /\ WaitTypeOK'
<1>1. CASE listed # None /\ Holds(c)
  <2>1. listed \in Conns /\ Retired(listed, b) /\ listed' = None
    BY <1>1 DEF Invalidated, ConnTypeOK
  <2> QED BY <2>1 DEF Retired, SeenTypeOK, WaitTypeOK
<1>2. CASE ~(listed # None /\ Holds(c))
  BY <1>2 DEF Invalidated, ConnTypeOK, SeenTypeOK, WaitTypeOK
<1> QED BY <1>1, <1>2

\* The plugin's messages.
LEMMA ToHubMessages ==
  /\ \A k \in {"proof", "goodbye"} : [kind |-> k] \in ToHub
  /\ \A k \in {"hello", "event"}, v \in Nat : [kind |-> k, revision |-> v] \in ToHub
  /\ \A r \in Requests, c \in Conns, s \in {"ok", "failed", "conflict"}, v \in Nat :
       Answer(r, c, s, v) \in ToHub
  BY DEF ToHub, Answers, Answer

\* The fields of the plugin's messages.
LEMMA ToHubFields ==
  ASSUME NEW m \in ToHub
  PROVE  /\ m.kind \in {"hello", "event"} => m.revision \in Nat
         /\ m.kind = "response" => m \in Answers
  BY DEF ToHub, Answers

\* The fields of an answer.
LEMMA AnswerFields ==
  ASSUME NEW m \in Answers
  PROVE  /\ m.kind = "response" /\ m.request \in Requests /\ m.via \in Conns
         /\ m.says \in Outcomes /\ m.revision \in Nat
  BY DEF Answers, Outcomes

\* The fields of a request.
LEMMA ToPluginFields ==
  ASSUME NEW m \in ToPlugin, m.kind = "request"
  PROVE  m.request \in Requests /\ m.guard \in Nat \cup {None}
  BY DEF ToPlugin, Orders

\* The execution in the hub stays in its type.
LEMMA ExecTypeKept ==
  ASSUME ExecTypeOK, ConnTypeOK, SeenTypeOK, ToHubTypeOK, [BridgeNext]_bridgeVars
  PROVE  ExecTypeOK'
<1>1. ASSUME NEW r \in Requests, Begin(r) PROVE  ExecTypeOK'
  BY <1>1, ExecutionChanged DEF Begin, ExecTypeOK, ConnTypeOK, SeenTypeOK
<1>2. CASE GiveUp
  BY <1>2, ExecutionChanged DEF GiveUp, Return, ExecTypeOK, ConnTypeOK, SeenTypeOK
<1>3. CASE Mismatch
  BY <1>3, ExecutionChanged DEF Mismatch, Return, ExecTypeOK, ConnTypeOK, SeenTypeOK
<1>4. CASE Select
  <2>1. PICK g \in {seen[listed], None} :
             exec' = [exec EXCEPT !.at = "selected", !.on = listed, !.guard = g]
    BY <1>4 DEF Select
  <2>2. listed \in Conns /\ g \in Nat \cup {None}
    BY <1>4 DEF Select, ConnTypeOK, SeenTypeOK
  <2> QED BY <2>1, <2>2, ExecutionChanged DEF ExecTypeOK
<1>5. CASE Enter
  BY <1>5, ExecutionChanged DEF Enter, ExecTypeOK, ConnTypeOK, SeenTypeOK
<1>6. CASE SendRequest
  BY <1>6, ExecutionChanged DEF SendRequest, Enqueue, Return, ExecTypeOK, ConnTypeOK, SeenTypeOK
<1>7. CASE Settle
  BY <1>7, ExecutionChanged DEF Settle, Return, Current, ExecTypeOK, ConnTypeOK, SeenTypeOK
<1>8. CASE Lose
  BY <1>8, ExecutionChanged
     DEF Lose, Invalidated, Retired, Enqueue, Holds, Return, ExecTypeOK, ConnTypeOK,
         SeenTypeOK
<1>9. CASE Expire
  BY <1>9, ExecutionChanged DEF Expire, ExecTypeOK, ConnTypeOK, SeenTypeOK
<1>10. CASE Bury
  BY <1>10, ExecutionChanged DEF Bury, Return, ExecTypeOK, ConnTypeOK, SeenTypeOK
<1>11. ASSUME NEW c \in Conns, TakeAnswer(c) PROVE  ExecTypeOK'
  <2>1. Head(toHub[c]) \in Answers
    BY <1>11, HeardKept, ToHubFields DEF TakeAnswer
  <2>2. exec' \in {exec, [exec EXCEPT !.mail = <<Head(toHub[c])>>]}
    BY <1>11 DEF TakeAnswer, Answered
  <2> QED BY <2>1, <2>2, ExecutionChanged DEF ExecTypeOK
<1>12. CASE UNCHANGED exec
  BY <1>12 DEF ExecTypeOK
<1> QED BY <1>1, <1>2, <1>3, <1>4, <1>5, <1>6, <1>7, <1>8, <1>9, <1>10, <1>11, <1>12
        DEF BridgeNext, ExecStep, ConnStep, PluginStep, bridgeVars, hubVars, wireVars,
            pluginVars, Greet, Authenticate, Register, Forward, TakeEvent, TakeGoodbye,
            StreamEnds, HeartbeatEnds, Unlist, Clear, Release, CredentialExpires,
            OpenSocket, TakeMessage, Finish, Edit, OnClose, ClickDisconnect, Reload

\* An execution returns one of the outcomes.
LEMMA VerdictTypeKept ==
  ASSUME VerdictTypeOK, ExecTypeOK, [BridgeNext]_bridgeVars
  PROVE  VerdictTypeOK'
<1>1. CASE GiveUp
  BY <1>1, BridgeAssumption DEF GiveUp, Return, VerdictTypeOK, ExecTypeOK, Outcomes
<1>2. CASE Mismatch
  BY <1>2, BridgeAssumption DEF Mismatch, Return, VerdictTypeOK, ExecTypeOK, Outcomes
<1>3. CASE SendRequest
  BY <1>3, BridgeAssumption
     DEF SendRequest, Enqueue, Return, VerdictTypeOK, ExecTypeOK, Outcomes
<1>4. CASE Settle
  BY <1>4, BridgeAssumption, AnswerFields, AnExecution
     DEF Settle, Return, Current, VerdictTypeOK, ExecTypeOK, Outcomes
<1>5. CASE Lose
  BY <1>5, BridgeAssumption
     DEF Lose, Invalidated, Retired, Enqueue, Holds, Return, VerdictTypeOK, ExecTypeOK,
         Outcomes
<1>6. CASE Bury
  BY <1>6, BridgeAssumption DEF Bury, Return, VerdictTypeOK, ExecTypeOK, Outcomes
<1>7. CASE UNCHANGED verdict
  BY <1>7 DEF VerdictTypeOK
<1> QED BY <1>1, <1>2, <1>3, <1>4, <1>5, <1>6, <1>7
        DEF BridgeNext, ExecStep, ConnStep, PluginStep, bridgeVars, hubVars, wireVars,
            pluginVars, Begin, Select, Enter, Expire, Greet, Authenticate, Register,
            Forward, TakeAnswer, TakeEvent, TakeGoodbye, StreamEnds, HeartbeatEnds, Unlist,
            Clear, Release, CredentialExpires, OpenSocket, TakeMessage, Finish, Edit,
            OnClose, ClickDisconnect, Reload

\* Connections, the entry and the credential stay in their types.
LEMMA ConnTypeKept ==
  ASSUME ConnTypeOK, [BridgeNext]_bridgeVars
  PROVE  ConnTypeOK'
<1>1. CASE Lose
  BY <1>1, BridgeAssumption
     DEF Lose, Invalidated, Retired, Enqueue, Holds, Return, ConnTypeOK, Places
<1>2. ASSUME NEW c \in Conns, Greet(c) PROVE  ConnTypeOK'
  BY <1>2, BridgeAssumption DEF Greet, Hear, Tell, ConnTypeOK, Places
<1>3. ASSUME NEW c \in Conns, Authenticate(c) PROVE  ConnTypeOK'
  BY <1>3, BridgeAssumption DEF Authenticate, Hear, Tell, ConnTypeOK, Places
<1>4. ASSUME NEW c \in Conns, Register(c) PROVE  ConnTypeOK'
  BY <1>4, BridgeAssumption DEF Register, Tell, Retired, Enqueue, ConnTypeOK, Places
<1>5. ASSUME NEW c \in Conns, Forward(c) PROVE  ConnTypeOK'
  BY <1>5, BridgeAssumption DEF Forward, Tell, Leave, ConnTypeOK, Places
<1>6. ASSUME NEW c \in Conns, TakeAnswer(c) PROVE  ConnTypeOK'
  BY <1>6, BridgeAssumption DEF TakeAnswer, Hear, Answered, Waits, Leave, ConnTypeOK, Places
<1>7. ASSUME NEW c \in Conns, TakeGoodbye(c) PROVE  ConnTypeOK'
  BY <1>7, BridgeAssumption DEF TakeGoodbye, Hear, Leave, ConnTypeOK, Places
<1>8. ASSUME NEW c \in Conns, StreamEnds(c) PROVE  ConnTypeOK'
  BY <1>8, BridgeAssumption DEF StreamEnds, Leave, ConnTypeOK, Places
<1>9. ASSUME NEW c \in Conns, HeartbeatEnds(c) PROVE  ConnTypeOK'
  BY <1>9, BridgeAssumption DEF HeartbeatEnds, Leave, ConnTypeOK, Places
<1>10. ASSUME NEW c \in Conns, Unlist(c) PROVE  ConnTypeOK'
  BY <1>10, BridgeAssumption DEF Unlist, Invalidated, Retired, Holds, Leave, ConnTypeOK, Places
<1>11. ASSUME NEW c \in Conns, Clear(c) PROVE  ConnTypeOK'
  BY <1>11, BridgeAssumption DEF Clear, ConnTypeOK, Places
<1>12. ASSUME NEW c \in Conns, Release(c) PROVE  ConnTypeOK'
  BY <1>12, BridgeAssumption DEF Release, ConnTypeOK, Places
<1>13. CASE CredentialExpires
  BY <1>13, BridgeAssumption DEF CredentialExpires, ConnTypeOK, Places
<1>14. ASSUME NEW c \in Conns, OpenSocket(c) PROVE  ConnTypeOK'
  BY <1>14, BridgeAssumption DEF OpenSocket, Say, Reads, ConnTypeOK, Places
<1>15. CASE UNCHANGED <<place, gen, listed, credential>>
  BY <1>15 DEF ConnTypeOK
<1> QED BY <1>1, <1>2, <1>3, <1>4, <1>5, <1>6, <1>7, <1>8, <1>9, <1>10, <1>11, <1>12, <1>13,
           <1>14, <1>15
        DEF BridgeNext, ExecStep, ConnStep, PluginStep, bridgeVars, hubVars, wireVars,
            pluginVars, Begin, GiveUp, Mismatch, Select, Enter, SendRequest, Settle, Expire,
            Bury, TakeEvent, TakeMessage, Finish, Edit, OnClose, ClickDisconnect, Reload

\* Pending and expired requests stay in their types.
LEMMA WaitTypeKept ==
  ASSUME WaitTypeOK, ConnTypeOK, ExecTypeOK, ExecInv, [BridgeNext]_bridgeVars
  PROVE  WaitTypeOK'
<1>1. CASE Enter
  BY <1>1 DEF Enter, WaitTypeOK, ConnTypeOK, ExecTypeOK, ExecInv
<1>2. CASE SendRequest
  <2>1. \/ UNCHANGED <<pending, tombs>>
        \/ pending' = [pending EXCEPT ![exec.on] = @ \ {exec.request}] /\ UNCHANGED tombs
    BY <1>2 DEF SendRequest
  <2> QED BY <2>1 DEF WaitTypeOK
<1>3. CASE Lose
  BY <1>3
     DEF Lose, Invalidated, Retired, Enqueue, Holds, Return, WaitTypeOK, ConnTypeOK,
         ExecTypeOK, ExecInv
<1>4. CASE Expire
  BY <1>4 DEF Expire, WaitTypeOK, ConnTypeOK, ExecTypeOK, ExecInv
<1>5. CASE Bury
  BY <1>5 DEF Bury, Return, WaitTypeOK, ConnTypeOK, ExecTypeOK, ExecInv
<1>6. ASSUME NEW c \in Conns, Register(c) PROVE  WaitTypeOK'
  BY <1>6 DEF Register, Tell, Retired, Enqueue, WaitTypeOK, ConnTypeOK, ExecTypeOK, ExecInv
<1>7. ASSUME NEW c \in Conns, TakeAnswer(c) PROVE  WaitTypeOK'
  BY <1>7
     DEF TakeAnswer, Hear, Answered, Waits, Leave, WaitTypeOK, ConnTypeOK, ExecTypeOK,
         ExecInv
<1>8. ASSUME NEW c \in Conns, Unlist(c) PROVE  WaitTypeOK'
  BY <1>8
     DEF Unlist, Invalidated, Retired, Holds, Leave, WaitTypeOK, ConnTypeOK, ExecTypeOK,
         ExecInv
<1>9. ASSUME NEW c \in Conns, Clear(c) PROVE  WaitTypeOK'
  BY <1>9 DEF Clear, WaitTypeOK, ConnTypeOK, ExecTypeOK, ExecInv
<1>10. CASE UNCHANGED <<pending, tombs>>
  BY <1>10 DEF WaitTypeOK
<1> QED BY <1>1, <1>2, <1>3, <1>4, <1>5, <1>6, <1>7, <1>8, <1>9, <1>10
        DEF BridgeNext, ExecStep, ConnStep, PluginStep, bridgeVars, hubVars, wireVars,
            pluginVars, Begin, GiveUp, Mismatch, Select, Settle, Greet, Authenticate,
            Forward, TakeEvent, TakeGoodbye, StreamEnds, HeartbeatEnds, Release,
            CredentialExpires, OpenSocket, TakeMessage, Finish, Edit, OnClose,
            ClickDisconnect, Reload

\* The revisions that the hub has seen are numbers.
LEMMA SeenTypeKept ==
  ASSUME SeenTypeOK, ConnTypeOK, ToHubTypeOK, TalkInv, ExecTypeOK, WaitTypeOK,
         [BridgeNext]_bridgeVars
  PROVE  SeenTypeOK'
<1>1. CASE Settle
  BY <1>1, AnswerFields, AnExecution DEF Settle, Current, SeenTypeOK, ConnTypeOK
<1>2. CASE Lose
  BY <1>2, InvalidatedKept, AnExecution DEF Lose, Return, SeenTypeOK, ConnTypeOK
<1>3. ASSUME NEW c \in Conns, Greet(c) PROVE  SeenTypeOK'
  <2> SUFFICES ASSUME credential # None PROVE SeenTypeOK'
    BY <1>3 DEF Greet, SeenTypeOK
  <2>1. Head(toHub[c]).kind = "hello" /\ Head(toHub[c]) \in ToHub
    BY <1>3, HeardKept DEF Greet, TalkInv, TalkOK, ToHubTypeOK
  <2>2. Head(toHub[c]).revision \in Nat
    BY <2>1, ToHubFields
  <2> QED BY <1>3, <2>2 DEF Greet, SeenTypeOK
<1>4. ASSUME NEW c \in Conns, Register(c) PROVE  SeenTypeOK'
  <2>1. seen' = seen \/ \E b \in Conns : seen' = [seen EXCEPT ![b] = 0]
    BY <1>4 DEF Register, Retired, ConnTypeOK
  <2> QED BY <2>1 DEF SeenTypeOK
<1>5. ASSUME NEW c \in Conns, TakeAnswer(c) PROVE  SeenTypeOK'
  BY <1>5, HeardKept, ToHubFields, AnswerFields
     DEF TakeAnswer, Answered, Waits, Leave, SeenTypeOK, ConnTypeOK
<1>6. ASSUME NEW c \in Conns, TakeEvent(c) PROVE  SeenTypeOK'
  BY <1>6, HeardKept, ToHubFields, AnswerFields DEF TakeEvent, Later, SeenTypeOK, ConnTypeOK
<1>7. ASSUME NEW c \in Conns, Unlist(c) PROVE  SeenTypeOK'
  BY <1>7, InvalidatedKept DEF Unlist, Leave, SeenTypeOK, ConnTypeOK
<1>8. CASE UNCHANGED seen
  BY <1>8 DEF SeenTypeOK
<1> QED BY <1>1, <1>2, <1>3, <1>4, <1>5, <1>6, <1>7, <1>8
        DEF BridgeNext, ExecStep, ConnStep, PluginStep, bridgeVars, hubVars, wireVars,
            pluginVars, Begin, GiveUp, Mismatch, Select, Enter, SendRequest, Expire, Bury,
            Authenticate, Forward, TakeGoodbye, StreamEnds, HeartbeatEnds, Clear, Release,
            CredentialExpires, OpenSocket, TakeMessage, Finish, Edit, OnClose,
            ClickDisconnect, Reload

\* The plugin's ends of the sockets stay in their type.
LEMMA JoinedTypeKept ==
  ASSUME JoinedTypeOK, [BridgeNext]_bridgeVars
  PROVE  JoinedTypeOK'
<1>1. ASSUME NEW c \in Conns, OpenSocket(c) PROVE  JoinedTypeOK'
  BY <1>1, HungUp DEF OpenSocket, Say, Reads, JoinedTypeOK
<1>2. CASE TakeMessage
  BY <1>2, HungUp DEF TakeMessage, JoinedTypeOK
<1>3. CASE OnClose
  BY <1>3, HungUp DEF OnClose, JoinedTypeOK
<1>4. CASE ClickDisconnect
  BY <1>4, HungUp DEF ClickDisconnect, JoinedTypeOK
<1>5. CASE Reload
  BY <1>5, HungUp DEF Reload, JoinedTypeOK
<1>6. CASE UNCHANGED joined
  BY <1>6 DEF JoinedTypeOK
<1> QED BY <1>1, <1>2, <1>3, <1>4, <1>5, <1>6
        DEF BridgeNext, ExecStep, ConnStep, PluginStep, bridgeVars, hubVars, wireVars,
            pluginVars, Begin, GiveUp, Mismatch, Select, Enter, SendRequest, Settle, Lose,
            Expire, Bury, Greet, Authenticate, Register, Forward, TakeAnswer, TakeEvent,
            TakeGoodbye, StreamEnds, HeartbeatEnds, Unlist, Clear, Release,
            CredentialExpires, Finish, Edit

\* The plugin stays in its types.
LEMMA PluginTypeKept ==
  ASSUME PluginTypeOK, ToPluginTypeOK, [BridgeNext]_bridgeVars
  PROVE  PluginTypeOK'
<1>1. ASSUME NEW c \in Conns, OpenSocket(c) PROVE  PluginTypeOK'
  BY <1>1, WindowChanged, WindowFields DEF OpenSocket, PluginTypeOK
<1>2. CASE TakeMessage
  <2> DEFINE c == ui.sock
             m == Head(toPlugin[c])
  <2>1. c \in Conns /\ m \in ToPlugin
    BY <1>2, WindowFields DEF TakeMessage, PluginTypeOK, ToPluginTypeOK
  <2>2. ui' \in Windows
    <3>1. \/ ui' = ui \/ ui' = [ui EXCEPT !.active = TRUE]
          \/ ui' = [Closed(ui) EXCEPT !.trusted = @ /\ m.kind = "close"]
      BY <1>2 DEF TakeMessage
    <3>2. (Closed(ui).trusted /\ m.kind = "close") \in BOOLEAN
      OBVIOUS
    <3> QED BY <3>1, <3>2, WindowChanged DEF PluginTypeOK
  <2>3. work' \in [Requests -> Conns \cup {None}]
    BY <1>2, <2>1, ToPluginFields DEF TakeMessage, PluginTypeOK
  <2> QED BY <1>2, <2>2, <2>3 DEF TakeMessage, PluginTypeOK
<1>3. ASSUME NEW r \in Requests, Finish(r) PROVE  PluginTypeOK'
  BY <1>3, WindowChanged, WindowFields, BridgeAssumption DEF Finish, PluginTypeOK
<1>4. CASE Edit
  <2>1. revision' \in Nat /\ Later(ui.context, revision') \in Nat
    BY <1>4, WindowFields DEF Edit, PluginTypeOK, Later
  <2> QED BY <1>4, <2>1, WindowChanged DEF Edit, PluginTypeOK
<1>5. CASE OnClose
  BY <1>5, WindowChanged, WindowFields DEF OnClose, PluginTypeOK
<1>6. CASE ClickDisconnect
  BY <1>6, WindowChanged, WindowFields DEF ClickDisconnect, PluginTypeOK
<1>7. CASE Reload
  <2>1. work' = [r \in Requests |-> None] /\ ui' = [Closed(ui) EXCEPT !.context = 0]
        /\ revision' = 0 /\ reloads' = reloads + 1
    BY <1>7 DEF Reload
  <2>2. ui' \in Windows
    BY <2>1, WindowChanged DEF PluginTypeOK
  <2> QED BY <2>1, <2>2 DEF PluginTypeOK
<1>8. CASE UNCHANGED <<ui, revision, work, reloads>>
  BY <1>8 DEF PluginTypeOK
<1> QED BY <1>1, <1>2, <1>3, <1>4, <1>5, <1>6, <1>7, <1>8
        DEF BridgeNext, ExecStep, ConnStep, PluginStep, bridgeVars, hubVars, wireVars,
            pluginVars, Begin, GiveUp, Mismatch, Select, Enter, SendRequest, Settle, Lose,
            Expire, Bury, Greet, Authenticate, Register, Forward, TakeAnswer, TakeEvent,
            TakeGoodbye, StreamEnds, HeartbeatEnds, Unlist, Clear, Release,
            CredentialExpires

-----------------------------------------------------------------------------
(* Connections, sockets and the handshake. *)

\* No connection goes back, and only OpenSocket begins one.
Advanced(c) == /\ place'[c] = "none" <=> place[c] = "none"
               /\ place'[c] = "hello" => place[c] = "hello"
               /\ place[c] \in Late => place'[c] \in Late
               /\ place'[c] = "challenged" => place[c] = "challenged" \/ Greet(c)
               /\ place'[c] \in Passed => place[c] \in Passed \/ Authenticate(c)

\* Every step but OpenSocket moves connections forwards.
LEMMA PlacesAdvance ==
  ASSUME ConnTypeOK, [BridgeNext]_bridgeVars, \A c \in Conns : ~OpenSocket(c)
  PROVE  \A c \in Conns : Advanced(c)
<1> SUFFICES ASSUME NEW b \in Conns PROVE Advanced(b)
  OBVIOUS
<1>1. ASSUME NEW c \in Conns, Greet(c) PROVE Advanced(b)
  BY <1>1 DEF Greet, Advanced, ConnTypeOK, Places, Late, Passed
<1>2. ASSUME NEW c \in Conns, Authenticate(c) PROVE Advanced(b)
  BY <1>2 DEF Authenticate, Advanced, ConnTypeOK, Places, Late, Passed
<1>3. ASSUME NEW c \in Conns, Register(c) PROVE Advanced(b)
  BY <1>3 DEF Register, Advanced, ConnTypeOK, Places, Late, Passed
<1>4. ASSUME NEW c \in Conns, Forward(c) PROVE Advanced(b)
  BY <1>4 DEF Forward, Leave, Advanced, ConnTypeOK, Places, Late, Passed
<1>5. ASSUME NEW c \in Conns, TakeAnswer(c) PROVE Advanced(b)
  BY <1>5 DEF TakeAnswer, Leave, Answered, Advanced, ConnTypeOK, Places, Late, Passed
<1>6. ASSUME NEW c \in Conns, TakeGoodbye(c) PROVE Advanced(b)
  BY <1>6 DEF TakeGoodbye, Leave, Advanced, ConnTypeOK, Places, Late, Passed
<1>7. ASSUME NEW c \in Conns, StreamEnds(c) PROVE Advanced(b)
  BY <1>7 DEF StreamEnds, Leave, Advanced, ConnTypeOK, Places, Late, Passed
<1>8. ASSUME NEW c \in Conns, HeartbeatEnds(c) PROVE Advanced(b)
  BY <1>8 DEF HeartbeatEnds, Leave, Advanced, ConnTypeOK, Places, Late, Passed
<1>9. ASSUME NEW c \in Conns, Unlist(c) PROVE Advanced(b)
  BY <1>9 DEF Unlist, Leave, Advanced, ConnTypeOK, Places, Late, Passed
<1>10. ASSUME NEW c \in Conns, Clear(c) PROVE Advanced(b)
  BY <1>10 DEF Clear, Advanced, ConnTypeOK, Places, Late, Passed
<1>11. ASSUME NEW c \in Conns, Release(c) PROVE Advanced(b)
  BY <1>11 DEF Release, Advanced, ConnTypeOK, Places, Late, Passed
<1>12. CASE UNCHANGED place
  BY <1>12 DEF Advanced, Late, Passed
<1> QED BY <1>1, <1>2, <1>3, <1>4, <1>5, <1>6, <1>7, <1>8, <1>9, <1>10, <1>11, <1>12
        DEF BridgeNext, ExecStep, ConnStep, PluginStep, bridgeVars, hubVars, wireVars,
            pluginVars, Begin, GiveUp, Mismatch, Select, Enter, SendRequest, Settle, Lose,
            Expire, Bury, TakeEvent, CredentialExpires, TakeMessage, Finish, Edit, OnClose,
            ClickDisconnect, Reload

\* OpenSocket begins one connection and moves no other.
LEMMA OpenedOnly ==
  ASSUME ConnTypeOK, NEW c \in Conns, OpenSocket(c)
  PROVE  /\ place[c] = "none" /\ place'[c] = "hello"
         /\ \A b \in Conns \ {c} : place'[b] = place[b]
         /\ \A b \in Conns : place[b] \in Late <=> place'[b] \in Late
  BY DEF OpenSocket, ConnTypeOK, Places, Late

\* A connection that was registered or refused stays so.
LEMMA LateStays ==
  ASSUME ConnTypeOK, [BridgeNext]_bridgeVars
  PROVE  \A c \in Conns : place[c] \in Late => place'[c] \in Late
  BY PlacesAdvance, OpenedOnly DEF Advanced

\* The socket is gone.
LEMMA SocketGone ==
  ASSUME SocketInv, ConnTypeOK, PluginTypeOK, HangUp, UNCHANGED place,
         ui'.sock = None, ui'.active = FALSE
  PROVE  SocketInv'
<1>1. \A c \in Conns : joined'[c] = FALSE
  BY Zenon DEF HangUp, SocketInv
<1>2. \A c \in Conns : ui'.sock # c
  BY BridgeAssumption
<1> QED BY <1>1, <1>2, BridgeAssumption DEF SocketInv

\* The socket stays.
LEMMA SocketStays ==
  ASSUME SocketInv, ConnTypeOK, PluginTypeOK, UNCHANGED joined, ui'.sock = ui.sock,
         ui'.active => ui.active \/ (ui.sock # None /\ place[ui.sock] \in Late),
         [BridgeNext]_bridgeVars, \A c \in Conns : ~OpenSocket(c)
  PROVE  SocketInv'
<1>1. \A c \in Conns : Advanced(c)
  BY PlacesAdvance
<1>2. ui'.active => ui'.sock # None /\ place'[ui'.sock] \in Late
  BY <1>1, WindowFields DEF SocketInv, Advanced, PluginTypeOK
<1> QED BY <1>1, <1>2 DEF SocketInv, Advanced

\* The plugin never has more than the socket it opened last.
LEMMA SocketInvKept ==
  ASSUME BridgeTypeOK, SocketInv, TalkInv, [BridgeNext]_bridgeVars
  PROVE  SocketInv'
<1> USE DEF BridgeTypeOK
<1>1. ASSUME NEW c \in Conns, OpenSocket(c) PROVE SocketInv'
  <2>1. /\ ui.sock = None /\ ui' = [ui EXCEPT !.sock = c]
        /\ joined' = [joined EXCEPT ![c] = TRUE] /\ place[c] = "none"
        /\ \A b \in Conns : b < c => place[b] # "none"
    BY <1>1 DEF OpenSocket
  <2>2. ui'.sock = c /\ ui'.active = ui.active
    BY <2>1 DEF PluginTypeOK, Windows
  <2>3. \A b \in Conns : joined'[b] = (ui'.sock = b)
    BY <2>1, <2>2, BridgeAssumption DEF SocketInv, JoinedTypeOK
  <2>4. ~ui'.active
    BY <2>1, <2>2 DEF SocketInv
  <2>5. place'[c] # "none" /\ \A b \in Conns : place'[b] # "none" => b <= c
    BY <1>1, <2>1, OpenedOnly, BridgeAssumption DEF SocketInv
  <2>6. \A a, b \in Conns : place'[a] = "none" /\ place'[b] # "none" => b < a
    BY <1>1, <2>1, OpenedOnly, BridgeAssumption DEF SocketInv
  <2> QED BY <2>2, <2>3, <2>4, <2>5, <2>6 DEF SocketInv
<1>2. CASE \A c \in Conns : ~OpenSocket(c)
  <2>1. CASE UNCHANGED <<joined, ui>>
    <3>1. ui'.sock = ui.sock /\ ui'.active = ui.active /\ UNCHANGED joined
      BY <2>1
    <3>2. ui'.active => ui.active \/ (ui.sock # None /\ place[ui.sock] \in Late)
      BY <3>1
    <3> QED BY <1>2, <3>1, <3>2, SocketStays
  <2>2. CASE TakeMessage
    <3>1. CASE /\ HangUp
               /\ ui' = [Closed(ui) EXCEPT
                           !.trusted = @ /\ Head(toPlugin[ui.sock]).kind = "close"]
      <4>1. ui'.sock = None /\ ui'.active = FALSE
        BY <3>1 DEF Closed, PluginTypeOK, Windows
      <4> QED BY <2>2, <3>1, <4>1, SocketGone DEF TakeMessage, hubVars
    <3>2. CASE UNCHANGED joined /\ ui' = [ui EXCEPT !.active = TRUE]
               /\ Head(toPlugin[ui.sock]).kind = "ready" /\ toPlugin[ui.sock] # <<>>
               /\ ui.sock # None
      <4>1. ui.sock \in Conns /\ ui'.sock = ui.sock
        BY <3>2 DEF PluginTypeOK, Windows
      <4>2. place[ui.sock] \in Late
        BY <3>2, <4>1 DEF TalkInv, TalkOK, ToPluginTypeOK
      <4> QED BY <1>2, <3>2, <4>1, <4>2, SocketStays
    <3> QED BY <1>2, <2>1, <2>2, <3>1, <3>2 DEF TakeMessage
  <2>3. CASE Edit
    <3>1. ui'.sock = ui.sock /\ ui'.active = ui.active /\ UNCHANGED joined
      BY <2>3 DEF Edit, PluginTypeOK, Windows
    <3>2. ui'.active => ui.active \/ (ui.sock # None /\ place[ui.sock] \in Late)
      BY <3>1
    <3> QED BY <1>2, <3>1, <3>2, SocketStays
  <2>4. CASE OnClose \/ ClickDisconnect \/ Reload
    <3>1. ui'.sock = None /\ ui'.active = FALSE
      BY <2>4 DEF OnClose, ClickDisconnect, Reload, Closed, PluginTypeOK, Windows
    <3> QED BY <2>4, <3>1, SocketGone DEF OnClose, ClickDisconnect, Reload, hubVars
  <2> QED BY <1>2, <2>1, <2>2, <2>3, <2>4
          DEF BridgeNext, ExecStep, ConnStep, PluginStep, bridgeVars, wireVars, pluginVars,
              Begin, GiveUp, Mismatch, Select, Enter, SendRequest, Settle, Lose, Expire,
              Bury, Greet, Authenticate, Register, Forward, TakeAnswer, TakeEvent,
              TakeGoodbye, StreamEnds, HeartbeatEnds, Unlist, Clear, Release,
              CredentialExpires, Finish
<1> QED BY <1>1, <1>2

\* An execution knows its connection from the moment it selected it.
LEMMA ExecInvKept ==
  ASSUME BridgeTypeOK, ListedInv, ExecInv, [BridgeNext]_bridgeVars
  PROVE  ExecInv'
<1> USE DEF BridgeTypeOK
<1>1. \A c \in Conns : place[c] \in Late => place'[c] \in Late
  BY LateStays
<1>2. CASE UNCHANGED <<exec, verdict>>
  BY <1>1, <1>2, AnExecution DEF ExecInv
<1>3. ASSUME exec' = NoExecution PROVE ExecInv'
  BY <1>3 DEF ExecInv, NoExecution
<1>4. ASSUME NEW r \in Requests, Begin(r) PROVE ExecInv'
  BY <1>4 DEF Begin, ExecInv, NoExecution
<1>5. CASE Select
  <2>1. /\ exec.at = "selecting" /\ listed # None /\ UNCHANGED <<place, verdict>>
        /\ exec'.at = "selected" /\ exec'.request = exec.request /\ exec'.on = listed
        /\ exec'.mail = exec.mail
    BY <1>5 DEF Select, hubVars, ExecTypeOK, Executions
  <2> QED BY <2>1 DEF ExecInv, ListedInv, Late, ConnTypeOK
<1>6. CASE Enter
  BY <1>1, <1>6, AnExecution DEF Enter, ExecInv, ExecTypeOK, Executions
<1>7. CASE SendRequest
  BY <1>1, <1>3, <1>7, AnExecution DEF SendRequest, Return, ExecInv, ExecTypeOK, Executions
<1>8. CASE Expire
  BY <1>1, <1>8, AnExecution DEF Expire, ExecInv, ExecTypeOK, Executions
<1>9. ASSUME NEW c \in Conns, TakeAnswer(c) PROVE ExecInv'
  <2>1. \/ UNCHANGED exec
        \/ /\ exec.at = "waiting" /\ exec.on = c
           /\ exec' = [exec EXCEPT !.mail = <<Head(toHub[c])>>]
    BY <1>9 DEF TakeAnswer, Answered
  <2>2. UNCHANGED verdict
    BY <1>9 DEF TakeAnswer
  <2> QED BY <1>1, <2>1, <2>2, AnExecution DEF ExecInv, ExecTypeOK, Executions
<1> QED BY <1>2, <1>3, <1>4, <1>5, <1>6, <1>7, <1>8, <1>9
        DEF BridgeNext, ExecStep, ConnStep, PluginStep, bridgeVars, hubVars, pluginVars,
            GiveUp, Mismatch, Settle, Lose, Bury, Return, Greet, Authenticate, Register,
            Forward, TakeEvent, TakeGoodbye, StreamEnds, HeartbeatEnds, Unlist, Clear,
            Release, CredentialExpires, TakeMessage, Edit, OnClose, ClickDisconnect, Reload,
            OpenSocket, Finish

\* The thread's messages go to a connection that was registered, if to any.
LEMMA PostedLate ==
  ASSUME ToHubTypeOK, PluginTypeOK, SocketInv, NEW m, Posted(m), NEW b \in Conns,
         place[b] \notin Late
  PROVE  toHub'[b] = toHub[b]
<1>1. CASE ui.active
  BY <1>1, WindowFields DEF Posted, Say, SocketInv, PluginTypeOK, ToHubTypeOK
<1>2. CASE ~ui.active
  BY <1>2 DEF Posted
<1> QED BY <1>1, <1>2

\* What is on the wire when a socket closes.
LEMMA HungUpTalk ==
  ASSUME TalkInv, HangUp, UNCHANGED place, NEW b \in Conns,
         place[b] \notin Late => toHub'[b] = toHub[b]
  PROVE  TalkOK(b)'
<1>1. toPlugin'[b] \in {<<>>, toPlugin[b]}
  BY DEF HangUp
<1>2. ~joined'[b] => toPlugin'[b] = <<>>
  BY DEF HangUp, TalkInv, TalkOK
<1> QED BY <1>1, <1>2 DEF TalkInv, TalkOK, Late

\* What is on the wire when the thread spoke.
LEMMA PostedTalk ==
  ASSUME BridgeTypeOK, SocketInv, TalkInv, NEW m, Posted(m), UNCHANGED <<place, joined, toPlugin>>,
         NEW b \in Conns
  PROVE  TalkOK(b)'
<1>1. place[b] \notin Late => toHub'[b] = toHub[b]
  BY PostedLate DEF BridgeTypeOK
<1> QED BY <1>1 DEF TalkInv, TalkOK, Late

\* The handshake is spoken in order.
LEMMA TalkInvKept ==
  ASSUME BridgeTypeOK, SocketInv, ExecInv, TalkInv, [BridgeNext]_bridgeVars
  PROVE  TalkInv'
<1> SUFFICES ASSUME NEW b \in Conns PROVE TalkOK(b)'
  BY DEF TalkInv
<1> USE DEF BridgeTypeOK
<1>1. ASSUME NEW c \in Conns, Greet(c) PROVE TalkOK(b)'
  <2>1. CASE c # b
    BY <1>1, <2>1
       DEF Greet, Hear, Tell, TalkOK, TalkInv, ConnTypeOK, ToPluginTypeOK, ToHubTypeOK, Late
  <2>2. CASE c = b
    <3>1. /\ place[b] = "hello" /\ toPlugin[b] = <<>> /\ UNCHANGED joined
          /\ place'[b] \in {"over", "challenged"}
          /\ ~joined[b] => toPlugin'[b] = toPlugin[b]
      BY <1>1, <2>2 DEF Greet, Tell, TalkOK, TalkInv, ConnTypeOK, ToPluginTypeOK
    <3>2. CASE place'[b] = "over"
      BY <3>1, <3>2 DEF TalkOK, Late
    <3>3. CASE place'[b] = "challenged"
      <4>1. Tell(b, [kind |-> "challenge"])
        BY <1>1, <2>2, <3>1, <3>3 DEF Greet, ConnTypeOK
      <4>2. toPlugin'[b] \in {<<>>, <<[kind |-> "challenge"]>>}
        BY <3>1, <4>1 DEF Tell, ToPluginTypeOK
      <4>3. \A i \in 1 .. Len(toPlugin'[b]) : toPlugin'[b][i].kind # "ready"
        BY <4>2
      <4> QED BY <3>1, <3>3, <4>3 DEF TalkOK
    <3> QED BY <3>1, <3>2, <3>3
  <2> QED BY <2>1, <2>2
<1>2. ASSUME place'[b] = place[b], joined'[b] = joined[b], toPlugin'[b] = toPlugin[b],
             toHub'[b] = toHub[b]
      PROVE  TalkOK(b)'
  BY <1>2 DEF TalkInv, TalkOK
<1>3. ASSUME place'[b] \in Late, joined'[b] = joined[b], ~joined[b] => toPlugin'[b] = toPlugin[b]
      PROVE  TalkOK(b)'
  BY <1>3 DEF TalkInv, TalkOK, Late
<1>4. ASSUME NEW c \in Conns, Authenticate(c) PROVE TalkOK(b)'
  <2>1. CASE c # b
    BY <1>2, <1>4, <2>1
       DEF Authenticate, Hear, Tell, ConnTypeOK, ToPluginTypeOK, ToHubTypeOK
  <2>2. CASE c = b
    <3>1. joined'[b] = joined[b] /\ (~joined[b] => toPlugin'[b] = toPlugin[b])
      BY <1>4, <2>2 DEF Authenticate, Tell, ToPluginTypeOK
    <3>2. CASE place'[b] = "authenticated" /\ UNCHANGED toPlugin
      <4>1. place[b] \notin Late
        BY <1>4, <2>2 DEF Authenticate, Late
      <4> QED BY <3>1, <3>2, <4>1 DEF TalkInv, TalkOK
    <3>3. CASE place'[b] = "over"
      BY <1>3, <3>1, <3>3 DEF Late
    <3> QED BY <1>4, <2>2, <3>2, <3>3 DEF Authenticate, ConnTypeOK
  <2> QED BY <2>1, <2>2
<1>5. ASSUME NEW c \in Conns, Register(c) PROVE TalkOK(b)'
  <2>1. joined'[b] = joined[b] /\ toHub' = toHub /\ (~joined[b] => toPlugin'[b] = toPlugin[b])
    BY <1>5 DEF Register, Tell, ToPluginTypeOK
  <2>2. CASE c # b
    BY <1>2, <1>5, <2>1, <2>2 DEF Register, Tell, ConnTypeOK, ToPluginTypeOK
  <2>3. CASE c = b
    BY <1>3, <1>5, <2>1, <2>3 DEF Register, ConnTypeOK, Late
  <2> QED BY <2>2, <2>3
<1>6. ASSUME NEW c \in Conns, Forward(c) PROVE TalkOK(b)'
  <2>1. joined'[b] = joined[b] /\ toHub' = toHub /\ (~joined[b] => toPlugin'[b] = toPlugin[b])
    BY <1>6 DEF Forward, Tell, ToPluginTypeOK
  <2>2. CASE c # b
    BY <1>2, <1>6, <2>1, <2>2 DEF Forward, Tell, Leave, ConnTypeOK, ToPluginTypeOK
  <2>3. CASE c = b
    BY <1>3, <1>6, <2>1, <2>3 DEF Forward, Leave, ConnTypeOK, Late
  <2> QED BY <2>2, <2>3
<1>7. ASSUME NEW c \in Conns, place[c] \in Late, place'[c] \in Late,
             UNCHANGED <<joined, toPlugin>>,
             \A a \in Conns \ {c} : place'[a] = place[a] /\ toHub'[a] = toHub[a]
      PROVE  TalkOK(b)'
  <2>1. CASE c # b
    BY <1>2, <1>7, <2>1
  <2>2. CASE c = b
    BY <1>3, <1>7, <2>2
  <2> QED BY <2>1, <2>2
<1>8. ASSUME NEW c \in Conns, TakeAnswer(c) \/ TakeEvent(c) \/ TakeGoodbye(c) PROVE TalkOK(b)'
  <2>1. place[c] \in Late /\ place'[c] \in Late /\ UNCHANGED <<joined, toPlugin>>
        /\ \A a \in Conns \ {c} : place'[a] = place[a] /\ toHub'[a] = toHub[a]
    BY <1>8 DEF TakeAnswer, Answered, TakeEvent, TakeGoodbye, Hear, Leave, ConnTypeOK,
                ToHubTypeOK, Late
  <2> QED BY <1>7, <2>1
<1>9. ASSUME NEW c \in Conns, HeartbeatEnds(c) \/ Unlist(c) \/ Clear(c) \/ Release(c)
      PROVE  TalkOK(b)'
  <2>1. place[c] \in Late /\ place'[c] \in Late /\ UNCHANGED <<joined, toPlugin>>
        /\ \A a \in Conns \ {c} : place'[a] = place[a] /\ toHub'[a] = toHub[a]
    BY <1>9 DEF HeartbeatEnds, Unlist, Clear, Release, Leave, wireVars, ConnTypeOK,
                ToHubTypeOK, Late
  <2> QED BY <1>7, <2>1
<1>10. ASSUME NEW c \in Conns, StreamEnds(c) PROVE TalkOK(b)'
  <2>1. place'[c] \in Late /\ UNCHANGED <<joined, toPlugin>>
        /\ \A a \in Conns \ {c} : place'[a] = place[a] /\ toHub'[a] = toHub[a]
    BY <1>10 DEF StreamEnds, Leave, ConnTypeOK, ToHubTypeOK, Late
  <2>2. CASE c # b
    BY <1>2, <2>1, <2>2
  <2>3. CASE c = b
    BY <1>3, <2>1, <2>3
  <2> QED BY <2>2, <2>3
<1>11. ASSUME NEW c \in Conns, OpenSocket(c) PROVE TalkOK(b)'
  BY <1>11
     DEF OpenSocket, Say, Reads, TalkOK, TalkInv, ConnTypeOK, ToPluginTypeOK, ToHubTypeOK,
         Late, Places
<1>12. CASE TakeMessage
  <2> DEFINE c == ui.sock
             m == Head(toPlugin[c])
  <2>1. c \in Conns /\ toPlugin[c] # <<>> /\ place[c] \notin {"none", "hello"} /\ UNCHANGED place
    BY <1>12, WindowFields DEF TakeMessage, PluginTypeOK, TalkInv, TalkOK, hubVars
  <2>2. place[b] \notin Late => b = c \/ toHub'[b] = toHub[b]
    <3>1. CASE Say(c, [kind |-> "proof"])
      BY <2>1, <3>1 DEF Say, ToHubTypeOK
    <3>2. CASE Posted(Answer(m.request, c, "conflict", revision))
      BY <3>2, PostedLate
    <3> QED BY <1>12, <3>1, <3>2 DEF TakeMessage
  <2>3. CASE m.kind \in {"close", "refused"}
    <3>1. HangUp /\ UNCHANGED toHub
      BY <1>12, <2>3 DEF TakeMessage
    <3> QED BY <2>1, <3>1, HungUpTalk
  <2>4. CASE UNCHANGED joined /\ toPlugin' = [toPlugin EXCEPT ![c] = Tail(@)]
    <3>1. CASE b = c
      BY <2>1, <2>4, <3>1 DEF TalkInv, TalkOK, ToPluginTypeOK, SocketInv
    <3>2. CASE b # c
      BY <2>1, <2>2, <2>4, <3>2 DEF TalkInv, TalkOK, ToPluginTypeOK, Late
    <3> QED BY <3>1, <3>2
  <2> QED BY <1>12, <2>3, <2>4 DEF TakeMessage
<1>13. ASSUME NEW r \in Requests, Finish(r) PROVE TalkOK(b)'
  <2>1. PICK rev, says : Posted(Answer(r, work[r], says, rev))
    BY <1>13 DEF Finish
  <2> QED BY <1>13, <2>1, PostedTalk DEF Finish, hubVars
<1>14. CASE Edit
  BY <1>14, PostedTalk DEF Edit, hubVars
<1>15. CASE OnClose
  BY <1>15, HungUpTalk DEF OnClose, hubVars
<1>16. CASE ClickDisconnect
  <2>1. place[b] \notin Late => toHub'[b] = toHub[b]
    BY <1>16, PostedLate DEF ClickDisconnect
  <2> QED BY <1>16, <2>1, HungUpTalk DEF ClickDisconnect, hubVars
<1>17. CASE Reload
  BY <1>17, HungUpTalk DEF Reload, hubVars
<1>18. CASE UNCHANGED <<place, joined, toPlugin, toHub>>
  BY <1>18 DEF TalkOK, TalkInv, ConnTypeOK, ToPluginTypeOK, ToHubTypeOK, Late, Places
<1> QED BY <1>1, <1>4, <1>5, <1>6, <1>8, <1>9, <1>10, <1>11, <1>12, <1>13, <1>14, <1>15, <1>16,
           <1>17, <1>18
        DEF BridgeNext, ExecStep, ConnStep, PluginStep, bridgeVars, hubVars, wireVars,
            pluginVars, Begin, GiveUp, Mismatch, Select, Enter, SendRequest, Settle, Lose,
            Expire, Bury, CredentialExpires

-----------------------------------------------------------------------------
(* Generations. *)

\* Who has passed in the next state had passed, or does so now.
LEMMA PassedBefore ==
  ASSUME ConnTypeOK, [BridgeNext]_bridgeVars, NEW b \in Conns
  PROVE  /\ place'[b] \in Passed => place[b] \in Passed \/ Authenticate(b)
         /\ place'[b] = "challenged" => place[b] = "challenged" \/ Greet(b)
<1>1. CASE \A c \in Conns : ~OpenSocket(c)
  BY <1>1, PlacesAdvance DEF Advanced
<1>2. ASSUME NEW c \in Conns, OpenSocket(c)
      PROVE  /\ place'[b] \in Passed => place[b] \in Passed
             /\ place'[b] = "challenged" => place[b] = "challenged"
  BY <1>2, OpenedOnly DEF Passed
<1> QED BY <1>1, <1>2

\* No proved generation is later than the credential's.
LEMMA CredentialInvKept ==
  ASSUME BridgeTypeOK, CredentialInv, [BridgeNext]_bridgeVars
  PROVE  CredentialInv'
<1> USE DEF BridgeTypeOK
<1>1. ASSUME credential' = None PROVE CredentialInv'
  BY <1>1 DEF CredentialInv
<1>2. ASSUME NEW c \in Conns, Greet(c) PROVE CredentialInv'
  BY <1>2, BridgeAssumption DEF Greet, CredentialInv, ConnTypeOK, Passed
<1>3. ASSUME NEW c \in Conns, Authenticate(c) PROVE CredentialInv'
  BY <1>3, BridgeAssumption DEF Authenticate, CredentialInv, ConnTypeOK, Passed
<1>4. CASE UNCHANGED <<credential, gen>> /\ \A c \in Conns : ~Authenticate(c)
  <2>1. \A c \in Conns : place'[c] \in Passed => place[c] \in Passed
    BY <1>4, PassedBefore
  <2> QED BY <1>4, <2>1 DEF CredentialInv
<1>5. \/ \E c \in Conns : Greet(c) \/ Authenticate(c)
      \/ credential' = None
      \/ UNCHANGED <<credential, gen>>
  <2>1. CASE ExecStep \/ \E r \in Requests : Begin(r)
    BY <2>1 DEF ExecStep, hubVars, Begin, GiveUp, Mismatch, Select, Enter, SendRequest,
                Settle, Lose, Expire, Bury
  <2>2. CASE PluginStep \/ CredentialExpires \/ UNCHANGED bridgeVars
    BY <2>2 DEF PluginStep, bridgeVars, hubVars, CredentialExpires, OpenSocket, TakeMessage,
                Finish, Edit, OnClose, ClickDisconnect, Reload
  <2>3. ASSUME NEW c \in Conns, ConnStep(c) \/ HeartbeatEnds(c)
        PROVE  \/ Greet(c) \/ Authenticate(c) \/ credential' = None
               \/ UNCHANGED <<credential, gen>>
    BY <2>3 DEF ConnStep, Register, Forward, TakeAnswer, Answered, TakeEvent, TakeGoodbye,
                StreamEnds, HeartbeatEnds, Unlist, Clear, Release
  <2> QED BY <2>1, <2>2, <2>3 DEF BridgeNext
<1> QED BY <1>1, <1>2, <1>3, <1>4, <1>5

\* A connection that is challenged hears its proof only from the socket that is open.
LEMMA ProofIsSaid ==
  ASSUME BridgeTypeOK, SocketInv, TalkInv, [BridgeNext]_bridgeVars, NEW b \in Conns,
         place[b] = "challenged", toHub[b] = <<>>, toHub'[b] # <<>>
  PROVE  ui.sock = b /\ UNCHANGED place
<1> USE DEF BridgeTypeOK
<1>1. place[b] \notin Late
  BY DEF Late
<1>2. CASE TakeMessage
  <2>1. UNCHANGED place
    BY <1>2 DEF TakeMessage, hubVars
  <2>2. CASE Say(ui.sock, [kind |-> "proof"])
    BY <2>1, <2>2 DEF Say
  <2>3. ASSUME NEW m, Posted(m) PROVE FALSE
    BY <1>1, <2>3, PostedLate
  <2> QED BY <1>2, <2>1, <2>2, <2>3 DEF TakeMessage
<1>3. ASSUME NEW m, Posted(m) PROVE FALSE
  BY <1>1, <1>3, PostedLate
<1>4. ASSUME NEW c \in Conns, Hear(c), toHub[c] # <<>> PROVE FALSE
  BY <1>4 DEF Hear, ToHubTypeOK
<1>5. ASSUME NEW c \in Conns, OpenSocket(c) PROVE FALSE
  BY <1>5 DEF OpenSocket, Say, ToHubTypeOK
<1>6. ASSUME NEW c \in Conns, StreamEnds(c) \/ Unlist(c) PROVE FALSE
  <2>1. toHub' = [toHub EXCEPT ![c] = <<>>]
    BY <1>6 DEF StreamEnds, Unlist
  <2> QED BY <2>1 DEF ToHubTypeOK
<1> QED BY <1>2, <1>3, <1>4, <1>5, <1>6
        DEF BridgeNext, ExecStep, ConnStep, PluginStep, bridgeVars, wireVars, Begin, GiveUp,
            Mismatch, Select, Enter, SendRequest, Settle, Lose, Expire, Bury, Greet,
            Authenticate, Register, Forward, TakeAnswer, TakeEvent, TakeGoodbye,
            HeartbeatEnds, Clear, Release, CredentialExpires, Finish, Edit, OnClose,
            ClickDisconnect, Reload

\* What was proved in the next state had been proved, or was so just now over the socket.
LEMMA ProvedBefore ==
  ASSUME BridgeTypeOK, SocketInv, TalkInv, [BridgeNext]_bridgeVars, NEW b \in Conns, Proved(b)'
  PROVE  Proved(b) \/ (ui.sock = b /\ UNCHANGED place)
<1> USE DEF BridgeTypeOK
<1>1. CASE place'[b] \in Passed
  BY <1>1, PassedBefore DEF Authenticate, Proved
<1>2. CASE place'[b] = "challenged" /\ toHub'[b] # <<>>
  <2>1. CASE Greet(b)
    <3>1. Len(toHub[b]) <= 1 /\ toHub' = [toHub EXCEPT ![b] = Tail(@)] /\ toHub[b] # <<>>
      BY <2>1 DEF Greet, Hear, TalkInv, TalkOK
    <3>2. toHub'[b] = <<>>
      BY <3>1 DEF ToHubTypeOK
    <3> QED BY <1>2, <3>2
  <2>2. CASE place[b] = "challenged"
    BY <1>2, <2>2, ProofIsSaid DEF Proved
  <2> QED BY <1>2, <2>1, <2>2, PassedBefore
<1> QED BY <1>1, <1>2 DEF Proved

\* Generations are proved in the order in which connections were opened.
LEMMA GenInvKept ==
  ASSUME BridgeTypeOK, SocketInv, TalkInv, CredentialInv, GenInv, [BridgeNext]_bridgeVars
  PROVE  GenInv'
<1> USE DEF BridgeTypeOK
<1> SUFFICES ASSUME NEW b \in Conns, NEW c \in Conns, b < c, Proved(b)',
                    place'[c] \in Passed \cup {"challenged"}
             PROVE  /\ gen'[b] <= gen'[c]
                    /\ place'[b] \in Passed /\ place'[c] \in Passed => gen'[b] < gen'[c]
  BY DEF GenInv
<1>1. b \in Nat /\ c \in Nat /\ b # c /\ gen[b] \in Nat /\ gen[c] \in Nat
  BY BridgeAssumption DEF ConnTypeOK
<1>2. Proved(b)
  <2>1. CASE ui.sock = b /\ UNCHANGED place
    <3>1. place[c] # "none"
      BY <2>1 DEF Passed
    <3>2. c <= b
      BY <2>1, <3>1 DEF SocketInv
    <3> QED BY <1>1, <3>2
  <2> QED BY <2>1, ProvedBefore
<1>3. CASE Greet(c)
  <2>1. /\ credential # None /\ gen' = [gen EXCEPT ![c] = credential + 1]
        /\ place'[c] = "challenged"
    BY <1>3 DEF Greet, ConnTypeOK, Passed
  <2> QED BY <1>1, <2>1, BridgeAssumption DEF CredentialInv, ConnTypeOK, Passed
<1>4. CASE UNCHANGED gen /\ place[c] \in Passed \cup {"challenged"}
  <2>1. gen[b] <= gen[c]
    BY <1>2, <1>4 DEF GenInv
  <2>2. CASE place[b] \in Passed /\ place[c] \in Passed
    BY <1>2, <1>4, <2>2 DEF GenInv
  <2>3. ASSUME Authenticate(c), place'[c] \in Passed, place'[b] \in Passed
        PROVE  gen[b] < gen[c]
    <3>1. credential # None /\ credential + 1 = gen[c] /\ place'[b] = place[b]
      BY <1>1, <2>3 DEF Authenticate, ConnTypeOK, Passed
    <3>2. gen[b] <= credential
      BY <2>3, <3>1 DEF CredentialInv
    <3> QED BY <1>1, <3>1, <3>2, BridgeAssumption DEF ConnTypeOK
  <2>4. ASSUME Authenticate(b), place'[b] \in Passed, place'[c] \in Passed
        PROVE  gen[b] < gen[c]
    <3>1. credential # None /\ credential + 1 = gen[b] /\ place'[c] = place[c]
      BY <1>1, <2>4 DEF Authenticate, ConnTypeOK, Passed
    <3>2. gen[c] <= credential
      BY <2>4, <3>1 DEF CredentialInv
    <3> QED BY <1>1, <2>1, <3>1, <3>2, BridgeAssumption DEF ConnTypeOK
  <2> QED BY <1>4, <2>1, <2>2, <2>3, <2>4, PassedBefore
<1>5. place[c] \in Passed \cup {"challenged"} \/ Greet(c)
  BY PassedBefore DEF Authenticate
<1>6. gen' = gen \/ \E a \in Conns : Greet(a) /\ gen' = [gen EXCEPT ![a] = credential + 1]
  BY DEF BridgeNext, ExecStep, ConnStep, PluginStep, bridgeVars, hubVars, Begin, GiveUp,
         Mismatch, Select, Enter, SendRequest, Settle, Lose, Expire, Bury, Greet, Authenticate,
         Register, Forward, TakeAnswer, TakeEvent, TakeGoodbye, StreamEnds, HeartbeatEnds,
         Unlist, Clear, Release, CredentialExpires, OpenSocket, TakeMessage, Finish, Edit,
         OnClose, ClickDisconnect, Reload
<1>7. ASSUME NEW a \in Conns, Greet(a), a # c, gen' = [gen EXCEPT ![a] = credential + 1]
      PROVE  gen'[b] <= gen'[c] /\ (place'[b] \in Passed /\ place'[c] \in Passed =>
                                       gen'[b] < gen'[c])
  <2>1. a # b
    BY <1>2, <1>7 DEF Greet, Proved, Passed
  <2>2. /\ gen'[b] = gen[b] /\ gen'[c] = gen[c]
        /\ place'[b] = place[b] /\ place'[c] = place[c]
    BY <1>7, <2>1 DEF Greet, ConnTypeOK
  <2> QED BY <1>2, <2>2 DEF GenInv
<1> QED BY <1>3, <1>4, <1>5, <1>6, <1>7

-----------------------------------------------------------------------------
(* Requests that were sent. *)

\* What was sent stays sent.
LEMMA SentStays ==
  ASSUME BridgeTypeOK, ExecInv, [BridgeNext]_bridgeVars, NEW r \in Requests, Sent(r)
  PROVE  Sent(r)'
<1> USE DEF BridgeTypeOK
<1>1. CASE UNCHANGED <<exec, verdict>>
  BY <1>1 DEF Sent
<1>2. ASSUME NEW q \in Requests, Begin(q) PROVE Sent(r)'
  <2>1. verdict[r] # "none"
    BY <1>2 DEF Begin, Sent
  <2>2. UNCHANGED verdict
    BY <1>2 DEF Begin
  <2> QED BY <2>1, <2>2 DEF Sent
<1>3. ASSUME NEW v \in Outcomes, Return(v) PROVE Sent(r)'
  <2>1. verdict' = [verdict EXCEPT ![exec.request] = v] /\ v # "none"
    BY <1>3 DEF Return, Outcomes
  <2>2. verdict[r] # "none" \/ exec.request = r
    BY DEF Sent
  <2>3. verdict'[r] # "none"
    BY <2>1, <2>2 DEF VerdictTypeOK
  <2> QED BY <2>3 DEF Sent
<1>4. CASE Select \/ Enter \/ Expire
  BY <1>4 DEF Select, Enter, Expire, Sent, ExecTypeOK, Executions
<1>5. CASE SendRequest
  BY <1>3, <1>5 DEF SendRequest, Sent, ExecTypeOK, Executions, Outcomes
<1>6. CASE Settle
  <2>1. Head(exec.mail).says \in Outcomes
    BY <1>6, AnExecution, AnswerFields DEF Settle
  <2> QED BY <1>3, <1>6, <2>1 DEF Settle, Outcomes
<1>7. ASSUME NEW c \in Conns, TakeAnswer(c) PROVE Sent(r)'
  BY <1>7 DEF TakeAnswer, Answered, Sent, ExecTypeOK, Executions
<1>8. CASE GiveUp \/ Mismatch \/ Lose \/ Bury
  BY <1>3, <1>8 DEF GiveUp, Mismatch, Lose, Bury, Outcomes
<1> QED BY <1>1, <1>2, <1>4, <1>5, <1>6, <1>7, <1>8
        DEF BridgeNext, ExecStep, ConnStep, PluginStep, bridgeVars, hubVars, pluginVars, Greet,
            Authenticate, Register, Forward, TakeEvent, TakeGoodbye, StreamEnds,
            HeartbeatEnds, Unlist, Clear, Release, CredentialExpires, TakeMessage, Edit,
            OnClose, ClickDisconnect, Reload, OpenSocket, Finish

\* The contents of the channels, as a set T of messages.
LEMMA Widened ==
  ASSUME NEW S, NEW T, S \subseteq T, NEW C, NEW q \in [C -> Seq(S)]
  PROVE  q \in [C -> Seq(T)]
  OBVIOUS

\* A queue that gets a message of T.
LEMMA EnqueuedInto ==
  ASSUME NEW T, queue \in [Conns -> Seq(T)], NEW c \in Conns, NEW m \in T, Enqueue(c, m)
  PROVE  queue' \in [Conns -> Seq(T)]
  BY DEF Enqueue

\* The queue of a session that is retired.
LEMMA RetiredInto ==
  ASSUME NEW T, queue \in [Conns -> Seq(T)], [kind |-> "close"] \in T,
         NEW c \in Conns, NEW b \in BOOLEAN, Retired(c, b)
  PROVE  queue' \in [Conns -> Seq(T)]
<1>1. CASE b
  BY <1>1, EnqueuedInto DEF Retired
<1>2. CASE ~b
  <2>1. queue' = [queue EXCEPT ![c] = <<>>]
    BY <1>2 DEF Retired
  <2> QED BY <2>1, Emptied
<1> QED BY <1>1, <1>2

\* The plugin is told a message of T.
LEMMA ToldInto ==
  ASSUME NEW T, toPlugin \in [Conns -> Seq(T)], NEW c \in Conns, NEW m \in T, Tell(c, m)
  PROVE  toPlugin' \in [Conns -> Seq(T)]
  BY DEF Tell

\* A socket that closes loses its messages.
LEMMA HungUpInto ==
  ASSUME NEW T, toPlugin \in [Conns -> Seq(T)], HangUp
  PROVE  toPlugin' \in [Conns -> Seq(T)]
<1>1. <<>> \in Seq(T)
  OBVIOUS
<1> QED BY <1>1 DEF HangUp

\* The window says a message of T.
LEMMA SaidInto ==
  ASSUME NEW T, toHub \in [Conns -> Seq(T)], NEW c \in Conns, NEW m \in T, Say(c, m)
  PROVE  toHub' \in [Conns -> Seq(T)]
  BY DEF Say

\* The thread says a message of T.
LEMMA PostedInto ==
  ASSUME NEW T, toHub \in [Conns -> Seq(T)], PluginTypeOK, SocketInv, NEW m \in T, Posted(m)
  PROVE  toHub' \in [Conns -> Seq(T)]
<1>1. CASE ui.active
  <2>1. ui.sock \in Conns
    BY <1>1, WindowFields DEF PluginTypeOK, SocketInv
  <2> QED BY <1>1, <2>1, SaidInto DEF Posted
<1>2. CASE ~ui.active
  BY <1>2 DEF Posted
<1> QED BY <1>1, <1>2

\* The hub queues no request that it has not sent.
LEMMA SentQueueKept ==
  ASSUME BridgeTypeOK, ExecInv, SentInv, [BridgeNext]_bridgeVars
  PROVE  queue' \in [Conns -> Seq(OfSent(Orders))']
<1> USE DEF BridgeTypeOK
<1> PICK T : T = OfSent(Orders)'
  OBVIOUS
<1>1. queue \in [Conns -> Seq(T)]
  <2>1. \A m \in Orders : m.kind = "request" => m.request \in Requests
    BY ToPluginMessages, ToPluginFields
  <2>2. \A m \in Orders : m.kind # "response"
    BY DEF Orders
  <2>3. OfSent(Orders) \subseteq T
    BY <2>1, <2>2, SentStays DEF OfSent
  <2> QED BY <2>3, Widened DEF SentInv
<1>2. [kind |-> "close"] \in T
  BY ToPluginMessages DEF OfSent
<1>3. CASE SendRequest
  <2>1. CASE UNCHANGED queue
    BY <1>1, <2>1
  <2>2. ASSUME Enqueue(exec.on, [kind |-> "request", request |-> exec.request,
                                 guard |-> exec.guard]),
               exec' = [exec EXCEPT !.at = "waiting"]
        PROVE  queue' \in [Conns -> Seq(T)]
    <3>1. exec.on \in Conns /\ exec.request \in Requests /\ exec.guard \in Nat \cup {None}
      BY <1>3, AnExecution DEF SendRequest, ExecInv
    <3>2. Sent(exec.request)'
      BY <2>2 DEF Sent, ExecTypeOK, Executions
    <3>3. [kind |-> "request", request |-> exec.request, guard |-> exec.guard] \in T
      BY <2>2, <3>1, <3>2, ToPluginMessages DEF OfSent, Sent, ExecTypeOK, Executions
    <3> QED BY <1>1, <2>2, <3>1, <3>3, EnqueuedInto
  <2> QED BY <1>3, <2>1, <2>2 DEF SendRequest
<1>4. ASSUME NEW c \in Conns, NEW b \in BOOLEAN, Retired(c, b)
      PROVE  queue' \in [Conns -> Seq(T)]
  BY <1>1, <1>2, <1>4, RetiredInto
<1>5. ASSUME NEW c, NEW b \in BOOLEAN, Invalidated(c, b)
      PROVE  queue' \in [Conns -> Seq(T)]
  <2>1. listed # None => listed \in Conns
    BY DEF ConnTypeOK
  <2> QED BY <1>1, <1>4, <1>5, <2>1 DEF Invalidated
<1>6. CASE Lose
  BY <1>5, <1>6 DEF Lose
<1>7. ASSUME NEW c \in Conns, Register(c) PROVE queue' \in [Conns -> Seq(T)]
  <2>1. listed # None => listed \in Conns
    BY DEF ConnTypeOK
  <2> QED BY <1>1, <1>4, <1>7, <2>1 DEF Register
<1>8. ASSUME NEW c \in Conns, Forward(c) PROVE queue' \in [Conns -> Seq(T)]
  <2>1. CASE queue[c] # <<>> /\ queue' = [queue EXCEPT ![c] = Tail(@)]
    BY <1>1, <2>1, Emptied
  <2>2. CASE UNCHANGED queue
    BY <1>1, <2>2
  <2> QED BY <1>8, <2>1, <2>2 DEF Forward
<1>9. ASSUME NEW c \in Conns, Unlist(c) PROVE queue' \in [Conns -> Seq(T)]
  BY <1>5, <1>9 DEF Unlist
<1>10. ASSUME NEW c \in Conns, Release(c) PROVE queue' \in [Conns -> Seq(T)]
  BY <1>1, <1>10, Emptied DEF Release
<1>11. CASE UNCHANGED queue
  BY <1>1, <1>11
<1> QED BY <1>3, <1>6, <1>7, <1>8, <1>9, <1>10, <1>11
        DEF BridgeNext, ExecStep, ConnStep, PluginStep, bridgeVars, hubVars, Begin, GiveUp,
            Mismatch, Select, Enter, Settle, Expire, Bury, Greet, Authenticate, TakeAnswer,
            TakeEvent, TakeGoodbye, StreamEnds, HeartbeatEnds, Clear, CredentialExpires,
            OpenSocket, TakeMessage, Finish, Edit, OnClose, ClickDisconnect, Reload

\* The plugin receives no request that was not sent.
LEMMA SentToPluginKept ==
  ASSUME BridgeTypeOK, ExecInv, SentInv, [BridgeNext]_bridgeVars
  PROVE  toPlugin' \in [Conns -> Seq(OfSent(ToPlugin))']
<1> USE DEF BridgeTypeOK
<1> PICK T : T = OfSent(ToPlugin)'
  OBVIOUS
<1>1. OfSent(ToPlugin) \subseteq T
  <2>1. \A m \in ToPlugin : m.kind = "request" => m.request \in Requests
    BY ToPluginFields
  <2>2. \A m \in ToPlugin : m.kind # "response"
    BY DEF ToPlugin, Orders
  <2> QED BY <2>1, <2>2, SentStays DEF OfSent
<1>2. toPlugin \in [Conns -> Seq(T)]
  BY <1>1, Widened DEF SentInv
<1>3. \A k \in {"challenge", "ready", "refused"} : [kind |-> k] \in T
  BY ToPluginMessages DEF OfSent
<1>4. ASSUME NEW c \in Conns, NEW k \in {"challenge", "ready", "refused"},
             Tell(c, [kind |-> k])
      PROVE  toPlugin' \in [Conns -> Seq(T)]
  BY <1>2, <1>3, <1>4, ToldInto
<1>5. ASSUME NEW c \in Conns, Greet(c) \/ Authenticate(c) \/ Register(c)
      PROVE  toPlugin' \in [Conns -> Seq(T)]
  BY <1>2, <1>4, <1>5 DEF Greet, Authenticate, Register
<1>6. ASSUME NEW c \in Conns, Forward(c) PROVE toPlugin' \in [Conns -> Seq(T)]
  <2>1. ASSUME queue[c] # <<>>, Tell(c, Head(queue[c]))
        PROVE  toPlugin' \in [Conns -> Seq(T)]
    <3>1. Head(queue[c]) \in OfSent(Orders)
      BY <2>1, Emptied DEF SentInv
    <3>2. Head(queue[c]) \in T
      BY <1>1, <3>1, ToPluginMessages DEF OfSent
    <3> QED BY <1>2, <2>1, <3>2, ToldInto
  <2> QED BY <1>2, <1>6, <2>1 DEF Forward
<1>7. ASSUME NEW c \in Conns, OpenSocket(c) PROVE toPlugin' \in [Conns -> Seq(T)]
  BY <1>2, <1>7 DEF OpenSocket
<1>8. CASE TakeMessage
  <2>1. CASE HangUp
    BY <1>2, <2>1, HungUpInto
  <2>2. CASE toPlugin[ui.sock] # <<>> /\ toPlugin' = [toPlugin EXCEPT ![ui.sock] = Tail(@)]
    <3>1. CASE ui.sock \in Conns
      BY <1>2, <2>2, <3>1, Emptied
    <3>2. CASE ui.sock \notin Conns
      BY <1>2, <2>2, <3>2
    <3> QED BY <3>1, <3>2
  <2> QED BY <1>8, <2>1, <2>2 DEF TakeMessage
<1>9. CASE OnClose \/ ClickDisconnect \/ Reload
  BY <1>2, <1>9, HungUpInto DEF OnClose, ClickDisconnect, Reload
<1>10. CASE UNCHANGED toPlugin
  BY <1>2, <1>10
<1> QED BY <1>5, <1>6, <1>7, <1>8, <1>9, <1>10
        DEF BridgeNext, ExecStep, ConnStep, PluginStep, bridgeVars, wireVars, Begin, GiveUp,
            Mismatch, Select, Enter, SendRequest, Settle, Lose, Expire, Bury, TakeAnswer,
            TakeEvent, TakeGoodbye, StreamEnds, HeartbeatEnds, Unlist, Clear, Release,
            CredentialExpires, Finish, Edit

\* What is at work was sent, and so was what is answered.
LEMMA SentToHubKept ==
  ASSUME BridgeTypeOK, ExecInv, SocketInv, SentInv, [BridgeNext]_bridgeVars
  PROVE  /\ toHub' \in [Conns -> Seq(OfSent(ToHub))']
         /\ \A r \in Requests : work'[r] # None => Sent(r)'
<1> USE DEF BridgeTypeOK
<1> PICK T : T = OfSent(ToHub)'
  OBVIOUS
<1>1. toHub \in [Conns -> Seq(T)]
  <2>1. \A m \in ToHub : m.kind = "response" => m.request \in Requests
    BY ToHubFields, AnswerFields
  <2>2. \A m \in ToHub : m.kind # "request"
    BY DEF ToHub, Answers
  <2>3. OfSent(ToHub) \subseteq T
    BY <2>1, <2>2, SentStays DEF OfSent
  <2> QED BY <2>3, Widened DEF SentInv
<1>2. \A m \in ToHub : m.kind \in {"hello", "event", "proof", "goodbye"} => m \in T
  BY DEF OfSent
<1>3. \A r \in Requests : Sent(r) => Sent(r)'
  BY SentStays
<1>4. ASSUME UNCHANGED work PROVE \A r \in Requests : work'[r] # None => Sent(r)'
  BY <1>3, <1>4 DEF SentInv
<1>5. ASSUME NEW c \in Conns, toHub[c] # <<>>, Hear(c) PROVE toHub' \in [Conns -> Seq(T)]
  BY <1>1, <1>5, Emptied DEF Hear
<1>6. ASSUME NEW c \in Conns, Greet(c) \/ Authenticate(c) \/ TakeAnswer(c) \/ TakeEvent(c)
                              \/ TakeGoodbye(c)
      PROVE  toHub' \in [Conns -> Seq(T)] /\ UNCHANGED work
  <2>1. toHub[c] # <<>> /\ Hear(c)
    BY <1>6 DEF Greet, Authenticate, TakeAnswer, TakeEvent, TakeGoodbye
  <2>2. UNCHANGED work
    BY <1>6 DEF Greet, Authenticate, TakeAnswer, TakeEvent, TakeGoodbye, pluginVars
  <2> QED BY <1>5, <2>1, <2>2
<1>7. ASSUME NEW c \in Conns, StreamEnds(c) \/ Unlist(c)
      PROVE  toHub' \in [Conns -> Seq(T)] /\ UNCHANGED work
  <2>1. toHub' = [toHub EXCEPT ![c] = <<>>] /\ UNCHANGED work
    BY <1>7 DEF StreamEnds, Unlist, pluginVars
  <2> QED BY <1>1, <2>1, Emptied
<1>8. ASSUME NEW c \in Conns, OpenSocket(c)
      PROVE  toHub' \in [Conns -> Seq(T)] /\ UNCHANGED work
  <2>1. ui.context \in Nat
    BY WindowFields DEF PluginTypeOK
  <2>2. [kind |-> "hello", revision |-> ui.context] \in T
    BY <1>2, <2>1, ToHubMessages
  <2> QED BY <1>1, <1>8, <2>2, SaidInto DEF OpenSocket
<1>9. CASE TakeMessage
  <2> DEFINE m == Head(toPlugin[ui.sock])
  <2>1. ui.sock \in Conns /\ m \in OfSent(ToPlugin)
    BY <1>9, WindowFields, Emptied DEF TakeMessage, PluginTypeOK, SentInv
  <2>2. CASE Say(ui.sock, [kind |-> "proof"]) /\ UNCHANGED work
    <3>1. [kind |-> "proof"] \in T
      BY <1>2, ToHubMessages
    <3> QED BY <1>1, <1>4, <2>1, <2>2, <3>1, SaidInto
  <2>3. CASE UNCHANGED <<toHub, work>>
    BY <1>1, <1>4, <2>3
  <2>4. CASE m.kind = "request" /\ work' = [work EXCEPT ![m.request] = ui.sock]
             /\ UNCHANGED toHub
    <3>1. m.request \in Requests /\ Sent(m.request)
      BY <2>1, <2>4, ToPluginFields DEF OfSent
    <3> QED BY <1>1, <1>3, <2>4, <3>1 DEF SentInv, PluginTypeOK
  <2>5. CASE m.kind = "request" /\ UNCHANGED work
             /\ Posted(Answer(m.request, ui.sock, "conflict", revision))
    <3>1. m.request \in Requests /\ Sent(m.request)
      BY <2>1, <2>5, ToPluginFields DEF OfSent
    <3> PICK r \in Requests : r = m.request
      BY <3>1
    <3>2. Sent(r)'
      BY <1>3, <3>1
    <3>3. Answer(r, ui.sock, "conflict", revision) \in T
      BY <2>1, <3>2, ToHubMessages DEF OfSent, Answer, Sent, PluginTypeOK
    <3> QED BY <1>1, <1>4, <2>5, <3>3, PostedInto
  <2> QED BY <1>9, <2>2, <2>3, <2>4, <2>5 DEF TakeMessage
<1>10. ASSUME NEW r \in Requests, Finish(r)
       PROVE  /\ toHub' \in [Conns -> Seq(T)]
              /\ \A q \in Requests : work'[q] # None => Sent(q)'
  <2>1. work[r] \in Conns /\ Sent(r)' /\ work' = [work EXCEPT ![r] = None]
    BY <1>3, <1>10 DEF Finish, SentInv, PluginTypeOK
  <2>2. PICK says \in {"ok", "failed"} : Posted(Answer(r, work[r], says, revision'))
    BY <1>10 DEF Finish
  <2>3. revision' \in Nat
    BY <1>10 DEF Finish, PluginTypeOK
  <2>4. Answer(r, work[r], says, revision') \in T
    BY <2>1, <2>2, <2>3, ToHubMessages DEF OfSent, Answer, Sent
  <2>5. toHub' \in [Conns -> Seq(T)]
    BY <1>1, <2>2, <2>4, PostedInto
  <2> QED BY <1>3, <2>1, <2>5 DEF SentInv, PluginTypeOK
<1>11. CASE Edit
  <2>1. revision' \in Nat /\ UNCHANGED work /\ Posted([kind |-> "event", revision |-> revision'])
    BY <1>11 DEF Edit, PluginTypeOK
  <2>2. [kind |-> "event", revision |-> revision'] \in T
    BY <1>2, <2>1, ToHubMessages
  <2> QED BY <1>1, <1>4, <2>1, <2>2, PostedInto
<1>12. CASE ClickDisconnect
  <2>1. [kind |-> "goodbye"] \in T
    BY <1>2, ToHubMessages
  <2> QED BY <1>1, <1>4, <1>12, <2>1, PostedInto DEF ClickDisconnect
<1>13. CASE Reload
  BY <1>1, <1>13 DEF Reload
<1>14. CASE UNCHANGED <<toHub, work>>
  BY <1>1, <1>4, <1>14
<1> QED BY <1>4, <1>6, <1>7, <1>8, <1>9, <1>10, <1>11, <1>12, <1>13, <1>14
        DEF BridgeNext, ExecStep, ConnStep, PluginStep, bridgeVars, wireVars, pluginVars,
            Begin, GiveUp, Mismatch, Select, Enter, SendRequest, Settle, Lose, Expire, Bury,
            Register, Forward, HeartbeatEnds, Clear, Release, CredentialExpires, OnClose

\* Nothing but a request that was sent is on its way, at work or answered.
LEMMA SentInvKept ==
  ASSUME BridgeTypeOK, ExecInv, SocketInv, SentInv, [BridgeNext]_bridgeVars
  PROVE  SentInv'
  BY SentQueueKept, SentToPluginKept, SentToHubKept DEF SentInv

-----------------------------------------------------------------------------
(* The session's entry and who waits for it. *)

\* An entry goes with its connection's task.
LEMMA ListedInvKept ==
  ASSUME BridgeTypeOK, ListedInv,
         [BridgeNext]_bridgeVars
  PROVE  ListedInv'
<1> USE DEF BridgeTypeOK
<1>1. CASE Lose
  BY <1>1, BridgeAssumption
     DEF Lose, Invalidated, Retired, Enqueue, Holds, Return, ListedInv, ConnTypeOK, Places
<1>2. ASSUME NEW c \in Conns, Greet(c) PROVE ListedInv'
  BY <1>2, BridgeAssumption
     DEF Greet, Hear, Tell, ListedInv, ConnTypeOK, Places
<1>3. ASSUME NEW c \in Conns, Authenticate(c) PROVE ListedInv'
  BY <1>3, BridgeAssumption
     DEF Authenticate, Hear, Tell, ListedInv, ConnTypeOK, Places
<1>4. ASSUME NEW c \in Conns, Register(c) PROVE ListedInv'
  BY <1>4, BridgeAssumption
     DEF Register, Tell, Retired, Enqueue, ListedInv, ConnTypeOK, Places
<1>5. ASSUME NEW c \in Conns, Forward(c) PROVE ListedInv'
  BY <1>5, BridgeAssumption
     DEF Forward, Tell, Leave, ListedInv, ConnTypeOK, Places
<1>6. ASSUME NEW c \in Conns, TakeAnswer(c) PROVE ListedInv'
  BY <1>6, BridgeAssumption
     DEF TakeAnswer, Hear, Answered, Waits, Leave, ListedInv, ConnTypeOK, Places
<1>7. ASSUME NEW c \in Conns, TakeGoodbye(c) PROVE ListedInv'
  BY <1>7, BridgeAssumption
     DEF TakeGoodbye, Hear, Leave, ListedInv, ConnTypeOK, Places
<1>8. ASSUME NEW c \in Conns, StreamEnds(c) PROVE ListedInv'
  BY <1>8, BridgeAssumption
     DEF StreamEnds, Leave, ListedInv, ConnTypeOK, Places
<1>9. ASSUME NEW c \in Conns, HeartbeatEnds(c) PROVE ListedInv'
  BY <1>9, BridgeAssumption
     DEF HeartbeatEnds, Leave, ListedInv, ConnTypeOK, Places
<1>10. ASSUME NEW c \in Conns, Unlist(c) PROVE ListedInv'
  BY <1>10, BridgeAssumption
     DEF Unlist, Invalidated, Retired, Holds, Leave, ListedInv, ConnTypeOK, Places
<1>11. ASSUME NEW c \in Conns, Clear(c) PROVE ListedInv'
  BY <1>11, BridgeAssumption
     DEF Clear, ListedInv, ConnTypeOK, Places
<1>12. ASSUME NEW c \in Conns, Release(c) PROVE ListedInv'
  BY <1>12, BridgeAssumption
     DEF Release, ListedInv, ConnTypeOK, Places
<1>13. ASSUME NEW c \in Conns, OpenSocket(c) PROVE ListedInv'
  BY <1>13, BridgeAssumption
     DEF OpenSocket, Say, Reads, ListedInv, ConnTypeOK, Places
<1>14. CASE UNCHANGED <<place, listed>>
  BY <1>14 DEF ListedInv, ConnTypeOK, Places
<1> QED BY <1>1, <1>2, <1>3, <1>4, <1>5, <1>6, <1>7, <1>8, <1>9, <1>10, <1>11, <1>12, <1>13,
           <1>14
        DEF BridgeNext, ExecStep, ConnStep, PluginStep, bridgeVars, hubVars, wireVars,
            pluginVars, Begin, GiveUp, Mismatch, Select, Enter, SendRequest, Settle, Expire,
            Bury, TakeEvent, CredentialExpires, TakeMessage, Finish, Edit, OnClose,
            ClickDisconnect, Reload

\* A socket that closes takes no entry away.
LEMMA HungUpLatest ==
  ASSUME JoinedTypeOK, LatestInv, HangUp, UNCHANGED <<place, listed>>
  PROVE  LatestInv'
<1>1. \A c \in Conns : joined'[c] => joined[c]
  BY DEF HangUp
<1> QED BY <1>1 DEF LatestInv

\* Nobody else takes away the entry of the connection that the plugin has open.
LEMMA LatestInvKept ==
  ASSUME BridgeTypeOK, SocketInv, ExecInv, TalkInv, GenInv, ListedInv, WaiterInv, LatestInv,
         [BridgeNext]_bridgeVars
  PROVE  LatestInv'
<1> USE DEF BridgeTypeOK
<1>1. CASE Lose
  <2>1. listed # exec.on \/ listed = None
    BY <1>1 DEF Lose, WaiterInv
  <2> QED BY <1>1, <2>1 DEF Lose, Invalidated, Holds, LatestInv, wireVars, pluginVars
<1>2. ASSUME NEW c \in Conns, Greet(c) PROVE LatestInv'
  BY <1>2
     DEF Greet, Hear, Tell, LatestInv, ConnTypeOK, JoinedTypeOK
<1>3. ASSUME NEW c \in Conns, Authenticate(c) PROVE LatestInv'
  BY <1>3
     DEF Authenticate, Hear, Tell, LatestInv, ConnTypeOK, JoinedTypeOK
<1>4. ASSUME NEW c \in Conns, Register(c) PROVE LatestInv'
  <2> SUFFICES ASSUME NEW b \in Conns, joined'[b], place'[b] = "serving", b # c
               PROVE  listed' = b
    BY <1>4 DEF Register, LatestInv, ConnTypeOK
  <2>1. place[b] = "serving" /\ joined[b] /\ listed = b
    BY <1>4 DEF Register, LatestInv, ConnTypeOK
  <2>2. ui.sock = b /\ c < b
    <3>1. ui.sock = b
      BY <2>1 DEF SocketInv
    <3>2. place[c] # "none"
      BY <1>4 DEF Register
    <3>3. c <= b
      BY <3>1, <3>2 DEF SocketInv
    <3> QED BY <3>1, <3>3, BridgeAssumption
  <2>3. gen[c] < gen[b]
    BY <1>4, <2>1, <2>2 DEF Register, GenInv, Proved, Passed
  <2>4. gen[c] \in Nat /\ gen[b] \in Nat /\ listed # None
    BY <2>1, BridgeAssumption DEF ConnTypeOK
  <2>5. listed # None /\ gen[c] <= gen[listed]
    BY <2>1, <2>3, <2>4
  <2> QED BY <1>4, <2>1, <2>5 DEF Register
<1>5. ASSUME NEW c \in Conns, Forward(c) PROVE LatestInv'
  BY <1>5
     DEF Forward, Tell, Leave, LatestInv, ConnTypeOK, JoinedTypeOK
<1>6. ASSUME NEW c \in Conns, TakeAnswer(c) PROVE LatestInv'
  BY <1>6
     DEF TakeAnswer, Hear, Answered, Waits, Leave, LatestInv, ConnTypeOK, JoinedTypeOK
<1>7. ASSUME NEW c \in Conns, TakeGoodbye(c) PROVE LatestInv'
  BY <1>7
     DEF TakeGoodbye, Hear, Leave, LatestInv, ConnTypeOK, JoinedTypeOK
<1>8. ASSUME NEW c \in Conns, StreamEnds(c) PROVE LatestInv'
  BY <1>8
     DEF StreamEnds, Leave, LatestInv, ConnTypeOK, JoinedTypeOK
<1>9. ASSUME NEW c \in Conns, HeartbeatEnds(c) PROVE LatestInv'
  BY <1>9
     DEF HeartbeatEnds, Leave, wireVars, LatestInv, ConnTypeOK, JoinedTypeOK
<1>10. ASSUME NEW c \in Conns, Unlist(c) PROVE LatestInv'
  <2>1. \A b \in Conns : place'[b] = "serving" => b # c /\ place[b] = "serving"
    BY <1>10 DEF Unlist, ConnTypeOK
  <2> QED BY <1>10, <2>1 DEF Unlist, Invalidated, Holds, LatestInv
<1>11. ASSUME NEW c \in Conns, Clear(c) PROVE LatestInv'
  BY <1>11
     DEF Clear, wireVars, LatestInv, ConnTypeOK, JoinedTypeOK
<1>12. ASSUME NEW c \in Conns, Release(c) PROVE LatestInv'
  BY <1>12
     DEF Release, wireVars, LatestInv, ConnTypeOK, JoinedTypeOK
<1>13. ASSUME NEW c \in Conns, OpenSocket(c) PROVE LatestInv'
  <2>1. \A b \in Conns : joined'[b] => b = c
    BY <1>13, BridgeAssumption DEF OpenSocket, SocketInv, JoinedTypeOK
  <2>2. place'[c] # "serving"
    BY <1>13, OpenedOnly
  <2> QED BY <2>1, <2>2 DEF LatestInv
<1>14. CASE TakeMessage
  BY <1>14, HungUpLatest DEF TakeMessage, LatestInv, hubVars
<1>15. CASE OnClose
  BY <1>15, HungUpLatest DEF OnClose, hubVars
<1>16. CASE ClickDisconnect
  BY <1>16, HungUpLatest DEF ClickDisconnect, hubVars
<1>17. CASE Reload
  BY <1>17, HungUpLatest DEF Reload, hubVars
<1>18. CASE UNCHANGED <<place, listed, joined>>
  BY <1>18 DEF LatestInv, ConnTypeOK, JoinedTypeOK
<1> QED BY <1>1, <1>2, <1>3, <1>4, <1>5, <1>6, <1>7, <1>8, <1>9, <1>10, <1>11, <1>12, <1>13,
           <1>14, <1>15, <1>16, <1>17, <1>18
        DEF BridgeNext, ExecStep, ConnStep, PluginStep, bridgeVars, hubVars, wireVars,
            pluginVars, Begin, GiveUp, Mismatch, Select, Enter, SendRequest, Settle, Expire,
            Bury, TakeEvent, CredentialExpires, Finish, Edit

\* The sender of an answer is dropped only with the entry, or by the answer.
LEMMA WaiterInvKept ==
  ASSUME BridgeTypeOK, ExecInv, ListedInv, SentInv, WaiterInv,
         [BridgeNext]_bridgeVars
  PROVE  WaiterInv'
<1> USE DEF BridgeTypeOK
<1>1. ASSUME exec'.at \notin {"entered", "waiting"} PROVE WaiterInv'
  BY <1>1 DEF WaiterInv
<1>2. CASE exec' = NoExecution \/ \E r \in Requests : Begin(r)
  <2>1. CASE exec' = NoExecution
    BY <1>1, <2>1 DEF NoExecution
  <2>2. ASSUME NEW r \in Requests, Begin(r) PROVE WaiterInv'
    BY <1>1, <2>2 DEF NoExecution, Begin
  <2> QED BY <1>2, <2>1, <2>2
<1>3. CASE Select \/ Expire
  BY <1>1, <1>3 DEF Select, Expire, ExecTypeOK, Executions
<1>4. CASE Enter
  <2>1. exec.request \in pending'[exec.on] /\ exec.on \in Conns
    BY <1>4 DEF Enter, ExecInv, WaitTypeOK
  <2>2. exec'.request = exec.request /\ exec'.on = exec.on
    BY <1>4 DEF Enter, ExecTypeOK, Executions
  <2> QED BY <2>1, <2>2 DEF WaiterInv
<1>5. CASE SendRequest
  <2>1. /\ exec.at = "entered" /\ UNCHANGED <<pending, listed>>
        /\ exec'.request = exec.request /\ exec'.on = exec.on /\ exec'.mail = exec.mail
        \/ exec' = NoExecution
    BY <1>5 DEF SendRequest, Return, ExecTypeOK, Executions
  <2> QED BY <1>2, <2>1 DEF WaiterInv
<1>6. ASSUME NEW c \in Conns, Register(c) PROVE WaiterInv'
  <2>1. CASE listed' = c
    <3>1. exec.at \in {"entered", "waiting"} => exec.on # c
      BY <1>6, BridgeAssumption DEF Register, ExecInv, Late
    <3> QED BY <1>6, <2>1, <3>1 DEF Register, WaiterInv
  <2>2. CASE UNCHANGED <<listed, pending, exec>>
    BY <2>2 DEF WaiterInv
  <2> QED BY <1>6, <2>1, <2>2 DEF Register
<1>7. ASSUME NEW c \in Conns, TakeAnswer(c) PROVE WaiterInv'
  <2> DEFINE m == Head(toHub[c])
  <2>1. CASE UNCHANGED <<pending, exec>>
    BY <1>7, <2>1 DEF TakeAnswer, WaiterInv
  <2>2. CASE exec.at = "waiting" /\ exec.on = c /\ exec' = [exec EXCEPT !.mail = <<m>>]
    BY <2>2 DEF WaiterInv, ExecTypeOK, Executions
  <2>3. CASE /\ pending' = [pending EXCEPT ![c] = @ \ {m.request}] /\ UNCHANGED exec
             /\ ~(exec.at = "waiting" /\ exec.on = c)
    <3>1. Sent(m.request)
      <4>1. m \in OfSent(ToHub)
        BY <1>7, Emptied DEF TakeAnswer, SentInv
      <4> QED BY <1>7, <4>1 DEF TakeAnswer, OfSent
    <3>2. exec.at = "entered" => exec.request # m.request
      BY <3>1 DEF Sent, ExecInv
    <3> QED BY <1>7, <2>3, <3>2 DEF TakeAnswer, WaiterInv, WaitTypeOK, ExecInv
  <2> QED BY <1>7, <2>1, <2>2, <2>3 DEF TakeAnswer, Answered
<1>8. ASSUME NEW c \in Conns, Unlist(c) PROVE WaiterInv'
  <2>1. UNCHANGED exec /\ (listed' = None \/ UNCHANGED <<listed, pending>>)
    BY <1>8 DEF Unlist, Invalidated
  <2> QED BY <2>1, BridgeAssumption DEF WaiterInv, ExecInv
<1>9. ASSUME NEW c \in Conns, Clear(c) PROVE WaiterInv'
  <2>1. listed # c
    BY <1>9, BridgeAssumption DEF Clear, ListedInv
  <2> QED BY <1>9, <2>1 DEF Clear, WaiterInv, WaitTypeOK, ExecInv
<1>10. CASE UNCHANGED <<exec, listed, pending>>
  BY <1>10 DEF WaiterInv
<1> QED BY <1>2, <1>3, <1>4, <1>5, <1>6, <1>7, <1>8, <1>9, <1>10
        DEF BridgeNext, ExecStep, ConnStep, PluginStep, bridgeVars, hubVars, GiveUp, Mismatch,
            Settle, Lose, Bury, Return, Greet, Authenticate, Forward, TakeEvent, TakeGoodbye,
            StreamEnds, HeartbeatEnds, Release, CredentialExpires, OpenSocket, TakeMessage,
            Finish, Edit, OnClose, ClickDisconnect, Reload

-----------------------------------------------------------------------------
(* Revisions. *)

\* While a socket is open the plugin's revision only grows.
LEMMA RevisionGrows ==
  ASSUME BridgeTypeOK, SocketInv, [BridgeNext]_bridgeVars, NEW b \in Conns, joined'[b]
  PROVE  /\ revision' \in Nat /\ revision <= revision'
         /\ joined[b] \/ (OpenSocket(b) /\ UNCHANGED revision)
<1> USE DEF BridgeTypeOK
<1>1. CASE HangUp
  <2>1. joined[b] /\ b # ui.sock
    BY <1>1 DEF HangUp
  <2> QED BY <2>1 DEF SocketInv
<1>2. ASSUME NEW c \in Conns, OpenSocket(c)
      PROVE  UNCHANGED revision /\ (joined[b] \/ OpenSocket(b))
  BY <1>2 DEF OpenSocket, JoinedTypeOK
<1>3. CASE UNCHANGED <<joined, revision>>
  BY <1>3 DEF PluginTypeOK
<1>4. ASSUME NEW r \in Requests, Finish(r)
      PROVE  UNCHANGED joined /\ revision' \in Nat /\ revision <= revision'
  BY <1>4 DEF Finish, PluginTypeOK
<1>5. CASE Edit
  BY <1>5 DEF Edit, PluginTypeOK
<1>6. CASE TakeMessage
  BY <1>1, <1>3, <1>6 DEF TakeMessage
<1>7. CASE OnClose \/ ClickDisconnect \/ Reload
  BY <1>1, <1>7 DEF OnClose, ClickDisconnect, Reload
<1>8. ASSUME ExecStep \/ (\E r \in Requests : Begin(r)) \/ CredentialExpires
             \/ UNCHANGED bridgeVars
      PROVE  UNCHANGED <<joined, revision>>
  BY <1>8 DEF ExecStep, bridgeVars, wireVars, pluginVars, Begin, GiveUp, Mismatch, Select,
              Enter, SendRequest, Settle, Lose, Expire, Bury, CredentialExpires
<1>9. ASSUME NEW c \in Conns, ConnStep(c) \/ HeartbeatEnds(c)
      PROVE  UNCHANGED <<joined, revision>>
  BY <1>9 DEF ConnStep, wireVars, pluginVars, Greet, Authenticate, Register, Forward,
              TakeAnswer, TakeEvent, TakeGoodbye, StreamEnds, HeartbeatEnds, Unlist, Clear,
              Release
<1>10. CASE PluginStep
  <2>1. ASSUME NEW r \in Requests, Finish(r)
        PROVE  revision' \in Nat /\ revision <= revision' /\ joined[b]
    BY <1>4, <2>1
  <2> QED BY <1>2, <1>5, <1>6, <1>7, <1>10, <2>1 DEF PluginStep, PluginTypeOK
<1> QED BY <1>3, <1>8, <1>9, <1>10 DEF BridgeNext

\* What the hub hears of an open socket.
LEMMA HeardRevision ==
  ASSUME BridgeTypeOK, RevisionInv, NEW c \in Conns, joined[c], toHub[c] # <<>>
  PROVE  /\ Head(toHub[c]).kind \in {"hello", "event", "response"} =>
              Head(toHub[c]).revision <= revision
         /\ Tail(toHub[c]) \in Seq(UpTo(revision))
<1>1. toHub[c] \in Seq(UpTo(revision))
  BY DEF RevisionInv
<1>2. Head(toHub[c]) \in UpTo(revision)
  BY <1>1
<1> QED BY <1>1, <1>2 DEF UpTo

\* An entry that is taken away forgets the revision.
LEMMA ForgottenSeen ==
  ASSUME BridgeTypeOK, NEW c \in Conns \cup {None}, NEW t \in BOOLEAN, Invalidated(c, t)
  PROVE  \A b \in Conns : seen'[b] \in {0, seen[b]}
  BY DEF Invalidated, Retired, BridgeTypeOK, SeenTypeOK, ConnTypeOK

\* The hub learns revisions from the open socket only.
LEMMA SeenStaysBehind ==
  ASSUME BridgeTypeOK, ExecInv, SocketInv, TalkInv, ListedInv, RevisionInv, [BridgeNext]_bridgeVars,
         NEW b \in Conns
  PROVE  /\ place'[b] = "none" => seen'[b] = 0
         /\ joined'[b] => seen'[b] <= revision'
<1> USE DEF BridgeTypeOK
<1> DEFINE Goal == /\ place'[b] = "none" => seen'[b] = 0
                   /\ joined'[b] => seen'[b] <= revision'
<1>1. place'[b] = "none" => place[b] = "none" /\ seen[b] = 0
  <2>1. CASE \A c \in Conns : ~OpenSocket(c)
    BY <2>1, PlacesAdvance DEF Advanced, RevisionInv
  <2>2. ASSUME NEW c \in Conns, OpenSocket(c), place'[b] = "none" PROVE place[b] = "none"
    BY <2>2, OpenedOnly
  <2> QED BY <2>1, <2>2 DEF RevisionInv
<1>2. joined'[b] => revision' \in Nat /\ seen[b] \in Nat /\ seen[b] <= revision'
  <2>1. ASSUME joined[b], revision <= revision', revision' \in Nat PROVE seen[b] <= revision'
    BY <2>1 DEF RevisionInv, SeenTypeOK, PluginTypeOK
  <2>2. ASSUME OpenSocket(b), revision' \in Nat PROVE seen[b] <= revision'
    BY <2>2, OpenedOnly DEF RevisionInv
  <2> QED BY <2>1, <2>2, RevisionGrows DEF SeenTypeOK
<1>3. ASSUME seen'[b] \in {0, seen[b]} PROVE Goal
  BY <1>1, <1>2, <1>3
<1>4. ASSUME NEW c \in Conns, Greet(c) PROVE Goal
  <2>1. CASE c = b
    <3>1. place[b] = "hello" /\ toHub[b] # <<>> /\ UNCHANGED <<joined, revision>>
      BY <1>4, <2>1 DEF Greet, pluginVars
    <3>2. Head(toHub[b]).kind = "hello"
      BY <3>1 DEF TalkInv, TalkOK, ToHubTypeOK
    <3>3. joined[b] => Head(toHub[b]).revision <= revision
      BY <3>1, <3>2, HeardRevision
    <3>4. seen'[b] = seen[b] \/ seen'[b] = Head(toHub[b]).revision
      BY <1>4, <2>1 DEF Greet, SeenTypeOK
    <3> QED BY <1>1, <1>2, <3>1, <3>3, <3>4
  <2>2. CASE c # b
    BY <1>3, <1>4, <2>2 DEF Greet, SeenTypeOK
  <2> QED BY <2>1, <2>2
<1>5. ASSUME NEW c \in Conns, TakeAnswer(c) PROVE Goal
  <2>1. CASE seen' = [seen EXCEPT ![b] = Head(toHub[b]).revision] /\ c = b /\ listed = b
    <3>1. place[b] = "serving" /\ toHub[b] # <<>> /\ UNCHANGED <<joined, revision>>
          /\ Head(toHub[b]).kind = "response"
      BY <1>5, <2>1 DEF TakeAnswer, pluginVars
    <3>2. joined[b] => Head(toHub[b]).revision <= revision
      BY <3>1, HeardRevision
    <3> QED BY <1>1, <2>1, <3>1, <3>2 DEF SeenTypeOK
  <2>2. CASE seen'[b] = seen[b]
    BY <1>3, <2>2
  <2> QED BY <1>5, <2>1, <2>2 DEF TakeAnswer, Answered, SeenTypeOK
<1>6. ASSUME NEW c \in Conns, TakeEvent(c) PROVE Goal
  <2>1. CASE c = b /\ listed = b
    <3>1. place[b] = "serving" /\ toHub[b] # <<>> /\ UNCHANGED <<joined, revision>>
          /\ Head(toHub[b]).kind = "event"
      BY <1>6, <2>1 DEF TakeEvent, pluginVars
    <3>2. joined[b] => Head(toHub[b]).revision <= revision
      BY <3>1, HeardRevision
    <3>3. seen'[b] \in {seen[b], Head(toHub[b]).revision}
      BY <1>6, <2>1 DEF TakeEvent, Later, SeenTypeOK
    <3> QED BY <1>1, <1>2, <3>1, <3>2, <3>3
  <2>2. CASE c # b \/ listed # b
    BY <1>3, <1>6, <2>2 DEF TakeEvent, SeenTypeOK
  <2> QED BY <2>1, <2>2
<1>7. CASE Settle
  <2>1. CASE listed = b /\ exec.on = b /\ seen' = [seen EXCEPT ![b] = Head(exec.mail).revision]
    <3>1. exec.mail # <<>> /\ UNCHANGED <<joined, revision, place>>
      BY <1>7 DEF Settle, wireVars, pluginVars
    <3>2. joined[b] => Head(exec.mail).revision <= revision
      BY <2>1, <3>1 DEF RevisionInv
    <3>3. place[b] # "none"
      BY <2>1, BridgeAssumption DEF ListedInv
    <3> QED BY <2>1, <3>1, <3>2, <3>3 DEF SeenTypeOK
  <2>2. CASE seen'[b] = seen[b]
    BY <1>3, <2>2
  <2> QED BY <1>7, <2>1, <2>2 DEF Settle, Current, SeenTypeOK
<1>8. CASE Lose
  BY <1>3, <1>8, ForgottenSeen, AnExecution DEF Lose
<1>9. ASSUME NEW c \in Conns, Register(c) PROVE Goal
  BY <1>3, <1>9 DEF Register, Retired, SeenTypeOK, ConnTypeOK
<1>10. ASSUME NEW c \in Conns, Unlist(c) PROVE Goal
  BY <1>3, <1>10, ForgottenSeen DEF Unlist
<1>11. CASE UNCHANGED seen
  BY <1>3, <1>11
<1> QED BY <1>4, <1>5, <1>6, <1>7, <1>8, <1>9, <1>10, <1>11
        DEF BridgeNext, ExecStep, ConnStep, PluginStep, bridgeVars, hubVars, Begin, GiveUp,
            Mismatch, Select, Enter, SendRequest, Expire, Bury, Authenticate, Forward,
            TakeGoodbye, StreamEnds, HeartbeatEnds, Clear, Release, CredentialExpires,
            OpenSocket, TakeMessage, Finish, Edit, OnClose, ClickDisconnect, Reload

\* The thread's messages, as one connection hears them.
LEMMA PostedBehind ==
  ASSUME NEW T, ToHubTypeOK, PluginTypeOK, SocketInv, NEW b \in Conns, toHub[b] \in Seq(T),
         NEW m \in T, Posted(m)
  PROVE  toHub'[b] \in Seq(T)
<1>1. CASE ui.active
  <2>1. ui.sock \in Conns
    BY <1>1, WindowFields DEF PluginTypeOK, SocketInv
  <2>2. toHub'[b] = toHub[b] \/ toHub'[b] = Append(toHub[b], m)
    BY <1>1, <2>1 DEF Posted, Say, ToHubTypeOK
  <2> QED BY <2>2
<1>2. CASE ~ui.active
  BY <1>2 DEF Posted
<1> QED BY <1>1, <1>2

\* What an open socket carries is no later than the plugin.
LEMMA SaidStaysBehind ==
  ASSUME BridgeTypeOK, SocketInv, TalkInv, RevisionInv, [BridgeNext]_bridgeVars,
         NEW b \in Conns, joined'[b]
  PROVE  toHub'[b] \in Seq(UpTo(revision'))
<1> USE DEF BridgeTypeOK
<1> PICK v \in Nat : v = revision'
  BY RevisionGrows
<1> SUFFICES toHub'[b] \in Seq(UpTo(v))
  OBVIOUS
<1>1. toHub[b] \in Seq(UpTo(v))
  <2>1. CASE joined[b] /\ revision <= v
    <3>1. UpTo(revision) \subseteq UpTo(v)
      <4>1. ASSUME NEW m \in ToHub, m.kind \in {"hello", "event", "response"}
            PROVE  m.revision \in Nat
        BY <4>1, ToHubFields, AnswerFields
      <4> QED BY <2>1, <4>1 DEF UpTo, PluginTypeOK
    <3> QED BY <2>1, <3>1 DEF RevisionInv
  <2>2. CASE OpenSocket(b)
    <3>1. toHub[b] = <<>>
      BY <2>2 DEF OpenSocket, TalkInv, TalkOK
    <3>2. \A S : <<>> \in Seq(S)
      OBVIOUS
    <3> QED BY <3>1, <3>2
  <2> QED BY <2>1, <2>2, RevisionGrows
<1>2. \A m \in ToHub : m.kind \in {"proof", "goodbye"} => m \in UpTo(v)
  BY DEF UpTo
<1>3. ASSUME NEW c \in Conns, toHub[c] # <<>>, Hear(c) PROVE toHub'[b] \in Seq(UpTo(v))
  BY <1>1, <1>3 DEF Hear, ToHubTypeOK
<1>4. ASSUME NEW c \in Conns, Greet(c) \/ Authenticate(c) \/ TakeAnswer(c) \/ TakeEvent(c)
                              \/ TakeGoodbye(c)
      PROVE  toHub'[b] \in Seq(UpTo(v))
  BY <1>3, <1>4 DEF Greet, Authenticate, TakeAnswer, TakeEvent, TakeGoodbye
<1>5. ASSUME NEW c \in Conns, StreamEnds(c) \/ Unlist(c) PROVE toHub'[b] \in Seq(UpTo(v))
  <2>1. toHub' = [toHub EXCEPT ![c] = <<>>]
    BY <1>5 DEF StreamEnds, Unlist
  <2> QED BY <1>1, <2>1 DEF ToHubTypeOK
<1>6. ASSUME NEW c \in Conns, OpenSocket(c) PROVE toHub'[b] \in Seq(UpTo(v))
  <2>1. [kind |-> "hello", revision |-> ui.context] \in UpTo(v)
    BY <1>6, WindowFields, ToHubMessages DEF OpenSocket, RevisionInv, UpTo, PluginTypeOK
  <2> QED BY <1>1, <1>6, <2>1 DEF OpenSocket, Say, ToHubTypeOK
<1>7. CASE TakeMessage
  <2> DEFINE m == Head(toPlugin[ui.sock])
  <2>1. ui.sock \in Conns /\ m \in ToPlugin /\ v = revision
    BY <1>7, WindowFields, Emptied DEF TakeMessage, PluginTypeOK, ToPluginTypeOK
  <2>2. CASE Say(ui.sock, [kind |-> "proof"])
    <3>1. [kind |-> "proof"] \in UpTo(v)
      BY <1>2, ToHubMessages
    <3> QED BY <1>1, <2>1, <2>2, <3>1 DEF Say, ToHubTypeOK
  <2>3. CASE m.kind = "request" /\ Posted(Answer(m.request, ui.sock, "conflict", revision))
    <3>1. Answer(m.request, ui.sock, "conflict", revision) \in UpTo(v)
      BY <2>1, <2>3, ToPluginFields, ToHubMessages DEF UpTo, Answer
    <3> QED BY <1>1, <2>3, <3>1, PostedBehind
  <2> QED BY <1>1, <1>7, <2>2, <2>3 DEF TakeMessage
<1>8. ASSUME NEW r \in Requests, Finish(r) PROVE toHub'[b] \in Seq(UpTo(v))
  <2>1. PICK says \in {"ok", "failed"} : Posted(Answer(r, work[r], says, v)) /\ work[r] \in Conns
    BY <1>8 DEF Finish, PluginTypeOK
  <2>2. Answer(r, work[r], says, v) \in UpTo(v)
    BY <2>1, ToHubMessages DEF UpTo, Answer
  <2> QED BY <1>1, <2>1, <2>2, PostedBehind
<1>9. CASE Edit
  <2>1. Posted([kind |-> "event", revision |-> v])
    BY <1>9 DEF Edit
  <2>2. [kind |-> "event", revision |-> v] \in UpTo(v)
    BY ToHubMessages DEF UpTo
  <2> QED BY <1>1, <2>1, <2>2, PostedBehind
<1>10. CASE ClickDisconnect
  <2>1. [kind |-> "goodbye"] \in UpTo(v)
    BY <1>2, ToHubMessages
  <2> QED BY <1>1, <1>10, <2>1, PostedBehind DEF ClickDisconnect
<1>11. CASE UNCHANGED toHub
  BY <1>1, <1>11
<1> QED BY <1>4, <1>5, <1>6, <1>7, <1>8, <1>9, <1>10, <1>11
        DEF BridgeNext, ExecStep, ConnStep, PluginStep, bridgeVars, wireVars, Begin, GiveUp,
            Mismatch, Select, Enter, SendRequest, Settle, Lose, Expire, Bury, Register,
            Forward, HeartbeatEnds, Clear, Release, CredentialExpires, OnClose, Reload

\* Nor is the answer that was delivered.
LEMMA MailStaysBehind ==
  ASSUME BridgeTypeOK, ExecInv, SocketInv, RevisionInv, [BridgeNext]_bridgeVars,
         NEW b \in Conns, joined'[b], exec'.on = b, exec'.mail # <<>>
  PROVE  Head(exec'.mail).revision <= revision'
<1> USE DEF BridgeTypeOK
<1>1. CASE exec'.mail = exec.mail /\ exec.mail # <<>> /\ exec.on = b
  <2>1. place[b] \in Late /\ Head(exec.mail).revision \in Nat
    BY <1>1, AnExecution, AnswerFields, BridgeAssumption DEF ExecInv
  <2>2. joined[b] /\ revision <= revision' /\ revision' \in Nat
    BY <2>1, RevisionGrows DEF OpenSocket, Late
  <2>3. Head(exec.mail).revision <= revision
    BY <1>1, <2>2 DEF RevisionInv
  <2> QED BY <1>1, <2>1, <2>2, <2>3 DEF PluginTypeOK
<1>2. ASSUME NEW c \in Conns, TakeAnswer(c), exec' # exec
      PROVE  Head(exec'.mail).revision <= revision'
  <2>1. /\ exec.on = c /\ exec' = [exec EXCEPT !.mail = <<Head(toHub[c])>>]
        /\ UNCHANGED <<joined, revision>> /\ toHub[c] # <<>>
        /\ Head(toHub[c]).kind = "response"
    BY <1>2 DEF TakeAnswer, Answered, pluginVars
  <2>2. exec'.on = c /\ exec'.mail = <<Head(toHub[c])>>
    BY <2>1 DEF ExecTypeOK, Executions
  <2> QED BY <2>1, <2>2, HeardRevision DEF RevisionInv
<1>3. ASSUME NEW r \in Requests, Begin(r) PROVE exec'.mail = <<>>
  BY <1>3 DEF Begin, NoExecution
<1>4. CASE exec' = NoExecution
  BY <1>4 DEF NoExecution
<1>5. CASE Expire
  BY <1>5 DEF Expire, ExecTypeOK, Executions
<1>6. CASE Select
  BY <1>6 DEF Select, ExecInv, ExecTypeOK, Executions
<1>7. CASE Enter
  BY <1>1, <1>7 DEF Enter, ExecTypeOK, Executions
<1>8. CASE SendRequest
  BY <1>1, <1>4, <1>8 DEF SendRequest, Return, ExecTypeOK, Executions
<1>9. CASE UNCHANGED exec
  BY <1>1, <1>9
<1> QED BY <1>2, <1>3, <1>4, <1>5, <1>6, <1>7, <1>8, <1>9
        DEF BridgeNext, ExecStep, ConnStep, PluginStep, bridgeVars, hubVars, GiveUp, Mismatch,
            Settle, Lose, Bury, Return, Greet, Authenticate, Register, Forward, TakeEvent,
            TakeGoodbye, StreamEnds, HeartbeatEnds, Unlist, Clear, Release,
            CredentialExpires, OpenSocket, TakeMessage, Finish, Edit, OnClose,
            ClickDisconnect, Reload

\* Nor is what the window remembers.
LEMMA ContextStaysBehind ==
  ASSUME PluginTypeOK, RevisionInv, [BridgeNext]_bridgeVars
  PROVE  ui'.context <= revision'
<1>1. ui \in Windows /\ ui.context \in Nat /\ revision \in Nat /\ ui.context <= revision
  BY WindowFields DEF PluginTypeOK, RevisionInv
<1>2. CASE Reload
  BY <1>1, <1>2 DEF Reload, Closed, Windows
<1>3. CASE Edit
  BY <1>1, <1>3 DEF Edit, Later, Windows
<1>4. ASSUME NEW r \in Requests, Finish(r) PROVE ui'.context <= revision'
  BY <1>1, <1>4 DEF Finish
<1>5. ASSUME NEW c \in Conns, OpenSocket(c) PROVE ui'.context <= revision'
  BY <1>1, <1>5 DEF OpenSocket, Windows
<1>6. CASE TakeMessage \/ OnClose \/ ClickDisconnect
  BY <1>1, <1>6 DEF TakeMessage, OnClose, ClickDisconnect, Closed, Windows
<1>7. CASE UNCHANGED <<ui, revision>>
  BY <1>1, <1>7
<1> QED BY <1>2, <1>3, <1>4, <1>5, <1>6, <1>7
        DEF BridgeNext, ExecStep, ConnStep, PluginStep, bridgeVars, pluginVars, Begin, GiveUp,
            Mismatch, Select, Enter, SendRequest, Settle, Lose, Expire, Bury, Greet,
            Authenticate, Register, Forward, TakeAnswer, TakeEvent, TakeGoodbye, StreamEnds,
            HeartbeatEnds, Unlist, Clear, Release, CredentialExpires

\* The hub never believes in a later revision than the plugin has.
LEMMA RevisionInvKept ==
  ASSUME BridgeTypeOK, ExecInv, SocketInv, TalkInv, ListedInv, RevisionInv, [BridgeNext]_bridgeVars
  PROVE  RevisionInv'
<1> USE DEF BridgeTypeOK
<1>1. ui'.context <= revision'
  BY ContextStaysBehind
<1> QED BY <1>1, SeenStaysBehind, SaidStaysBehind, MailStaysBehind DEF RevisionInv

-----------------------------------------------------------------------------
(* Where a request is, and who remembers it. *)

\* A message at the end of a channel.
LEMMA LongerChannel ==
  ASSUME NEW S, NEW s \in Seq(S), NEW m \in S
  PROVE  /\ ~Concerns(m) => Named(Append(s, m)) = Named(s)
         /\ Concerns(m) => Named(Append(s, m)) = Named(s) \cup {m.request}
         /\ Once(s) /\ (Concerns(m) => m.request \notin Named(s)) => Once(Append(s, m))
         /\ \A c : \/ OwnAnswers(Append(s, m), c) \subseteq OwnAnswers(s, c)
                   \/ /\ m.kind = "response" /\ m.via = c
                      /\ OwnAnswers(Append(s, m), c) \subseteq OwnAnswers(s, c) \cup {m.request}
<1>1. PICK longer : longer = Append(s, m)
  OBVIOUS
<1>2. /\ DOMAIN longer = 1 .. Len(s) + 1 /\ DOMAIN s = 1 .. Len(s) /\ Len(s) \in Nat
      /\ longer[Len(s) + 1] = m /\ \A n \in DOMAIN s : longer[n] = s[n]
  BY <1>1
<1>3. DOMAIN longer = DOMAIN s \cup {Len(s) + 1} /\ Len(s) + 1 \notin DOMAIN s
  BY <1>2
<1>4. /\ ~Concerns(m) => Named(longer) = Named(s)
      /\ Concerns(m) => Named(longer) = Named(s) \cup {m.request}
  BY <1>2, <1>3 DEF Named
<1>5. Once(s) /\ (Concerns(m) => m.request \notin Named(s)) => Once(longer)
  BY <1>2, <1>3 DEF Named, Once
<1>6. ASSUME NEW c
      PROVE  \/ OwnAnswers(longer, c) \subseteq OwnAnswers(s, c)
             \/ /\ m.kind = "response" /\ m.via = c
                /\ OwnAnswers(longer, c) \subseteq OwnAnswers(s, c) \cup {m.request}
  BY <1>2, <1>3 DEF OwnAnswers
<1> QED BY <1>1, <1>4, <1>5, <1>6

\* The message at the head of a channel is taken from it.
LEMMA ShorterChannel ==
  ASSUME NEW S, NEW s \in Seq(S), s # <<>>
  PROVE  /\ Head(s) \in S
         /\ Named(Tail(s)) \subseteq Named(s)
         /\ \A c : OwnAnswers(Tail(s), c) \subseteq OwnAnswers(s, c)
         /\ \A c : Head(s).kind = "response" /\ Head(s).via = c
                     => Head(s).request \in OwnAnswers(s, c)
         /\ Concerns(Head(s)) => Head(s).request \in Named(s)
         /\ Once(s) => /\ Once(Tail(s))
                       /\ Concerns(Head(s)) => Head(s).request \notin Named(Tail(s))
<1>1. PICK shorter : shorter = Tail(s)
  OBVIOUS
<1>2. /\ Len(s) \in Nat \ {0} /\ DOMAIN s = 1 .. Len(s) /\ DOMAIN shorter = 1 .. Len(s) - 1
      /\ \A n \in DOMAIN shorter : shorter[n] = s[n + 1]
      /\ Head(s) = s[1] /\ Head(s) \in S
  BY <1>1
<1>3. /\ 1 \in DOMAIN s
      /\ \A n \in DOMAIN shorter : n + 1 \in DOMAIN s /\ n + 1 # 1
      /\ \A k, n \in DOMAIN shorter : k + 1 = n + 1 => k = n
  BY <1>2
<1>4. Named(shorter) \subseteq Named(s)
  BY <1>2, <1>3 DEF Named
<1>5. \A c : /\ OwnAnswers(shorter, c) \subseteq OwnAnswers(s, c)
             /\ Head(s).kind = "response" /\ Head(s).via = c
                  => Head(s).request \in OwnAnswers(s, c)
  BY <1>2, <1>3 DEF OwnAnswers
<1>6. Concerns(Head(s)) => Head(s).request \in Named(s)
  BY <1>2, <1>3 DEF Named
<1>7. Once(s) => Once(shorter)
  BY <1>2, <1>3 DEF Once
<1>8. Once(s) /\ Concerns(Head(s)) => Head(s).request \notin Named(shorter)
  BY <1>2, <1>3 DEF Once, Named
<1> QED BY <1>1, <1>2, <1>4, <1>5, <1>6, <1>7, <1>8

\* An empty channel.
LEMMA EmptyChannel ==
  Named(<<>>) = {} /\ Once(<<>>) /\ \A c : OwnAnswers(<<>>, c) = {}
  BY DEF Named, Once, OwnAnswers

\* The channels p name what the channels q name, or less.
Fewer(q, p) == \A c \in Conns : /\ Named(p[c]) \subseteq Named(q[c])
                                /\ Once(q[c]) => Once(p[c])
                                /\ OwnAnswers(p[c], c) \subseteq OwnAnswers(q[c], c)

\* A channel is emptied or loses its first message.
LEMMA FewerNamed ==
  ASSUME NEW S, NEW q \in [Conns -> Seq(S)], NEW c \in Conns
  PROVE  /\ Fewer(q, q) /\ Fewer(q, [q EXCEPT ![c] = <<>>])
         /\ q[c] # <<>> => Fewer(q, [q EXCEPT ![c] = Tail(@)])
<1>1. Fewer(q, q)
  BY DEF Fewer
<1>2. Fewer(q, [q EXCEPT ![c] = <<>>])
  BY EmptyChannel DEF Fewer
<1>3. q[c] # <<>> => Fewer(q, [q EXCEPT ![c] = Tail(@)])
  BY ShorterChannel DEF Fewer
<1> QED BY <1>1, <1>2, <1>3

\* A message that names no request goes to the end of a channel.
LEMMA NoneNamed ==
  ASSUME NEW S, NEW q \in [Conns -> Seq(S)], NEW c \in Conns, NEW m \in S, ~Concerns(m)
  PROVE  Fewer(q, [q EXCEPT ![c] = Append(@, m)])
<1>1. q[c] \in Seq(S) /\ m.kind # "response"
  BY DEF Concerns
<1>2. /\ Named(Append(q[c], m)) \subseteq Named(q[c])
      /\ Once(q[c]) => Once(Append(q[c], m))
      /\ OwnAnswers(Append(q[c], m), c) \subseteq OwnAnswers(q[c], c)
  BY <1>1, LongerChannel
<1> QED BY <1>2 DEF Fewer

\* Only SendRequest puts a request into a queue.
LEMMA QueueFewer ==
  ASSUME QueueTypeOK, ConnTypeOK, [BridgeNext]_bridgeVars
  PROVE  Fewer(queue, queue') \/ SendRequest
<1>0. queue \in [Conns -> Seq(Orders)]
  BY DEF QueueTypeOK
<1>1. UNCHANGED queue => Fewer(queue, queue')
  BY <1>0 DEF Fewer
<1>2. ASSUME NEW c \in Conns, NEW b \in BOOLEAN, Retired(c, b) PROVE Fewer(queue, queue')
  <2>1. PICK m : m = [kind |-> "close"]
    OBVIOUS
  <2>2. m \in Orders /\ ~Concerns(m)
    BY <2>1, ToPluginMessages DEF Concerns
  <2>3. \/ UNCHANGED queue \/ queue' = [queue EXCEPT ![c] = <<>>]
        \/ queue' = [queue EXCEPT ![c] = Append(@, m)]
    BY <1>0, <1>2, <2>1 DEF Retired, Enqueue
  <2>4. CASE queue' = [queue EXCEPT ![c] = Append(@, m)]
    BY ONLY <1>0, <2>2, <2>4, c \in Conns, NoneNamed
  <2> QED BY <1>0, <1>1, <2>3, <2>4, FewerNamed
<1>3. ASSUME NEW c, NEW b \in BOOLEAN, Invalidated(c, b) PROVE Fewer(queue, queue')
  <2>1. listed # None => listed \in Conns
    BY DEF ConnTypeOK
  <2> QED BY <1>1, <1>2, <1>3, <2>1 DEF Invalidated
<1>4. CASE Lose
  BY <1>3, <1>4 DEF Lose
<1>5. ASSUME NEW c \in Conns, Register(c) PROVE Fewer(queue, queue')
  <2>1. listed # None => listed \in Conns
    BY DEF ConnTypeOK
  <2> QED BY <1>1, <1>2, <1>5, <2>1 DEF Register
<1>6. ASSUME NEW c \in Conns, Forward(c) PROVE Fewer(queue, queue')
  <2>1. CASE queue[c] # <<>> /\ queue' = [queue EXCEPT ![c] = Tail(@)]
    BY <1>0, <2>1, FewerNamed
  <2> QED BY <1>1, <1>6, <2>1 DEF Forward
<1>7. ASSUME NEW c \in Conns, Unlist(c) PROVE Fewer(queue, queue')
  BY <1>3, <1>7 DEF Unlist
<1>8. ASSUME NEW c \in Conns, Release(c) PROVE Fewer(queue, queue')
  BY <1>0, <1>8, FewerNamed DEF Release
<1> QED BY <1>1, <1>4, <1>5, <1>6, <1>7, <1>8
        DEF BridgeNext, ExecStep, ConnStep, PluginStep, bridgeVars, hubVars, Begin, GiveUp,
            Mismatch, Select, Enter, Settle, Expire, Bury, Greet, Authenticate, TakeAnswer,
            TakeEvent, TakeGoodbye, StreamEnds, HeartbeatEnds, Clear, CredentialExpires,
            OpenSocket, TakeMessage, Finish, Edit, OnClose, ClickDisconnect, Reload

\* A socket that closes loses what it had.
LEMMA HungUpFewer ==
  ASSUME ToPluginTypeOK, HangUp
  PROVE  Fewer(toPlugin, toPlugin')
<1>1. \A c \in Conns : toPlugin'[c] \in {<<>>, toPlugin[c]}
  BY DEF HangUp
<1> QED BY <1>1, EmptyChannel DEF Fewer

\* Only Forward writes a request to the socket.
LEMMA ToPluginFewer ==
  ASSUME ToPluginTypeOK, PluginTypeOK, [BridgeNext]_bridgeVars
  PROVE  Fewer(toPlugin, toPlugin') \/ \E c \in Conns : Forward(c)
<1>0. toPlugin \in [Conns -> Seq(ToPlugin)]
  BY DEF ToPluginTypeOK
<1>1. UNCHANGED toPlugin => Fewer(toPlugin, toPlugin')
  BY <1>0 DEF Fewer
<1>2. ASSUME NEW c \in Conns, NEW k \in {"challenge", "ready", "refused"},
             Tell(c, [kind |-> k])
      PROVE  Fewer(toPlugin, toPlugin')
  <2>1. [kind |-> k] \in ToPlugin /\ ~Concerns([kind |-> k])
    BY ToPluginMessages DEF Concerns
  <2>2. UNCHANGED toPlugin \/ toPlugin' = [toPlugin EXCEPT ![c] = Append(@, [kind |-> k])]
    BY <1>0, <1>2 DEF Tell
  <2>3. CASE toPlugin' = [toPlugin EXCEPT ![c] = Append(@, [kind |-> k])]
    BY <1>0, <2>1, <2>3, NoneNamed
  <2> QED BY <1>1, <2>2, <2>3
<1>3. ASSUME NEW c \in Conns, Greet(c) \/ Authenticate(c) \/ Register(c)
      PROVE  Fewer(toPlugin, toPlugin')
  BY <1>1, <1>2, <1>3 DEF Greet, Authenticate, Register
<1>4. CASE TakeMessage
  <2>1. ui.sock \in Conns /\ toPlugin[ui.sock] # <<>>
    BY <1>4, WindowFields DEF TakeMessage, PluginTypeOK
  <2>2. HangUp \/ toPlugin' = [toPlugin EXCEPT ![ui.sock] = Tail(@)]
    BY <1>4 DEF TakeMessage
  <2> QED BY <1>0, <2>1, <2>2, HungUpFewer, FewerNamed
<1>5. CASE OnClose \/ ClickDisconnect \/ Reload
  BY <1>5, HungUpFewer DEF OnClose, ClickDisconnect, Reload
<1> QED BY <1>1, <1>3, <1>4, <1>5
        DEF BridgeNext, ExecStep, ConnStep, PluginStep, bridgeVars, wireVars, Begin, GiveUp,
            Mismatch, Select, Enter, SendRequest, Settle, Lose, Expire, Bury, TakeAnswer,
            TakeEvent, TakeGoodbye, StreamEnds, HeartbeatEnds, Unlist, Clear, Release,
            CredentialExpires, OpenSocket, Finish, Edit

\* What the window says, if it says anything, goes to the connection it has open.
LEMMA PostedWhere ==
  ASSUME ToHubTypeOK, PluginTypeOK, SocketInv, NEW m, Posted(m)
  PROVE  \/ UNCHANGED toHub
         \/ ui.sock \in Conns /\ toHub' = [toHub EXCEPT ![ui.sock] = Append(@, m)]
<1>1. CASE ui.active
  <2>1. ui.sock \in Conns
    BY <1>1, WindowFields DEF SocketInv, PluginTypeOK
  <2> QED BY <1>1, <2>1 DEF Posted, Say, ToHubTypeOK
<1>2. CASE ~ui.active
  BY <1>2 DEF Posted
<1> QED BY <1>1, <1>2

\* Work is begun and ended, and answers are given, by TakeMessage and Finish only.
LessWork == \A r \in Requests : work'[r] \in {work[r], None}

\* Every other step leaves what is at work or answered as it is, or less of it.
LEMMA ToHubFewer ==
  ASSUME ToHubTypeOK, PluginTypeOK, SocketInv, [BridgeNext]_bridgeVars
  PROVE  \/ Fewer(toHub, toHub') /\ LessWork
         \/ TakeMessage \/ \E r \in Requests : Finish(r)
<1>0. toHub \in [Conns -> Seq(ToHub)]
  BY DEF ToHubTypeOK
<1>1. UNCHANGED toHub => Fewer(toHub, toHub')
  BY <1>0 DEF Fewer
<1>2. UNCHANGED work => LessWork
  BY DEF LessWork
<1>3. ASSUME NEW m \in ToHub, ~Concerns(m), Posted(m) PROVE Fewer(toHub, toHub')
  <2>1. CASE ui.sock \in Conns /\ toHub' = [toHub EXCEPT ![ui.sock] = Append(@, m)]
    <3>1. PICK c \in Conns : toHub' = [toHub EXCEPT ![c] = Append(@, m)]
      BY <2>1
    <3> QED BY <1>0, <1>3, <3>1, NoneNamed
  <2> QED BY <1>1, <1>3, <2>1, PostedWhere
<1>4. ASSUME NEW c \in Conns, Greet(c) \/ Authenticate(c) \/ TakeAnswer(c) \/ TakeEvent(c)
                              \/ TakeGoodbye(c)
      PROVE  Fewer(toHub, toHub') /\ UNCHANGED work
  <2>1. toHub[c] # <<>> /\ toHub' = [toHub EXCEPT ![c] = Tail(@)]
    BY <1>4 DEF Greet, Authenticate, TakeAnswer, TakeEvent, TakeGoodbye, Hear
  <2>2. UNCHANGED work
    BY <1>4 DEF Greet, Authenticate, TakeAnswer, TakeEvent, TakeGoodbye, pluginVars
  <2> QED BY <1>0, <2>1, <2>2, FewerNamed
<1>5. ASSUME NEW c \in Conns, StreamEnds(c) \/ Unlist(c)
      PROVE  Fewer(toHub, toHub') /\ UNCHANGED work
  <2>1. toHub' = [toHub EXCEPT ![c] = <<>>] /\ UNCHANGED work
    BY <1>5 DEF StreamEnds, Unlist, pluginVars
  <2> QED BY <1>0, <2>1, FewerNamed
<1>6. ASSUME NEW c \in Conns, OpenSocket(c) PROVE Fewer(toHub, toHub') /\ UNCHANGED work
  <2>1. ui.context \in Nat
    BY WindowFields DEF PluginTypeOK
  <2>2. PICK m : m = [kind |-> "hello", revision |-> ui.context]
    OBVIOUS
  <2>3. m \in ToHub /\ ~Concerns(m)
    BY <2>1, <2>2, ToHubMessages DEF Concerns
  <2>4. /\ UNCHANGED toHub \/ toHub' = [toHub EXCEPT ![c] = Append(@, m)]
        /\ UNCHANGED work
    BY <1>0, <1>6, <2>2 DEF OpenSocket, Say
  <2>5. ASSUME toHub' = [toHub EXCEPT ![c] = Append(@, m)] PROVE Fewer(toHub, toHub')
    BY <1>0, <2>3, <2>5, NoneNamed
  <2> QED BY <1>1, <2>4, <2>5
<1>7. CASE Edit
  <2>1. revision' \in Nat /\ UNCHANGED work
    BY <1>7 DEF Edit, PluginTypeOK
  <2>2. PICK m : m = [kind |-> "event", revision |-> revision']
    OBVIOUS
  <2>3. m \in ToHub /\ ~Concerns(m) /\ Posted(m)
    BY <1>7, <2>1, <2>2, ToHubMessages DEF Concerns, Edit
  <2> QED BY <1>2, <1>3, <2>1, <2>3
<1>8. CASE ClickDisconnect
  <2>1. [kind |-> "goodbye"] \in ToHub /\ ~Concerns([kind |-> "goodbye"])
    BY ToHubMessages DEF Concerns
  <2> QED BY <1>2, <1>3, <1>8, <2>1 DEF ClickDisconnect
<1>9. CASE Reload
  BY <1>1, <1>9 DEF Reload, LessWork
<1>10. CASE UNCHANGED <<toHub, work>>
  BY <1>1, <1>2, <1>10
<1> QED BY <1>2, <1>4, <1>5, <1>6, <1>7, <1>8, <1>9, <1>10
        DEF BridgeNext, ExecStep, ConnStep, PluginStep, bridgeVars, wireVars, pluginVars,
            Begin, GiveUp, Mismatch, Select, Enter, SendRequest, Settle, Lose, Expire, Bury,
            Register, Forward, HeartbeatEnds, Clear, Release, CredentialExpires, OnClose

\* What was not sent is nowhere.
LEMMA UnsentNowhere ==
  ASSUME SentInv, NEW r \in Requests, ~Sent(r)
  PROVE  /\ work[r] = None
         /\ \A c \in Conns : /\ r \notin Named(queue[c]) /\ r \notin Named(toPlugin[c])
                             /\ r \notin Named(toHub[c])
<1>1. work[r] = None
  BY DEF SentInv
<1>2. ASSUME NEW S, NEW s \in Seq(OfSent(S)) PROVE r \notin Named(s)
  <2>1. \A n \in DOMAIN s : s[n] \in OfSent(S)
    OBVIOUS
  <2>2. \A n \in DOMAIN s : Concerns(s[n]) => Sent(s[n].request)
    BY <2>1 DEF OfSent, Concerns
  <2> QED BY <2>2 DEF Named
<1>3. \A c \in Conns : /\ queue[c] \in Seq(OfSent(Orders)) /\ toPlugin[c] \in Seq(OfSent(ToPlugin))
                       /\ toHub[c] \in Seq(OfSent(ToHub))
  BY DEF SentInv
<1> QED BY <1>1, <1>2, <1>3

\* A message that names a request is put into a channel.
Gains(q, p, c, r) ==
  /\ \A b \in Conns \ {c} : p[b] = q[b]
  /\ Named(p[c]) \subseteq Named(q[c]) \cup {r}
  /\ Once(q[c]) /\ r \notin Named(q[c]) => Once(p[c])

\* A message that names one goes to the end of a channel.
LEMMA OneNamed ==
  ASSUME NEW S, NEW q \in [Conns -> Seq(S)], NEW c \in Conns, NEW m \in S, Concerns(m)
  PROVE  Gains(q, [q EXCEPT ![c] = Append(@, m)], c, m.request)
<1>1. q[c] \in Seq(S)
  OBVIOUS
<1>2. /\ Named(Append(q[c], m)) \subseteq Named(q[c]) \cup {m.request}
      /\ Once(q[c]) /\ m.request \notin Named(q[c]) => Once(Append(q[c], m))
  BY <1>1, LongerChannel
<1> QED BY <1>2 DEF Gains

\* The first message of a channel is taken from it.
LEMMA HeadTaken ==
  ASSUME NEW S, NEW q \in [Conns -> Seq(S)], NEW c \in Conns, q[c] # <<>>, Once(q[c]),
         Concerns(Head(q[c]))
  PROVE  /\ Head(q[c]).request \in Named(q[c])
         /\ Head(q[c]).request \notin Named(Tail(q[c])) /\ Head(q[c]) \in S
<1>1. q[c] \in Seq(S)
  OBVIOUS
<1> QED BY <1>1, ShorterChannel

\* A step that puts no request anywhere.
LEMMA OnceLessened ==
  ASSUME OnceInv, Fewer(queue, queue'), Fewer(toPlugin, toPlugin'),
         Fewer(toHub, toHub'), LessWork
  PROVE  OnceInv' /\ \A c \in Conns : Unanswered(c)' \subseteq Unanswered(c)
<1>1. \A c \in Conns : /\ Named(queue'[c]) \subseteq Named(queue[c])
                       /\ Named(toPlugin'[c]) \subseteq Named(toPlugin[c])
                       /\ Named(toHub'[c]) \subseteq Named(toHub[c])
                       /\ OwnAnswers(toHub'[c], c) \subseteq OwnAnswers(toHub[c], c)
                       /\ Once(queue'[c]) /\ Once(toPlugin'[c]) /\ Once(toHub'[c])
  BY DEF Fewer, OnceInv
<1>2. \A r \in Requests : work'[r] # None => work'[r] = work[r]
  BY DEF LessWork
<1>3. OnceInv'
  <2>1. ASSUME NEW b \in Conns, NEW c \in Conns PROVE Apart(b, c)'
    <3>1. Apart(b, c)
      BY DEF OnceInv
    <3> QED BY <1>1, <3>1 DEF Apart
  <2>2. ASSUME NEW r \in Requests, NEW c \in Conns, work'[r] # None
        PROVE  /\ r \notin Named(queue'[c]) /\ r \notin Named(toPlugin'[c])
               /\ r \notin Named(toHub'[c])
    BY <1>1, <1>2, <2>2 DEF OnceInv
  <2> QED BY <1>1, <2>1, <2>2 DEF OnceInv
<1>4. ASSUME NEW c \in Conns, NEW r \in Requests, work'[r] = c PROVE work[r] = c
  BY <1>2, <1>4, BridgeAssumption
<1> QED BY <1>1, <1>3, <1>4 DEF Unanswered

\* A request is in one place of that kind after a step that moved no other.
InOnePlace(r, d, at) ==
  /\ \A c \in Conns :
        /\ Named(queue'[c]) \subseteq Named(queue[c]) \cup {r}
        /\ Named(toPlugin'[c]) \subseteq Named(toPlugin[c]) \cup {r}
        /\ Named(toHub'[c]) \subseteq Named(toHub[c]) \cup {r}
        /\ Once(queue'[c]) /\ Once(toPlugin'[c]) /\ Once(toHub'[c])
        /\ r \in Named(queue'[c]) => at = "queue" /\ c = d
        /\ r \in Named(toPlugin'[c]) => at = "wire" /\ c = d
        /\ r \in Named(toHub'[c]) => at = "answer" /\ c = d
  /\ \A x \in Requests : work'[x] # None => (x # r /\ work[x] # None) \/ (x = r /\ at = "work")

\* Such a step keeps every request in one place.
LEMMA OnePlace ==
  ASSUME OnceInv, NEW r, NEW d, NEW at, InOnePlace(r, d, at)
  PROVE  OnceInv'
<1>1. ASSUME NEW b \in Conns, NEW c \in Conns PROVE Apart(b, c)'
  <2>1. Apart(b, c)
    BY DEF OnceInv
  <2> QED BY <2>1 DEF InOnePlace, Apart
<1>2. ASSUME NEW x \in Requests, NEW c \in Conns, work'[x] # None
      PROVE  x \notin Named(queue'[c]) /\ x \notin Named(toPlugin'[c]) /\ x \notin Named(toHub'[c])
  <2>1. work[x] # None =>
          x \notin Named(queue[c]) /\ x \notin Named(toPlugin[c]) /\ x \notin Named(toHub[c])
    BY DEF OnceInv
  <2> QED BY <1>2, <2>1 DEF InOnePlace
<1> QED BY <1>1, <1>2 DEF OnceInv, InOnePlace

\* Requests move on one by one, or are lost; only SendRequest adds one.
Added(c, r) == /\ c = exec.on /\ r = exec.request /\ SendRequest
               /\ exec' = [exec EXCEPT !.at = "waiting"] /\ UNCHANGED <<pending, listed>>

\* Only an added request is where none was, and none is in two places.
LEMMA RequestsMove ==
  ASSUME BridgeTypeOK, ExecInv, SocketInv, SentInv, OnceInv, [BridgeNext]_bridgeVars
  PROVE  OnceInv' /\ \A c \in Conns : \A r \in Unanswered(c)' : r \in Unanswered(c) \/ Added(c, r)
<1> USE DEF BridgeTypeOK
<1>0. /\ queue \in [Conns -> Seq(Orders)] /\ toPlugin \in [Conns -> Seq(ToPlugin)]
      /\ toHub \in [Conns -> Seq(ToHub)] /\ work \in [Requests -> Conns \cup {None}]
  BY DEF QueueTypeOK, ToPluginTypeOK, ToHubTypeOK, PluginTypeOK
<1>1. /\ UNCHANGED queue => Fewer(queue, queue')
      /\ UNCHANGED toPlugin => Fewer(toPlugin, toPlugin')
      /\ UNCHANGED toHub => Fewer(toHub, toHub')
      /\ UNCHANGED work => LessWork
  BY DEF Fewer, LessWork
<1>2. \A c \in Conns : Once(queue[c]) /\ Once(toPlugin[c]) /\ Once(toHub[c])
  BY DEF OnceInv
<1>3. ASSUME Fewer(queue, queue'), Fewer(toPlugin, toPlugin'), Fewer(toHub, toHub'), LessWork
      PROVE  OnceInv' /\ \A c \in Conns : Unanswered(c)' \subseteq Unanswered(c)
  BY <1>3, OnceLessened
<1>4. CASE SendRequest
  <2>1. UNCHANGED <<toPlugin, toHub, work>>
    BY <1>4 DEF SendRequest, wireVars, pluginVars
  <2>2. PICK d \in Conns, r \in Requests : d = exec.on /\ r = exec.request
    BY <1>4 DEF SendRequest, ExecInv
  <2>3. PICK m : m = [kind |-> "request", request |-> r, guard |-> exec.guard]
    OBVIOUS
  <2>4. CASE UNCHANGED queue
    BY <1>1, <1>3, <2>1, <2>4
  <2>5. CASE /\ queue' = [queue EXCEPT ![d] = Append(@, m)] /\ UNCHANGED <<pending, listed>>
             /\ exec' = [exec EXCEPT !.at = "waiting"]
    <3>1. m \in Orders /\ Concerns(m) /\ m.request = r
      BY <2>2, <2>3, AnExecution, ToPluginMessages DEF Concerns
    <3>2. Gains(queue, queue', d, r)
      BY <1>0, <2>5, <3>1, OneNamed
    <3>3. ~Sent(r)
      BY <1>4, <2>2 DEF SendRequest, Sent, ExecInv
    <3>4. /\ work[r] = None
          /\ \A c \in Conns : r \notin Named(queue[c]) /\ r \notin Named(toPlugin[c])
                              /\ r \notin Named(toHub[c])
      BY <3>3, UnsentNowhere
    <3>5. \A c \in Conns : /\ Named(queue'[c]) \subseteq Named(queue[c]) \cup {r}
                           /\ c # d => queue'[c] = queue[c]
                           /\ Once(queue'[c])
      BY <1>2, <3>2, <3>4 DEF Gains
    <3>6. OnceInv'
      <4>1. InOnePlace(r, d, "queue")
        BY <1>2, <2>1, <3>4, <3>5 DEF InOnePlace
      <4> QED BY <4>1, OnePlace
    <3>7. \A c \in Conns : \A x \in Unanswered(c)' : x \in Unanswered(c) \/ (c = d /\ x = r)
      BY <2>1, <3>5 DEF Unanswered
    <3> QED BY <1>4, <2>2, <2>5, <3>6, <3>7 DEF Added
  <2> QED BY <1>4, <2>2, <2>3, <2>4, <2>5, <1>0 DEF SendRequest, Enqueue
<1>5. ASSUME NEW d \in Conns, Forward(d)
      PROVE  OnceInv' /\ \A c \in Conns : Unanswered(c)' \subseteq Unanswered(c)
  <2>1. UNCHANGED <<toHub, work>>
    BY <1>5 DEF Forward, pluginVars
  <2>2. CASE queue[d] = <<>>
    BY <1>1, <1>3, <1>5, <2>1, <2>2 DEF Forward
  <2>3. CASE queue[d] # <<>>
    <3>1. PICK m : m = Head(queue[d])
      OBVIOUS
    <3>2. /\ queue' = [queue EXCEPT ![d] = Tail(@)]
          /\ UNCHANGED toPlugin \/ toPlugin' = [toPlugin EXCEPT ![d] = Append(@, m)]
      BY <1>0, <1>5, <2>3, <3>1 DEF Forward, Tell
    <3>3. Fewer(queue, queue') /\ m \in Orders /\ m \in ToPlugin
      <4>1. Fewer(queue, queue')
        BY <1>0, <2>3, <3>2, FewerNamed
      <4>2. m \in Orders
        BY <1>0, <2>3, <3>1, Emptied
      <4> QED BY <4>1, <4>2, ToPluginMessages
    <3>4. CASE UNCHANGED toPlugin \/ ~Concerns(m)
      <4>1. Fewer(toPlugin, toPlugin')
        <5>1. CASE ~Concerns(m) /\ toPlugin' = [toPlugin EXCEPT ![d] = Append(@, m)]
          BY <1>0, <3>3, <5>1, NoneNamed
        <5> QED BY <1>1, <3>2, <3>4, <5>1
      <4> QED BY <1>1, <1>3, <2>1, <3>3, <4>1
    <3>5. CASE Concerns(m) /\ toPlugin' = [toPlugin EXCEPT ![d] = Append(@, m)]
      <4>1. PICK r : r = m.request
        OBVIOUS
      <4>2. r \in Named(queue[d]) /\ r \notin Named(queue'[d])
        <5>1. queue'[d] = Tail(queue[d]) /\ Once(queue[d])
          BY <1>0, <1>2, <3>2
        <5> QED BY <1>0, <2>3, <3>1, <3>5, <4>1, <5>1, HeadTaken
      <4>3. Gains(toPlugin, toPlugin', d, r)
        BY <1>0, <3>3, <3>5, <4>1, OneNamed
      <4>4. \A c \in Conns : /\ c # d => r \notin Named(queue[c])
                             /\ r \notin Named(toPlugin[c]) /\ r \notin Named(toHub[c])
        BY <4>2 DEF OnceInv, Apart
      <4>5. r \in Requests => work[r] = None
        BY <4>2 DEF OnceInv, Apart
      <4>6. \A c \in Conns : /\ Named(queue'[c]) \subseteq Named(queue[c]) /\ Once(queue'[c])
                             /\ Named(toPlugin'[c]) \subseteq Named(toPlugin[c]) \cup {r}
                             /\ c # d => toPlugin'[c] = toPlugin[c]
                             /\ Once(toPlugin'[c])
        BY <1>2, <3>3, <4>3, <4>4 DEF Gains, Fewer
      <4>7. OnceInv'
        <5>1. \A c \in Conns :
                 /\ r \notin Named(queue'[c]) /\ r \notin Named(toHub'[c])
                 /\ r \in Named(toPlugin'[c]) => c = d
          BY <2>1, <4>2, <4>4, <4>6
        <5>2. \A x \in Requests : work'[x] # None => x # r /\ work[x] # None
          BY <2>1, <4>5
        <5>3. InOnePlace(r, d, "wire")
          BY <1>2, <2>1, <4>6, <5>1, <5>2 DEF InOnePlace
        <5> QED BY <5>3, OnePlace
      <4> QED BY <2>1, <4>2, <4>6, <4>7 DEF Unanswered
    <3> QED BY <3>2, <3>4, <3>5
  <2> QED BY <2>2, <2>3
<1>6. ASSUME NEW d \in Conns, NEW k \in Conns, NEW r \in Requests, NEW m \in ToHub, Concerns(m),
             m.request = r, m.kind = "response", m.via = k, UNCHANGED queue,
             Fewer(toPlugin, toPlugin'),
             \/ r \in Named(toPlugin[k]) /\ r \notin Named(toPlugin'[k]) /\ UNCHANGED work
             \/ work[r] = k /\ UNCHANGED toPlugin /\ work' = [work EXCEPT ![r] = None],
             toHub' = [toHub EXCEPT ![d] = Append(@, m)]
      PROVE  OnceInv' /\ \A c \in Conns : Unanswered(c)' \subseteq Unanswered(c)
  <2>1. Gains(toHub, toHub', d, r)
    BY <1>0, <1>6, OneNamed
  <2>2. \A c \in Conns : /\ r \notin Named(queue[c]) /\ r \notin Named(toHub[c])
                         /\ r \notin Named(toPlugin'[c])
    <3>1. CASE r \in Named(toPlugin[k]) /\ r \notin Named(toPlugin'[k])
      <4>1. \A c \in Conns : /\ r \notin Named(queue[c]) /\ r \notin Named(toHub[c])
                             /\ c # k => r \notin Named(toPlugin[c])
        BY <3>1 DEF OnceInv, Apart
      <4> QED BY <1>6, <3>1, <4>1 DEF Fewer
    <3>2. CASE work[r] = k /\ UNCHANGED toPlugin
      <4>1. work[r] # None
        BY <3>2, BridgeAssumption
      <4> QED BY <3>2, <4>1 DEF OnceInv, Apart
    <3> QED BY <1>6, <3>1, <3>2
  <2>3. \A x \in Requests : work'[x] # None => x # r /\ work'[x] = work[x]
    <3>1. CASE r \in Named(toPlugin[k]) /\ UNCHANGED work
      BY <3>1 DEF OnceInv, Apart
    <3>2. CASE work' = [work EXCEPT ![r] = None]
      BY <1>0, <3>2
    <3> QED BY <1>6, <3>1, <3>2
  <2>4. \A c \in Conns : /\ Named(toHub'[c]) \subseteq Named(toHub[c]) \cup {r} /\ Once(toHub'[c])
                         /\ c # d => toHub'[c] = toHub[c]
                         /\ Named(toPlugin'[c]) \subseteq Named(toPlugin[c])
                         /\ Once(toPlugin'[c])
    BY <1>2, <1>6, <2>1, <2>2 DEF Gains, Fewer
  <2>5. OnceInv'
    <3>1. \A c \in Conns : r \notin Named(queue'[c]) /\ (r \in Named(toHub'[c]) => c = d)
      BY <1>6, <2>2, <2>4
    <3>2. InOnePlace(r, d, "answer")
      BY <1>2, <1>6, <2>2, <2>3, <2>4, <3>1 DEF InOnePlace
    <3> QED BY <3>2, OnePlace
  <2>6. \A c \in Conns : OwnAnswers(toHub'[c], c) \subseteq OwnAnswers(toHub[c], c)
                           \cup (IF c = k THEN {r} ELSE {})
    <3>1. ASSUME NEW c \in Conns
          PROVE  OwnAnswers(toHub'[c], c) \subseteq OwnAnswers(toHub[c], c)
                   \cup (IF c = k THEN {r} ELSE {})
      <4>1. toHub[c] \in Seq(ToHub) /\ toHub'[c] \in {toHub[c], Append(toHub[c], m)}
        BY <1>0, <1>6
      <4> QED BY <1>6, <4>1, LongerChannel
    <3> QED BY <3>1
  <2>7. r \in Unanswered(k)
    BY <1>6 DEF Unanswered
  <2>8. ASSUME NEW c \in Conns, NEW x \in Requests, work'[x] = c PROVE work[x] = c
    BY <2>3, <2>8, BridgeAssumption
  <2> QED BY <1>6, <2>4, <2>5, <2>6, <2>7, <2>8 DEF Unanswered
<1>7. CASE TakeMessage
  <2>1. PICK d \in Conns : d = ui.sock
    BY <1>7, WindowFields DEF TakeMessage, PluginTypeOK
  <2>2. PICK m : m = Head(toPlugin[d])
    OBVIOUS
  <2>3. toPlugin[d] # <<>> /\ UNCHANGED queue /\ m \in ToPlugin
    BY <1>0, <1>7, <2>1, <2>2, Emptied DEF TakeMessage, hubVars
  <2>4. Fewer(toPlugin, toPlugin')
    <3>1. HangUp \/ toPlugin' = [toPlugin EXCEPT ![d] = Tail(@)]
      BY <1>7, <2>1 DEF TakeMessage
    <3>2. CASE toPlugin' = [toPlugin EXCEPT ![d] = Tail(@)]
      BY <1>0, <2>3, <3>2, FewerNamed
    <3> QED BY <3>1, <3>2, HungUpFewer
  <2>5. CASE m.kind # "request"
    <3>1. UNCHANGED work /\ (UNCHANGED toHub \/ Say(d, [kind |-> "proof"]))
      BY <1>7, <2>1, <2>2, <2>5 DEF TakeMessage
    <3>2. PICK s : s = [kind |-> "proof"]
      OBVIOUS
    <3>3. s \in ToHub /\ ~Concerns(s)
      BY <3>2, ToHubMessages DEF Concerns
    <3>4. UNCHANGED toHub \/ toHub' = [toHub EXCEPT ![d] = Append(@, s)]
      BY <1>0, <3>1, <3>2 DEF Say
    <3>5. ASSUME toHub' = [toHub EXCEPT ![d] = Append(@, s)] PROVE Fewer(toHub, toHub')
      BY <1>0, <3>3, <3>5, NoneNamed
    <3> QED BY <1>1, <1>3, <2>3, <2>4, <3>1, <3>4, <3>5
  <2>6. CASE m.kind = "request"
    <3>1. PICK r \in Requests : r = m.request
      BY <2>3, <2>6, ToPluginFields
    <3>2. toPlugin' = [toPlugin EXCEPT ![d] = Tail(@)]
      BY <1>7, <2>1, <2>2, <2>6 DEF TakeMessage
    <3>3. r \in Named(toPlugin[d]) /\ r \notin Named(toPlugin'[d])
      <4>1. Concerns(m)
        BY <2>6 DEF Concerns
      <4>2. toPlugin'[d] = Tail(toPlugin[d]) /\ Once(toPlugin[d])
        BY <1>0, <1>2, <3>2
      <4> QED BY <1>0, <2>2, <2>3, <3>1, <4>1, <4>2, HeadTaken
    <3>4. CASE work' = [work EXCEPT ![r] = d] /\ UNCHANGED toHub
      <4>1. \A c \in Conns : /\ r \notin Named(queue[c]) /\ r \notin Named(toHub[c])
                             /\ c # d => r \notin Named(toPlugin[c])
        BY <3>3 DEF OnceInv, Apart
      <4>2. \A c \in Conns : /\ Named(toPlugin'[c]) \subseteq Named(toPlugin[c])
                             /\ Once(toPlugin'[c]) /\ r \notin Named(toPlugin'[c])
        BY <1>2, <2>4, <3>3, <4>1 DEF Fewer
      <4>3. \A x \in Requests : work'[x] = IF x = r THEN d ELSE work[x]
        BY <1>0, <3>4
      <4>4. OnceInv'
        <5>1. InOnePlace(r, d, "work")
          BY <1>2, <2>3, <3>4, <4>1, <4>2, <4>3 DEF InOnePlace
        <5> QED BY <5>1, OnePlace
      <4>5. r \in Unanswered(d)
        BY <3>3 DEF Unanswered
      <4> QED BY <2>3, <3>4, <4>2, <4>3, <4>4, <4>5 DEF Unanswered
    <3>5. CASE Posted(Answer(r, d, "conflict", revision)) /\ UNCHANGED work
      <4>1. PICK a : a = Answer(r, d, "conflict", revision)
        OBVIOUS
      <4>2. /\ a \in ToHub /\ Concerns(a) /\ a.request = r /\ a.kind = "response"
            /\ a.via = d
        BY <4>1, ToHubMessages DEF Answer, Concerns, PluginTypeOK
      <4>3. UNCHANGED toHub \/ \E c \in Conns : toHub' = [toHub EXCEPT ![c] = Append(@, a)]
        BY <3>5, <4>1, PostedWhere
      <4> QED BY <1>1, <1>3, <1>6, <2>3, <2>4, <3>3, <3>5, <4>2, <4>3
    <3> QED BY <1>7, <2>1, <2>2, <2>6, <3>1, <3>4, <3>5 DEF TakeMessage
  <2> QED BY <2>5, <2>6
<1>8. ASSUME NEW r \in Requests, Finish(r)
      PROVE  OnceInv' /\ \A c \in Conns : Unanswered(c)' \subseteq Unanswered(c)
  <2>1. PICK k \in Conns : work[r] = k
    BY <1>0, <1>8 DEF Finish
  <2>2. UNCHANGED <<queue, toPlugin>> /\ work' = [work EXCEPT ![r] = None] /\ revision' \in Nat
    BY <1>8 DEF Finish, hubVars, PluginTypeOK
  <2>3. PICK says \in {"ok", "failed"} : Posted(Answer(r, k, says, revision'))
    BY <1>8, <2>1 DEF Finish
  <2>4. PICK a : a = Answer(r, k, says, revision')
    OBVIOUS
  <2>5. a \in ToHub /\ Concerns(a) /\ a.request = r /\ a.kind = "response" /\ a.via = k
    BY <2>2, <2>4, ToHubMessages DEF Answer, Concerns
  <2>6. UNCHANGED toHub \/ \E c \in Conns : toHub' = [toHub EXCEPT ![c] = Append(@, a)]
    BY <2>3, <2>4, PostedWhere
  <2>7. CASE UNCHANGED toHub
    <3>1. LessWork
      BY <1>0, <2>2 DEF LessWork
    <3> QED BY <1>1, <1>3, <2>2, <2>7, <3>1
  <2> QED BY <1>1, <1>6, <2>1, <2>2, <2>5, <2>6, <2>7
<1>9. CASE ~SendRequest /\ (\A c \in Conns : ~Forward(c)) /\ ~TakeMessage
            /\ \A r \in Requests : ~Finish(r)
  BY <1>3, <1>9, QueueFewer, ToPluginFewer, ToHubFewer
<1> QED BY <1>4, <1>5, <1>7, <1>8, <1>9

\* What a connection carried and was not answered is forgotten only with its entry.
LEMMA MemoryInvKept ==
  ASSUME BridgeTypeOK, ExecInv, SocketInv, SentInv, ListedInv, WaiterInv, OnceInv, MemoryInv,
         [BridgeNext]_bridgeVars
  PROVE  MemoryInv'
<1> USE DEF BridgeTypeOK
<1>1. \A c \in Conns : place[c] \in Late => place'[c] \in Late
  BY LateStays
<1>2. \A c \in Conns : \A r \in Unanswered(c)' : r \in Unanswered(c) \/ Added(c, r)
  BY RequestsMove
<1>3. ASSUME NEW c \in Conns, NEW r, Added(c, r)
      PROVE  place'[c] \in Late /\ (listed' = c => Remembered(c, r)')
  <2>1. exec.at = "entered" /\ exec.on = c /\ exec.request = r /\ exec.mail = <<>>
    BY <1>3 DEF Added, SendRequest, ExecInv
  <2>2. place[c] \in Late
    BY <2>1, BridgeAssumption DEF ExecInv
  <2>3. listed = c => r \in pending[c]
    BY <2>1 DEF WaiterInv
  <2> QED BY <1>1, <1>3, <2>2, <2>3 DEF Added, Remembered
<1> SUFFICES ASSUME NEW c \in Conns, NEW r \in Unanswered(c), r \in Unanswered(c)', listed' = c
             PROVE  Remembered(c, r)'
  BY <1>1, <1>2, <1>3 DEF MemoryInv
<1>4. place[c] \in Late /\ (listed = c => Remembered(c, r))
  BY DEF MemoryInv
<1>5. listed = c
  <2>1. ASSUME NEW b \in Conns, Register(b) PROVE listed = c
    BY <1>4, <2>1 DEF Register, Late
  <2>2. ASSUME NEW b, NEW told, Invalidated(b, told) PROVE listed = c
    BY <2>2, BridgeAssumption DEF Invalidated
  <2>3. CASE UNCHANGED listed
    BY <2>3
  <2> QED BY <2>1, <2>2, <2>3
          DEF BridgeNext, ExecStep, ConnStep, PluginStep, bridgeVars, hubVars, Begin, GiveUp,
              Mismatch, Select, Enter, SendRequest, Settle, Lose, Expire, Bury, Greet,
              Authenticate, Forward, TakeAnswer, TakeEvent, TakeGoodbye, StreamEnds,
              HeartbeatEnds, Unlist, Clear, Release, CredentialExpires, OpenSocket,
              TakeMessage, Finish, Edit, OnClose, ClickDisconnect, Reload
<1>6. Remembered(c, r)
  BY <1>4, <1>5
<1>7. CASE UNCHANGED <<pending, tombs, exec>>
  BY <1>6, <1>7 DEF Remembered
<1>8. ASSUME UNCHANGED <<pending, tombs>>, exec.at # "expired" PROVE Remembered(c, r)'
  BY <1>6, <1>8 DEF Remembered
<1>9. CASE Enter
  <2>1. /\ pending' = [pending EXCEPT ![exec.on] = @ \cup {exec.request}]
        /\ UNCHANGED tombs /\ exec.at = "selected"
    BY <1>9 DEF Enter
  <2>2. pending[c] \subseteq pending'[c]
    BY <2>1 DEF WaitTypeOK
  <2> QED BY <1>6, <2>1, <2>2 DEF Remembered
<1>10. CASE SendRequest
  <2>1. CASE place[exec.on] = "over"
    <3>1. exec.on # c
      BY <1>5, <2>1, BridgeAssumption DEF ListedInv
    <3>2. pending'[c] = pending[c] /\ UNCHANGED tombs /\ exec.at = "entered"
      BY <1>10, <3>1 DEF SendRequest, WaitTypeOK
    <3> QED BY <1>6, <3>2 DEF Remembered
  <2>2. CASE place[exec.on] # "over"
    BY <1>8, <1>10, <2>2 DEF SendRequest
  <2> QED BY <2>1, <2>2
<1>11. CASE Lose
  <2>1. exec.at # "expired" /\ (listed' = None \/ UNCHANGED <<pending, tombs>>)
    BY <1>11 DEF Lose, Invalidated
  <2> QED BY <1>8, <2>1, BridgeAssumption
<1>12. CASE Expire
  <2>1. /\ exec.at = "waiting" /\ UNCHANGED tombs
        /\ pending' = [pending EXCEPT ![exec.on] = @ \ {exec.request}]
        /\ exec'.at = "expired" /\ exec'.request = exec.request /\ exec'.on = exec.on
    BY <1>12 DEF Expire, ExecTypeOK, Executions
  <2>2. \/ pending'[c] = pending[c]
        \/ pending'[c] = pending[c] \ {exec.request} /\ exec.on = c
    BY <2>1 DEF WaitTypeOK
  <2> QED BY <1>6, <2>1, <2>2 DEF Remembered
<1>13. CASE Bury
  <2>1. /\ exec.at = "expired" /\ UNCHANGED pending
        /\ tombs' = [tombs EXCEPT ![exec.on] = @ \cup {exec.request}]
    BY <1>13 DEF Bury
  <2>2. tombs[c] \subseteq tombs'[c] /\ (exec.on = c => exec.request \in tombs'[c])
    BY <2>1 DEF WaitTypeOK
  <2> QED BY <1>6, <2>1, <2>2 DEF Remembered
<1>14. ASSUME NEW b \in Conns, Register(b) PROVE Remembered(c, r)'
  <2>1. place[b] = "authenticated"
    BY <1>14 DEF Register
  <2>2. listed' = b \/ UNCHANGED <<pending, tombs, exec>>
    BY <1>14 DEF Register
  <2> QED BY <1>4, <1>7, <2>1, <2>2 DEF Late
<1>15. ASSUME NEW b \in Conns, TakeAnswer(b) PROVE Remembered(c, r)'
  <2>1. PICK m : m = Head(toHub[b])
    OBVIOUS
  <2>2. /\ toHub[b] # <<>> /\ m.kind = "response" /\ toHub' = [toHub EXCEPT ![b] = Tail(@)]
        /\ UNCHANGED <<queue, toPlugin, work>>
    BY <1>15, <2>1 DEF TakeAnswer, Hear, pluginVars
  <2>3. /\ \/ UNCHANGED pending
           \/ pending' = [pending EXCEPT ![b] = @ \ {m.request}]
        /\ \/ UNCHANGED tombs
           \/ tombs' = [tombs EXCEPT ![b] = @ \ {m.request}]
    BY <1>15, <2>1 DEF TakeAnswer, Answered
  <2>4. exec.at = "expired" => UNCHANGED exec
    BY <1>15 DEF TakeAnswer, Answered
  <2>5. b = c => m.request # r
    <3> SUFFICES ASSUME b = c PROVE m.request \notin Unanswered(c)'
      OBVIOUS
    <3>1. toHub \in [Conns -> Seq(ToHub)] /\ Once(toHub[c]) /\ Concerns(m)
      BY <2>2 DEF ToHubTypeOK, OnceInv, Concerns
    <3>2. m.request \in Named(toHub[c]) /\ m.request \notin Named(Tail(toHub[c]))
      BY <2>1, <2>2, <3>1, HeadTaken
    <3>3. m.request \notin Named(queue[c]) /\ m.request \notin Named(toPlugin[c])
      BY <3>2 DEF OnceInv, Apart
    <3>4. m.request \in Requests => work[m.request] # c
      <4>1. m.request \in Requests => work[m.request] = None
        BY <3>2 DEF OnceInv
      <4> QED BY <4>1, BridgeAssumption
    <3>5. OwnAnswers(Tail(toHub[c]), c) \subseteq Named(Tail(toHub[c]))
      BY DEF OwnAnswers, Named, Concerns
    <3>6. toHub'[c] = Tail(toHub[c])
      BY <2>2, <3>1
    <3> QED BY <2>2, <3>2, <3>3, <3>4, <3>5, <3>6 DEF Unanswered
  <2>6. /\ r \in pending[c] => r \in pending'[c]
        /\ r \in tombs[c] => r \in tombs'[c]
    BY <2>3, <2>5 DEF WaitTypeOK
  <2> QED BY <1>6, <2>4, <2>6 DEF Remembered
<1>16. ASSUME NEW b \in Conns, Unlist(b) PROVE Remembered(c, r)'
  <2>1. listed' = None \/ UNCHANGED <<pending, tombs, exec>>
    BY <1>16 DEF Unlist, Invalidated
  <2> QED BY <1>7, <2>1, BridgeAssumption
<1>17. ASSUME NEW b \in Conns, Clear(b) PROVE Remembered(c, r)'
  <2>1. b # c
    BY <1>5, <1>17, BridgeAssumption DEF Clear, ListedInv
  <2>2. pending'[c] = pending[c] /\ tombs'[c] = tombs[c] /\ UNCHANGED exec
    BY <1>17, <2>1 DEF Clear, WaitTypeOK
  <2> QED BY <1>6, <2>2 DEF Remembered
<1>18. ASSUME NEW q \in Requests, Begin(q) PROVE Remembered(c, r)'
  BY <1>8, <1>18 DEF Begin, hubVars
<1>19. CASE GiveUp \/ Mismatch \/ Select \/ Settle
  BY <1>8, <1>19 DEF GiveUp, Mismatch, Select, Settle, hubVars
<1> QED BY <1>7, <1>9, <1>10, <1>11, <1>12, <1>13, <1>14, <1>15, <1>16, <1>17, <1>18, <1>19
        DEF BridgeNext, ExecStep, ConnStep, PluginStep, bridgeVars, hubVars, Greet,
            Authenticate, Forward, TakeEvent, TakeGoodbye, StreamEnds, HeartbeatEnds, Release,
            CredentialExpires, OpenSocket, TakeMessage, Finish, Edit, OnClose,
            ClickDisconnect, Reload

\* An answer that comes through the connection of its request, while that is the entry,
\* is not expected and not remembered only when its request times out at this moment.
LEMMA ToleranceStep ==
  ASSUME BridgeTypeOK, MemoryInv, [BridgeNext]_bridgeVars, NEW c \in Conns,
         place'[c] = "broken", place[c] = "serving", listed = c
  PROVE  LET m == Head(toHub[c])
         IN  m.via # c \/ (exec.at = "expired" /\ exec.request = m.request)
<1> USE DEF BridgeTypeOK
<1> PICK m : m = Head(toHub[c])
  OBVIOUS
<1>1. TakeAnswer(c)
  <2>1. ASSUME NEW b \in Conns, TakeAnswer(b) PROVE b = c
    BY <2>1 DEF TakeAnswer, Answered, Leave, ConnTypeOK
  <2>2. place' # place
    OBVIOUS
  <2>3. ASSUME NEW b \in Conns, Greet(b) \/ Authenticate(b) \/ Register(b) \/ Forward(b)
                               \/ TakeGoodbye(b) \/ StreamEnds(b) \/ HeartbeatEnds(b)
                               \/ Unlist(b) \/ Clear(b) \/ Release(b) \/ OpenSocket(b)
        PROVE  FALSE
    <3>1. \E how \in Places \ {"broken"} : place' \in {place, [place EXCEPT ![b] = how]}
      BY <2>3 DEF Greet, Authenticate, Register, Forward, TakeGoodbye, StreamEnds,
                  HeartbeatEnds, Unlist, Clear, Release, OpenSocket, Leave, Places
    <3> QED BY <3>1 DEF ConnTypeOK
  <2> QED BY <2>1, <2>2, <2>3
          DEF BridgeNext, ExecStep, ConnStep, PluginStep, bridgeVars, hubVars, Begin, GiveUp,
              Mismatch, Select, Enter, SendRequest, Settle, Lose, Expire, Bury, TakeEvent,
              CredentialExpires, TakeMessage, Finish, Edit, OnClose, ClickDisconnect, Reload
<1>2. /\ toHub[c] # <<>> /\ m.kind = "response"
      /\ m.request \notin pending[c] /\ m.request \notin tombs[c]
  BY <1>1 DEF TakeAnswer, Answered, Waits
<1>3. ASSUME m.via = c PROVE exec.at = "expired" /\ exec.request = m.request
  <2>1. toHub[c] \in Seq(ToHub)
    BY DEF ToHubTypeOK
  <2>2. m.request \in OwnAnswers(toHub[c], c)
    BY <1>2, <1>3, <2>1, ShorterChannel
  <2> QED BY <1>2, <2>2 DEF MemoryInv, Unanswered, Remembered
<1> QED BY <1>3

-----------------------------------------------------------------------------
\* The invariant holds at first, when the plugin is paired and not connected.
LEMMA InitInv == BridgeInit => BridgeInv
<1> SUFFICES ASSUME BridgeInit PROVE BridgeInv
  OBVIOUS
<1>1. /\ \A S : <<>> \in Seq(S)
      /\ NoExecution \in Executions
  BY DEF NoExecution, Executions
<1>2. BridgeTypeOK
  <2>1. ConnTypeOK /\ WaitTypeOK /\ SeenTypeOK /\ JoinedTypeOK /\ VerdictTypeOK /\ ExecTypeOK
    BY <1>1 DEF BridgeInit, ConnTypeOK, WaitTypeOK, SeenTypeOK, JoinedTypeOK, VerdictTypeOK,
                ExecTypeOK, Places
  <2>2. QueueTypeOK /\ ToPluginTypeOK /\ ToHubTypeOK
    BY <1>1 DEF BridgeInit, QueueTypeOK, ToPluginTypeOK, ToHubTypeOK
  <2>3. PluginTypeOK
    BY DEF BridgeInit, PluginTypeOK, Windows
  <2> QED BY <2>1, <2>2, <2>3 DEF BridgeTypeOK
<1>3. ExecInv
  BY DEF BridgeInit, ExecInv, NoExecution
<1>4. SocketInv
  BY BridgeAssumption DEF BridgeInit, SocketInv
<1>5. TalkInv
  <2>1. ASSUME NEW c \in Conns
        PROVE  toPlugin[c] = <<>> /\ toHub[c] = <<>> /\ place[c] = "none" /\ Len(<<>>) = 0
    BY DEF BridgeInit
  <2>2. ASSUME NEW c \in Conns PROVE TalkOK(c)
    <3>1. \A i \in 1 .. Len(toPlugin[c]) : FALSE
      BY <2>1
    <3>2. \A i \in 1 .. Len(toHub[c]) : FALSE
      BY <2>1
    <3> QED BY <2>1, <3>1, <3>2 DEF TalkOK
  <2> QED BY <2>2 DEF TalkInv
<1>6. CredentialInv /\ GenInv
  BY DEF BridgeInit, CredentialInv, GenInv, Proved, Passed
<1>7. SentInv
  BY <1>1 DEF BridgeInit, SentInv
<1>8. ListedInv /\ LatestInv /\ WaiterInv
  BY DEF BridgeInit, ListedInv, LatestInv, WaiterInv, NoExecution
<1>9. RevisionInv
  BY DEF BridgeInit, RevisionInv
<1>10. OnceInv
  BY EmptyChannel DEF BridgeInit, OnceInv, Apart
<1>11. MemoryInv
  <2>1. ASSUME NEW c \in Conns PROVE Unanswered(c) = {}
    BY EmptyChannel, BridgeAssumption DEF BridgeInit, Unanswered
  <2> QED BY <2>1 DEF MemoryInv
<1> QED BY <1>2, <1>3, <1>4, <1>5, <1>6, <1>7, <1>8, <1>9, <1>10, <1>11 DEF BridgeInv

\* Every step keeps the invariant.
LEMMA NextInv == BridgeInv /\ [BridgeNext]_bridgeVars => BridgeInv'
<1> SUFFICES ASSUME BridgeInv, [BridgeNext]_bridgeVars PROVE BridgeInv'
  OBVIOUS
<1>1. SentInv'
  BY SentInvKept DEF BridgeInv
<1>2. BridgeTypeOK'
  <2>1. QueueTypeOK' /\ ToPluginTypeOK' /\ ToHubTypeOK'
    <3>1. OfSent(Orders)' \subseteq Orders /\ OfSent(ToPlugin)' \subseteq ToPlugin
          /\ OfSent(ToHub)' \subseteq ToHub
      BY DEF OfSent
    <3> QED BY <1>1, <3>1, Widened DEF SentInv, QueueTypeOK, ToPluginTypeOK, ToHubTypeOK
  <2> QED BY <2>1, ExecTypeKept, VerdictTypeKept, ConnTypeKept, WaitTypeKept, SeenTypeKept,
             JoinedTypeKept, PluginTypeKept DEF BridgeInv, BridgeTypeOK
<1>3. ExecInv' /\ SocketInv' /\ TalkInv' /\ CredentialInv' /\ GenInv'
  BY ExecInvKept, SocketInvKept, TalkInvKept, CredentialInvKept, GenInvKept
     DEF BridgeInv
<1>4. ListedInv' /\ LatestInv' /\ WaiterInv' /\ RevisionInv'
  BY ListedInvKept, LatestInvKept, WaiterInvKept, RevisionInvKept DEF BridgeInv
<1>5. OnceInv' /\ MemoryInv'
  BY RequestsMove, MemoryInvKept DEF BridgeInv
<1> QED BY <1>1, <1>2, <1>3, <1>4, <1>5 DEF BridgeInv

\* The inductive invariant holds in every reachable state.
THEOREM BridgeInductive == BridgeSpec => []BridgeInv
  BY InitInv, NextInv, PTL DEF BridgeSpec

\* The execution, the connections, the sockets and the plugin stay in their types
\* (bridge.rs HubState, SessionHandle; ui.html, code.ts).
THEOREM BridgeTypeCorrectness == BridgeSpec => []BridgeTypeOK
<1>1. BridgeInv => BridgeTypeOK
  BY DEF BridgeInv
<1> QED BY <1>1, BridgeInductive, PTL

\* A session in the hub's table has a task, and the connection that the plugin
\* counts as open is that session, whatever older connections, timeouts and reloads do
\* (bridge.rs take_session_generation).
THEOREM EntryIsServed == BridgeSpec => []TheEntryIsServed
<1>1. BridgeInv => TheEntryIsServed
  BY DEF BridgeInv, ListedInv, LatestInv, SocketInv, TheEntryIsServed
<1> QED BY <1>1, BridgeInductive, PTL

\* The revision that guards a change is never later than the plugin's own (bridge.rs
\* execute, handle_response, handle_event).
THEOREM RevisionStaysBehind == BridgeSpec => []RevisionIsNeverAhead
<1>1. BridgeInv => RevisionIsNeverAhead
  BY DEF BridgeInv, RevisionInv, RevisionIsNeverAhead
<1> QED BY <1>1, BridgeInductive, PTL

\* An answer that comes late is taken for what it is, and does not end the connection
\* that is the session's entry, unless its request went through another connection or
\* times out at this very moment (bridge.rs serve_connection, remember_expired).
THEOREM LateAnswersAreDropped == BridgeSpec => LateAnswersAreTolerated
<1>1. BridgeInv /\ [BridgeNext]_bridgeVars =>
        [\A c \in Conns : place'[c] = "broken" /\ place[c] = "serving" /\ listed = c =>
           LET m == Head(toHub[c])
           IN  m.via # c \/ (exec.at = "expired" /\ exec.request = m.request)]_bridgeVars
  BY ToleranceStep DEF BridgeInv
<1> QED BY <1>1, BridgeInductive, PTL DEF BridgeSpec, LateAnswersAreTolerated
=============================================================================
