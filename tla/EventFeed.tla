----------------------------- MODULE EventFeed ------------------------------
(***************************************************************************)
(* What a subscriber may rely on, whatever happens between the publisher   *)
(* and the subscriber's connection.                                        *)
(*                                                                         *)
(* A subscription is opened at a base and hands out the events the         *)
(* subscriber may see, each once, in order and without omitting one, until *)
(* it ends.  Ending is announced or follows from the subscriber's own      *)
(* doing; a gap inside a subscription is never an option.                  *)
(***************************************************************************)
EXTENDS Integers, Sequences

CONSTANTS Subs,        \* subscriptions of one client, each used once
          Audiences,   \* public, and the session tickets
          Mine         \* the audiences whose events the client may see

VARIABLES log,         \* the audience of every event published so far
          status,      \* "none", "open" or "ended", per subscription
          upto         \* the last event each open subscription has passed

vars == <<log, status, upto>>

Visible(n) == log[n] \in Mine

Init == /\ log = <<>>
        /\ status = [s \in Subs |-> "none"]
        /\ upto = [s \in Subs |-> 0]

Publish == /\ \E a \in Audiences : log' = Append(log, a)
           /\ UNCHANGED <<status, upto>>

Open(s) == /\ status[s] = "none"
           /\ status' = [status EXCEPT ![s] = "open"]
           /\ \E base \in 0..Len(log) : upto' = [upto EXCEPT ![s] = base]
           /\ UNCHANGED log

\* The next visible event, and no later one.
Deliver(s) == /\ status[s] = "open"
              /\ \E n \in upto[s] + 1 .. Len(log) :
                   /\ Visible(n)
                   /\ \A m \in upto[s] + 1 .. n - 1 : ~Visible(m)
                   /\ upto' = [upto EXCEPT ![s] = n]
              /\ UNCHANGED <<log, status>>

End(s) == /\ status[s] # "ended"
          /\ status' = [status EXCEPT ![s] = "ended"]
          /\ UNCHANGED <<log, upto>>

\* The connection, or the broker with its log, is gone.
EndAll == /\ \E unused \in SUBSET {s \in Subs : status[s] = "none"} :
               status' = [s \in Subs |-> IF s \in unused THEN "none" ELSE "ended"]
          /\ log' \in {log, <<>>}
          /\ UNCHANGED upto

Next == \/ Publish
        \/ \E s \in Subs : Open(s) \/ Deliver(s) \/ End(s)
        \/ EndAll

Safety == Init /\ [][Next]_vars
=============================================================================
