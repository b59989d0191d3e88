------------------------------- MODULE PubSub -------------------------------
(***************************************************************************)
(* What the push services promise, without descriptors, list elements,     *)
(* locks or threads: a connection subscribes while it is open, every push  *)
(* goes to a subscriber, and a connection that closes is subscribed to     *)
(* nothing any more.                                                       *)
(***************************************************************************)
CONSTANTS Conns, Services

VARIABLES
  open,        \* connections that are open
  closed,      \* connections that were open once
  subscribers, \* of each service
  heard        \* what each connection last heard of each service

vars == <<open, closed, subscribers, heard>>

Hear(c, s, what) == heard' = [heard EXCEPT ![c][s] = what]

Open(c) ==
  /\ c \notin open \cup closed
  /\ open' = open \cup {c}
  /\ UNCHANGED <<closed, subscribers, heard>>

Subscribe(c, s) ==
  /\ c \in open
  /\ c \notin subscribers[s]
  /\ subscribers' = [subscribers EXCEPT ![s] = @ \cup {c}]
  /\ UNCHANGED <<open, closed, heard>>

\* Only a subscriber is told that it is one.
Confirm(c, s) ==
  /\ c \in subscribers[s]
  /\ Hear(c, s, "subscribed")
  /\ UNCHANGED <<open, closed, subscribers>>

\* Only one that is not is told that its subscription has ended.
Release(c, s) ==
  /\ c \in open
  /\ c \notin subscribers[s]
  /\ Hear(c, s, "unsubscribed")
  /\ UNCHANGED <<open, closed, subscribers>>

Push(c, s) ==
  /\ c \in subscribers[s]
  /\ Hear(c, s, "push")
  /\ UNCHANGED <<open, closed, subscribers>>

\* A subscriber is taken off the list of one service.
Drop(c, s) ==
  /\ c \in subscribers[s]
  /\ subscribers' = [subscribers EXCEPT ![s] = @ \ {c}]
  /\ UNCHANGED <<open, closed, heard>>

Close(c) ==
  /\ c \in open
  /\ \A s \in Services : c \notin subscribers[s]
  /\ open' = open \ {c}
  /\ closed' = closed \cup {c}
  /\ UNCHANGED <<subscribers, heard>>

Init ==
  /\ open = {}
  /\ closed = {}
  /\ subscribers = [s \in Services |-> {}]
  /\ heard = [c \in Conns |-> [s \in Services |-> "nothing"]]

Next ==
  \E c \in Conns :
    \/ Open(c)
    \/ Close(c)
    \/ \E s \in Services :
         Subscribe(c, s) \/ Confirm(c, s) \/ Release(c, s) \/ Push(c, s) \/ Drop(c, s)

Spec == Init /\ [][Next]_vars
=============================================================================
