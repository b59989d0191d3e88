------------------------- MODULE JapiPushsrvRefinement -------------------------
(***************************************************************************)
(* JapiPushsrv implements PubSub for every set of connections,             *)
(* descriptors, services and addresses, as long as nobody subscribes twice *)
(* to one service: whatever threads and failing writes do to the lists,    *)
(* connections see the service PubSub describes.                           *)
(***************************************************************************)
EXTENDS JapiPushsrvProofs

\* What the connections see of the lists: the state of PubSub.
Opened == {c \in Conns : sock[c] # NULL}
Closed == {c \in Conns : sock[c] = NULL /\ peer[c] # "new"}
Subscribers == [s \in Services |-> {c \in Conns : sock[c] # NULL /\ Subscribed(c, s)}]

\* The invariant of all steps below.
LinkInv == TypeOK /\ Busy /\ PassInv /\ ConnInv /\ DropInv

----------------------------------------------------------------------------
(* The steps of PubSub in terms of JapiPushsrv.                            *)

LEMMA Stutter ==
  ASSUME Opened' = Opened, Closed' = Closed, Subscribers' = Subscribers, said' = said
  PROVE  UNCHANGED Service!vars
  BY DEF Service!vars, Opened, Closed, Subscribers

LEMMA StepOpen ==
  ASSUME NEW c \in Conns, c \notin Opened \cup Closed, Opened' = Opened \cup {c},
         Closed' = Closed, Subscribers' = Subscribers, said' = said
  PROVE  Service!Next
<1>1. Service!Open(c)
  BY DEF Service!Open, Opened, Closed, Subscribers
<1> QED
  BY <1>1 DEF Service!Next

LEMMA StepSubscribe ==
  ASSUME NEW c \in Opened, NEW s \in Services, c \notin Subscribers[s],
         Subscribers' = [Subscribers EXCEPT ![s] = @ \cup {c}],
         Opened' = Opened, Closed' = Closed, said' = said
  PROVE  Service!Next
<1>1. Service!Subscribe(c, s)
  BY DEF Service!Subscribe, Opened, Closed, Subscribers
<1> QED
  BY <1>1 DEF Service!Next, Opened

LEMMA StepHear ==
  ASSUME NEW c \in Conns, NEW s \in Services, c \in Subscribers[s],
         NEW what \in {"subscribed", "push"}, said' = [said EXCEPT ![c][s] = what],
         Opened' = Opened, Closed' = Closed, Subscribers' = Subscribers
  PROVE  Service!Next
<1>1. CASE what = "subscribed"
  <2>1. Service!Confirm(c, s)
    BY <1>1 DEF Service!Confirm, Service!Hear, Opened, Closed, Subscribers
  <2> QED
    BY <2>1 DEF Service!Next
<1>2. CASE what = "push"
  <2>1. Service!Push(c, s)
    BY <1>2 DEF Service!Push, Service!Hear, Opened, Closed, Subscribers
  <2> QED
    BY <2>1 DEF Service!Next
<1> QED
  BY <1>1, <1>2

LEMMA StepRelease ==
  ASSUME NEW c \in Opened, NEW s \in Services, c \notin Subscribers[s],
         said' = [said EXCEPT ![c][s] = "unsubscribed"],
         Opened' = Opened, Closed' = Closed, Subscribers' = Subscribers
  PROVE  Service!Next
<1>1. Service!Release(c, s)
  BY DEF Service!Release, Service!Hear, Opened, Closed, Subscribers
<1> QED
  BY <1>1 DEF Service!Next, Opened

LEMMA StepDrop ==
  ASSUME NEW c \in Conns, NEW s \in Services, c \in Subscribers[s],
         Subscribers' = [Subscribers EXCEPT ![s] = @ \ {c}],
         Opened' = Opened, Closed' = Closed, said' = said
  PROVE  Service!Next
<1>1. Service!Drop(c, s)
  BY DEF Service!Drop, Opened, Closed, Subscribers
<1> QED
  BY <1>1 DEF Service!Next

LEMMA StepClose ==
  ASSUME NEW c \in Opened, \A s \in Services : c \notin Subscribers[s],
         Opened' = Opened \ {c}, Closed' = Closed \cup {c},
         Subscribers' = Subscribers, said' = said
  PROVE  Service!Next
<1>1. Service!Close(c)
  BY DEF Service!Close, Opened, Closed, Subscribers
<1> QED
  BY <1>1 DEF Service!Next, Opened

----------------------------------------------------------------------------
(* What the steps of JapiPushsrv do to the subscribers.                    *)

\* Whether a connection is a subscriber of a service, before and after a step.
LEMMA SubscriberFacts ==
  ASSUME NEW c \in Conns, NEW s \in Services
  PROVE  /\ c \in Subscribers[s] <=> sock[c] # NULL /\ ~Absent(s, sock[c])
         /\ c \in Subscribers'[s] <=> (sock[c] # NULL /\ ~Absent(s, sock[c]))'
<1>1. Subscribed(c, s) <=> ~Absent(s, sock[c])
  BY SubscribedFacts
<1>2. Subscribed(c, s)' <=> ~Absent(s, sock[c])'
  BY DEF Subscribed, Matches, Absent, Listed, ToSet
<1> QED
  BY <1>1, <1>2 DEF Subscribers

\* A function to sets is given by the members of its values.
LEMMA SubscribersAre ==
  ASSUME NEW f \in [Services -> SUBSET Conns],
         \A s \in Services, c \in Conns : c \in Subscribers'[s] <=> c \in f[s]
  PROVE  Subscribers' = f
<1>1. ASSUME NEW s \in Services PROVE Subscribers'[s] = f[s]
  BY DEF Subscribers
<1> QED
  BY <1>1 DEF Subscribers

\* Two states with the same subscribers one by one have the same.
LEMMA SameSubscribers ==
  ASSUME \A c \in Conns, s \in Services :
           (sock[c] # NULL /\ ~Absent(s, sock[c]))' <=> (sock[c] # NULL /\ ~Absent(s, sock[c]))
  PROVE  Subscribers' = Subscribers
<1>1. Subscribers \in [Services -> SUBSET Conns]
  BY DEF Subscribers
<1> QED
  BY <1>1, SubscriberFacts, SubscribersAre

\* Nothing changes for connections when lists and descriptors stay.
LEMMA SameLinks ==
  ASSUME UNCHANGED <<sock, lists>>
  PROVE  Subscribers' = Subscribers
<1>1. \A c \in Conns, s \in Services : Absent(s, sock[c])' <=> Absent(s, sock[c])
  BY DEF Absent, Listed, lists
<1> QED
  BY <1>1, SameSubscribers

\* Taking the descriptor of a connection off a list ends its subscription to
\* that service, if there is one, and no other.
LEMMA RemovedSubscribers ==
  ASSUME LinkInv, NEW s \in Services, NEW c \in Conns, sock[c] # NULL,
         RemoveClient(s, sock[c]), sock' = sock
  PROVE  Subscribers' = [Subscribers EXCEPT ![s] = @ \ {c}]
<1> USE DEF LinkInv
<1>1. sock[c] \in Sockets
  BY DEF TypeOK, Types
<1>2. Absent(s, sock[c])'
  BY <1>1, RemovedIsAbsent DEF ConnInv
<1>3. ASSUME NEW t \in Services, NEW d \in Conns, t # s, Absent(t, sock[d])'
      PROVE  Absent(t, sock[d])
  <2>1. subs'[t] = subs[t]
    BY <1>1, <1>3, RemoveClientFacts
  <2>2. \A n \in Listed(t) : n \in Listed(t)' /\ nsock'[n] = nsock[n]
    BY <1>1, <2>1, RemoveClientFacts DEF Listed
  <2> QED
    BY <1>3, <2>2 DEF Absent
<1>4. ASSUME NEW d \in Conns, d # c, sock[d] # NULL, Absent(s, sock[d])'
      PROVE  Absent(s, sock[d])
  <2>1. sock[d] # sock[c]
    BY <1>4 DEF ConnInv, OwnDescriptors
  <2> QED
    BY <1>1, <1>4, <2>1, RemovedOnlyThat
<1>5. ASSUME NEW t \in Services, NEW d \in Conns, Absent(t, sock[d])
      PROVE  Absent(t, sock[d])'
  <2>1. \A n \in Listed(t)' : n \in Listed(t) /\ nsock'[n] = nsock[n]
    BY <1>1, RemoveClientFacts
  <2> QED
    BY <1>5, <2>1 DEF Absent
<1> DEFINE f == [Subscribers EXCEPT ![s] = @ \ {c}]
<1>6. f \in [Services -> SUBSET Conns]
  BY DEF Subscribers
<1>7. ASSUME NEW t \in Services, NEW d \in Conns
      PROVE  d \in f[t] <=> d \in Subscribers[t] /\ ~(t = s /\ d = c)
  BY DEF Subscribers
<1>8. ASSUME NEW t \in Services, NEW d \in Conns
      PROVE  d \in Subscribers'[t] <=> d \in f[t]
  BY <1>2, <1>3, <1>4, <1>5, <1>7, SubscriberFacts
<1> QED
  BY <1>6, <1>8, SubscribersAre

\* A new list element makes its connection a subscriber.
LEMMA AddedSubscribers ==
  ASSUME LinkInv, NEW n \in Nodes, AddClient(n)
  PROVE  /\ client \in Opened /\ service \in Services
         /\ client \notin Subscribers[service]
         /\ Subscribers' = [Subscribers EXCEPT ![service] = @ \cup {client}]
<1> USE DEF LinkInv
<1>1. pc = "add" /\ client \in Conns /\ sock[client] \in Sockets /\ service \in Services
  BY DEF AddClient, Busy
<1> PICK s \in Services, c \in Conns, fd \in Sockets :
      s = service /\ c = client /\ fd = sock[client]
  BY <1>1
<1>2. fd # NULL /\ sock[c] = fd /\ sock' = sock
  BY NullAssumption DEF AddClient
<1>3. c \notin Subscribers[s]
  BY <1>1, SubscriberFacts DEF ConnInv
<1>4. /\ n \in Nodes \ Live
      /\ subs'  = [subs EXCEPT ![s] = <<n>> \o @]
      /\ nsock' = [nsock EXCEPT ![n] = fd]
  BY DEF AddClient, TypeOK, FreeIsBlank
<1>5. /\ \A t \in Services : t # s => subs'[t] = subs[t]
      /\ nsock'[n] = fd /\ n \in Listed(s)'
      /\ \A t \in Services : \A m \in Listed(t)' :
           (t = s /\ m = n) \/ (m # n /\ m \in Listed(t) /\ nsock'[m] = nsock[m])
  BY <1>4, AddClientFacts
<1>6. ASSUME NEW t \in Services, NEW m \in Listed(t)
      PROVE  m \in Listed(t)' /\ nsock'[m] = nsock[m]
  <2>1. m \in Nodes /\ m # n
    BY <1>4, ListedFacts DEF TypeOK
  <2>2. nsock'[m] = nsock[m]
    BY <1>4, <2>1 DEF TypeOK, Types
  <2>3. m \in Listed(t)'
    <3>1. CASE t = s
      <4>1. subs[t] \in Seq(Nodes) /\ subs'[t] = <<n>> \o subs[t]
        BY <1>4, <3>1 DEF TypeOK, Types
      <4>2. PICK i \in DOMAIN subs[t] : m = subs[t][i]
        BY ListedFacts DEF TypeOK
      <4>3. i + 1 \in DOMAIN subs'[t] /\ subs'[t][i + 1] = m
        BY <1>4, <4>1, <4>2
      <4> QED
        BY <4>3 DEF Listed, ToSet
    <3>2. CASE t # s
      BY <1>5, <3>2 DEF Listed
    <3> QED
      BY <3>1, <3>2
  <2> QED
    BY <2>2, <2>3
<1>7. ASSUME NEW t \in Services, NEW d \in Conns, ~Absent(t, sock[d])
      PROVE  ~Absent(t, sock[d])'
  BY <1>2, <1>6, <1>7 DEF Absent
<1>8. ASSUME NEW t \in Services, NEW d \in Conns, ~Absent(t, sock[d])'
      PROVE  ~Absent(t, sock[d]) \/ (t = s /\ sock[d] = fd)
  BY <1>2, <1>5, <1>8 DEF Absent
<1>9. ~Absent(s, sock[c])'
  BY <1>2, <1>5 DEF Absent
<1>10. \A d \in Conns : sock[d] = fd => d = c
  BY <1>2 DEF ConnInv, OwnDescriptors
<1> DEFINE f == [Subscribers EXCEPT ![s] = @ \cup {c}]
<1>11. f \in [Services -> SUBSET Conns]
  BY DEF Subscribers
<1>12. ASSUME NEW t \in Services, NEW d \in Conns
       PROVE  d \in f[t] <=> d \in Subscribers[t] \/ (t = s /\ d = c)
  BY DEF Subscribers
<1>13. ASSUME NEW t \in Services, NEW d \in Conns
       PROVE  d \in Subscribers'[t] <=> d \in f[t]
  BY <1>2, <1>7, <1>8, <1>9, <1>10, <1>12, SubscriberFacts
<1>14. Subscribers' = f
  BY <1>11, <1>13, SubscribersAre
<1> QED
  BY <1>2, <1>3, <1>14 DEF Opened

\* Steps that leave peers, descriptors, lists and what was heard alone, or
\* change a peer that is neither new nor becomes so.
LEMMA SilentStep ==
  ASSUME UNCHANGED <<sock, lists, said>>,
         \A c \in Conns : peer'[c] = "new" <=> peer[c] = "new"
  PROVE  UNCHANGED Service!vars
<1>1. Opened' = Opened /\ Closed' = Closed
  BY DEF Opened, Closed
<1>2. Subscribers' = Subscribers
  BY SameLinks
<1> QED
  BY <1>1, <1>2, Stutter

----------------------------------------------------------------------------
(* The invariant, and the refinement of each action.                       *)

\* A failed write, a request or a disconnect takes a connection off a list;
\* when it is not in it, nothing happens.
LEMMA DropRefines ==
  ASSUME LinkInv, NEW s \in Services, NEW c \in Conns, sock[c] # NULL,
         RemoveClient(s, sock[c]), UNCHANGED <<peer, sock, said>>
  PROVE  [Service!Next]_Service!vars
<1>1. Subscribers' = [Subscribers EXCEPT ![s] = @ \ {c}]
  BY RemovedSubscribers
<1>2. Opened' = Opened /\ Closed' = Closed
  BY DEF Opened, Closed
<1>3. CASE c \in Subscribers[s]
  BY <1>1, <1>2, <1>3, StepDrop
<1>4. CASE c \notin Subscribers[s]
  <2>1. Subscribers' = Subscribers
    BY <1>1, <1>4 DEF Subscribers
  <2> QED
    BY <1>2, <2>1, Stutter
<1> QED
  BY <1>3, <1>4

LEMMA AcceptRefines ==
  ASSUME LinkInv, NEW c \in Conns, Accept(c)
  PROVE  [Service!Next]_Service!vars
<1> USE DEF LinkInv
<1>1. PICK fd \in Sockets \ {sock[d] : d \in Conns} : sock' = [sock EXCEPT ![c] = fd]
  BY DEF Accept
<1>2. fd # NULL /\ sock[c] = NULL /\ peer[c] = "new"
  BY NullAssumption DEF Accept, ConnInv, OwnDescriptors
<1>3. sock' = [d \in Conns |-> IF d = c THEN fd ELSE sock[d]]
  BY <1>1 DEF TypeOK, Types
<1>4. peer' = [d \in Conns |-> IF d = c THEN "up" ELSE peer[d]]
  BY DEF Accept, TypeOK, Types
<1>5. c \notin Opened \cup Closed
  BY <1>2 DEF Opened, Closed
<1>6. Opened' = Opened \cup {c} /\ Closed' = Closed
  BY <1>2, <1>3, <1>4 DEF Opened, Closed
<1>7. ASSUME NEW s \in Services PROVE Absent(s, fd)
  <2>1. \A n \in Listed(s) : n \in Live
    BY ListedFacts DEF TypeOK
  <2> QED
    BY <1>1, <2>1 DEF ConnInv, SubscribersConnected, Absent
<1>8. ASSUME NEW s \in Services, NEW d \in Conns
      PROVE  (sock[d] # NULL /\ ~Absent(s, sock[d]))' <=> (sock[d] # NULL /\ ~Absent(s, sock[d]))
  <2>1. UNCHANGED lists
    BY DEF Accept
  <2>2. CASE d = c
    <3>1. Absent(s, sock[d])'
      BY <1>3, <1>7, <2>1, <2>2 DEF Absent, Listed, lists
    <3> QED
      BY <1>2, <2>2, <3>1
  <2>3. CASE d # c
    BY <1>3, <2>1, <2>3 DEF Absent, Listed, lists
  <2> QED
    BY <2>2, <2>3
<1>9. Subscribers' = Subscribers
  BY <1>8, SameSubscribers
<1>10. said' = said
  BY DEF Accept
<1> QED
  BY <1>5, <1>6, <1>9, <1>10, StepOpen

LEMMA CloseRefines ==
  ASSUME LinkInv, Close
  PROVE  [Service!Next]_Service!vars
<1> USE DEF LinkInv
<1> PICK c \in Conns : c = client
  BY DEF Busy, Close
<1>1. sock[c] # NULL
  BY NullAssumption DEF Busy, Close
<1>2. sock' = [d \in Conns |-> IF d = c THEN NULL ELSE sock[d]]
  BY DEF Close, TypeOK, Types
<1>3. peer' = [d \in Conns |-> IF d = c THEN "gone" ELSE peer[d]]
  BY DEF Close, TypeOK, Types
<1>4. Opened' = Opened \ {c} /\ Closed' = Closed \cup {c} /\ c \in Opened
  BY <1>1, <1>2, <1>3 DEF Opened, Closed
<1>5. \A s \in Services : Absent(s, sock[c])
  BY DEF ConnInv, Close
<1>6. \A s \in Services : c \notin Subscribers[s]
  BY <1>5, SubscriberFacts
<1>7. ASSUME NEW s \in Services, NEW d \in Conns
      PROVE  (sock[d] # NULL /\ ~Absent(s, sock[d]))' <=> (sock[d] # NULL /\ ~Absent(s, sock[d]))
  <2>1. CASE d = c
    BY <1>2, <1>5, <2>1
  <2>2. CASE d # c
    BY <1>2, <2>2 DEF Close, Absent, Listed, lists
  <2> QED
    BY <2>1, <2>2
<1>8. Subscribers' = Subscribers /\ said' = said
  BY <1>7, SameSubscribers DEF Close
<1> QED
  BY <1>4, <1>6, <1>8, StepClose

\* A response is written: only a subscriber hears that it is one.
LEMMA ReplyRefines ==
  ASSUME LinkInv, ReplyWritten
  PROVE  [Service!Next]_Service!vars
<1> USE DEF LinkInv
<1>1. UNCHANGED <<sock, lists>> /\ peer' = peer /\ pc = "reply"
  BY DEF ReplyWritten
<1>2. Opened' = Opened /\ Closed' = Closed /\ Subscribers' = Subscribers
  BY <1>1, SameLinks DEF Opened, Closed
<1>3. CASE peer[client] = "up" /\ answer # "other"
  <2> PICK c \in Conns, s \in Services : c = client /\ s = service
    BY <1>1, <1>3 DEF Busy
  <2>1. answer \in {"subscribed", "unsubscribed"}
    BY <1>1, <1>3 DEF Busy, Answers
  <2>2. said' = [said EXCEPT ![c][s] = answer] /\ sock[c] # NULL
    BY <1>1, <1>3, NullAssumption DEF ReplyWritten, Busy
  <2>3. CASE answer = "subscribed"
    <3>1. c \in Subscribers[s]
      BY <1>1, <1>3, <2>2, <2>3, SubscriberFacts DEF ConnInv
    <3> QED
      BY <1>2, <2>2, <2>3, <3>1, StepHear
  <2>4. CASE answer = "unsubscribed"
    <3>1. c \in Opened /\ c \notin Subscribers[s]
      BY <1>1, <2>2, <2>4, SubscriberFacts DEF ConnInv, Opened
    <3> QED
      BY <1>2, <2>2, <2>4, <3>1, StepRelease
  <2> QED
    BY <2>1, <2>3, <2>4
<1>4. CASE ~(peer[client] = "up" /\ answer # "other")
  BY <1>2, <1>4, Stutter DEF ReplyWritten
<1> QED
  BY <1>3, <1>4

\* The descriptor a push thread is writing to, or could not write to, is that
\* of a subscriber, and of no one else.
LEMMA WritesToSubscriber ==
  ASSUME LinkInv, NEW s \in Services, push[s] \in {"write", "drop"}
  PROVE  /\ cur[s] \in Listed(s) /\ nsock[cur[s]] # NULL
         /\ \E d \in Conns : /\ sock[d] = nsock[cur[s]] /\ d \in Subscribers[s]
                            /\ \A c \in Conns : sock[c] = nsock[cur[s]] => c = d
<1> USE DEF LinkInv
<1>1. cur[s] \in Listed(s)
  BY ListedFacts DEF PassInv, InPass, TypeOK
<1>2. nsock[cur[s]] # NULL /\ cur[s] \in Live
  BY <1>1, ListedFacts DEF TypeOK, FreeIsBlank
<1>3. PICK d \in Conns : sock[d] = nsock[cur[s]]
  BY <1>2 DEF ConnInv, SubscribersConnected
<1>4. d \in Subscribers[s]
  BY <1>1, <1>2, <1>3, SubscriberFacts DEF Absent
<1>5. \A c \in Conns : sock[c] = nsock[cur[s]] => c = d
  BY <1>2, <1>3 DEF ConnInv, OwnDescriptors
<1> QED
  BY <1>1, <1>2, <1>3, <1>4, <1>5

LEMMA WriteRefines ==
  ASSUME LinkInv, NEW s \in Services, PushWrite(s)
  PROVE  [Service!Next]_Service!vars
<1>1. UNCHANGED <<peer, sock, lists>> /\ push[s] = "write"
  BY DEF PushWrite, Written, GoesOn
<1>2. PICK d \in Conns : /\ d \in Subscribers[s]
                         /\ said' = IF peer[d] = "up" THEN [said EXCEPT ![d][s] = "push"] ELSE said
  BY <1>1, WritesToSubscriber DEF PushWrite, Written
<1>3. Opened' = Opened /\ Closed' = Closed /\ Subscribers' = Subscribers
  BY <1>1, SameLinks DEF Opened, Closed
<1>4. CASE peer[d] = "up"
  BY <1>2, <1>3, <1>4, StepHear
<1>5. CASE peer[d] # "up"
  BY <1>2, <1>3, <1>5, Stutter
<1> QED
  BY <1>4, <1>5

LEMMA RefineStep ==
  ASSUME LinkInv, [Next]_vars
  PROVE  [Service!Next]_Service!vars
<1> USE DEF server, pushers
<1>1. ASSUME NEW c \in Conns, Accept(c) PROVE [Service!Next]_Service!vars
  BY <1>1, AcceptRefines
<1>2. ASSUME NEW c \in Conns, OtherRequest(c) \/ HalfLine(c) \/ Disconnect(c) \/ PeerStep(c)
      PROVE  [Service!Next]_Service!vars
  <2>1. \A d \in Conns : peer'[d] = "new" <=> peer[d] = "new"
    BY <1>2 DEF OtherRequest, HalfLine, Disconnect, PeerStep, Stall, Drain, Leave, LinkInv, TypeOK, Types
  <2> QED
    BY <1>2, <2>1, SilentStep DEF OtherRequest, HalfLine, Disconnect, PeerStep, Stall, Drain, Leave
<1>3. ASSUME NEW c \in Conns, NEW s \in Services, Subscribe(c, s) \/ Unsubscribe(c, s)
      PROVE  [Service!Next]_Service!vars
  BY <1>3, SilentStep DEF Subscribe, Unsubscribe
<1>4. ASSUME NEW n \in Nodes, AddClient(n) PROVE [Service!Next]_Service!vars
  <2>1. Opened' = Opened /\ Closed' = Closed /\ said' = said
    BY <1>4 DEF AddClient, Opened, Closed
  <2> QED
    BY <1>4, <2>1, AddedSubscribers, StepSubscribe
<1>5. CASE Unlink
  <2> PICK c \in Conns, s \in Services : c = client /\ s = service /\ sock[c] # NULL
    BY <1>5, NullAssumption DEF Unlink, Unsubscribed, LinkInv, Busy
  <2>1. RemoveClient(s, sock[c]) /\ UNCHANGED <<peer, sock, said>>
    BY <1>5 DEF Unlink, Unsubscribed
  <2> QED
    BY <2>1, DropRefines
<1>6. CASE ReplyWritten
  BY <1>6, ReplyRefines
<1>7. CASE ReplyFailed
  BY <1>7, SilentStep DEF ReplyFailed
<1>8. ASSUME NEW s \in Services, Purge(s) PROVE [Service!Next]_Service!vars
  <2> PICK c \in Conns : c = client
    BY <1>8 DEF Purge, Purged, LinkInv, Busy
  <2>1. sock[c] # NULL
    BY <1>8, NullAssumption DEF Purge, Purged, LinkInv, Busy
  <2>2. RemoveClient(s, sock[c]) /\ UNCHANGED <<peer, sock, said>>
    BY <1>8 DEF Purge, Purged
  <2> QED
    BY <2>1, <2>2, DropRefines
<1>9. CASE Close
  BY <1>9, CloseRefines
<1>10. ASSUME NEW s \in Services,
              PushNobody(s) \/ PushCheck(s) \/ PushLock(s) \/ PushNext(s) \/ PushFails(s)
                \/ PushUnlock(s)
       PROVE  [Service!Next]_Service!vars
  BY <1>10, SilentStep
  DEF PushNobody, Nobody, PushCheck, Somebody, PushLock, Locked, PushNext, Save,
      PushFails, Fails, PushUnlock, vars
<1>11. ASSUME NEW s \in Services, PushWrite(s) PROVE [Service!Next]_Service!vars
  BY <1>11, WriteRefines
<1>12. ASSUME NEW s \in Services, PushDrop(s) PROVE [Service!Next]_Service!vars
  <2>1. RemoveClient(s, nsock[cur[s]]) /\ UNCHANGED <<peer, sock, said>> /\ push[s] = "drop"
    BY <1>12 DEF PushDrop, Dropped, GoesOn
  <2> PICK d \in Conns : sock[d] = nsock[cur[s]] /\ sock[d] # NULL
    BY <2>1, WritesToSubscriber
  <2> QED
    BY <2>1, DropRefines
<1>13. CASE LineEnds \/ UNCHANGED vars
  BY <1>13, SilentStep DEF LineEnds, vars
<1> QED
  BY <1>1, <1>2, <1>3, <1>4, <1>5, <1>6, <1>7, <1>8, <1>9, <1>10, <1>11, <1>12, <1>13
  DEF Next, ServerInput, ServerStep, PushStep

LEMMA LinkInvariant ==
  ASSUME ~Resubscribe
  PROVE  Spec => []LinkInv
<1> QED
  BY TypeCorrect, PassAlways, ConnAlways, PTL DEF LinkInv

\* As long as nobody subscribes twice, the server thread, the push threads,
\* reused descriptors and failing writes amount to PubSub: a connection is
\* pushed to only while it is subscribed, nobody inherits a subscription with
\* a descriptor, nobody closes with one, and only who is not subscribed any
\* more is told so.
THEOREM ImplementsPubSub ==
  ASSUME ~Resubscribe
  PROVE  Spec => IsPubSub
<1>1. Init => Service!Init
  BY DEF Init, Service!Init, Subscribed, Matches
<1>2. LinkInv /\ [Next]_vars => [Service!Next]_Service!vars
  BY RefineStep
<1> QED
  BY <1>1, <1>2, LinkInvariant, PTL DEF Spec, IsPubSub, Service!Spec

----------------------------------------------------------------------------
(* No push before the subscription was accepted.                           *)

\* Whoever is in a list and has heard nothing of it, is being told.
HeardInv ==
  \A c \in Conns, s \in Services :
    sock[c] # NULL /\ ~Absent(s, sock[c]) /\ peer[c] # "gone" /\ said[c][s] = "nothing"
      => pc = "reply" /\ answer = "subscribed" /\ client = c /\ service = s

\* One entry of a table of tables is changed, the others stay.
LEMMA Entry ==
  ASSUME NEW A, NEW B, NEW V, NEW f \in [A -> [B -> V]], NEW a, NEW b, NEW v,
         NEW g, g = [f EXCEPT ![a][b] = v], NEW c \in A, NEW s \in B
  PROVE  g[c][s] = IF c = a /\ s = b THEN v ELSE f[c][s]
<1>1. CASE c = a
  <2>1. g[c] = [f[c] EXCEPT ![b] = v]
    BY <1>1
  <2> QED
    BY <1>1, <2>1
<1>2. CASE c # a
  BY <1>2
<1> QED
  BY <1>1, <1>2

\* Steps in which nobody is added, forgets what it heard or comes back.
LEMMA HeardFewer ==
  ASSUME HeardInv, UNCHANGED <<sock, peer>>,
         \A t \in Services : \A n \in Listed(t)' : n \in Listed(t) /\ nsock'[n] = nsock[n],
         \A c \in Conns, s \in Services : said'[c][s] = "nothing" => said[c][s] = "nothing",
         pc # "reply" \/ UNCHANGED <<pc, client, service, answer>>
  PROVE  HeardInv'
<1> SUFFICES ASSUME NEW c \in Conns, NEW s \in Services,
                    sock'[c] # NULL, ~Absent(s, sock[c])', peer'[c] # "gone",
                    said'[c][s] = "nothing"
             PROVE  (pc = "reply" /\ answer = "subscribed" /\ client = c /\ service = s)'
  BY DEF HeardInv
<1>1. ~Absent(s, sock[c])
  BY DEF Absent
<1>2. sock[c] # NULL /\ peer[c] # "gone" /\ said[c][s] = "nothing"
  OBVIOUS
<1>3. pc = "reply" /\ answer = "subscribed" /\ client = c /\ service = s
  BY <1>1, <1>2 DEF HeardInv
<1> QED
  BY <1>3

\* Steps in which the lists and what was heard stay, and nobody who was gone
\* comes back.
LEMMA HeardSame ==
  ASSUME HeardInv, UNCHANGED <<sock, lists, said>>,
         \A c \in Conns : peer[c] = "gone" => peer'[c] = "gone",
         pc # "reply" \/ UNCHANGED <<pc, client, service, answer>>
  PROVE  HeardInv'
<1> SUFFICES ASSUME NEW c \in Conns, NEW s \in Services,
                    sock'[c] # NULL, ~Absent(s, sock[c])', peer'[c] # "gone",
                    said'[c][s] = "nothing"
             PROVE  (pc = "reply" /\ answer = "subscribed" /\ client = c /\ service = s)'
  BY DEF HeardInv
<1>1. ~Absent(s, sock[c])
  BY DEF Absent, Listed, lists
<1>2. sock[c] # NULL /\ peer[c] # "gone" /\ said[c][s] = "nothing"
  OBVIOUS
<1>3. pc = "reply" /\ answer = "subscribed" /\ client = c /\ service = s
  BY <1>1, <1>2 DEF HeardInv
<1> QED
  BY <1>3

\* Accept and Close change no subscription; there is one fewer before Close.
LEMMA HeardAccept ==
  ASSUME LinkInv, HeardInv, NEW c \in Conns, Accept(c)
  PROVE  HeardInv'
<1> USE DEF LinkInv
<1>1. PICK fd \in Sockets \ {sock[d] : d \in Conns} : sock' = [sock EXCEPT ![c] = fd]
  BY DEF Accept
<1>2. fd # NULL
  BY NullAssumption
<1>3. sock' = [d \in Conns |-> IF d = c THEN fd ELSE sock[d]]
  BY <1>1 DEF TypeOK, Types
<1>4. ASSUME NEW s \in Services PROVE Absent(s, fd)
  <2>1. \A n \in Listed(s) : n \in Live
    BY ListedFacts DEF TypeOK
  <2> QED
    BY <1>1, <2>1 DEF ConnInv, SubscribersConnected, Absent
<1> SUFFICES ASSUME NEW d \in Conns, NEW s \in Services,
                    sock'[d] # NULL, ~Absent(s, sock[d])', peer'[d] # "gone",
                    said'[d][s] = "nothing"
             PROVE  FALSE
  BY DEF HeardInv
<1>5. ~Absent(s, sock'[d])
  BY DEF Accept, Absent, Listed, lists
<1>6. d # c /\ sock'[d] = sock[d]
  BY <1>3, <1>4, <1>5
<1>7. peer[d] # "gone" /\ said[d][s] = "nothing" /\ pc = "loop"
  BY <1>6 DEF Accept, TypeOK, Types
<1> QED
  BY <1>5, <1>6, <1>7 DEF HeardInv

LEMMA HeardClose ==
  ASSUME LinkInv, HeardInv, Close
  PROVE  HeardInv'
<1> USE DEF LinkInv
<1> PICK c \in Conns : c = client
  BY DEF Busy, Close
<1>1. sock' = [d \in Conns |-> IF d = c THEN NULL ELSE sock[d]]
  BY DEF Close, TypeOK, Types
<1> SUFFICES ASSUME NEW d \in Conns, NEW s \in Services,
                    sock'[d] # NULL, ~Absent(s, sock[d])', peer'[d] # "gone",
                    said'[d][s] = "nothing"
             PROVE  FALSE
  BY DEF HeardInv
<1>2. d # c /\ sock'[d] = sock[d]
  BY <1>1
<1>3. ~Absent(s, sock[d])
  BY <1>2 DEF Close, Absent, Listed, lists
<1>4. peer[d] # "gone" /\ said[d][s] = "nothing" /\ pc = "purge"
  BY <1>2 DEF Close, TypeOK, Types
<1> QED
  BY <1>2, <1>3, <1>4 DEF HeardInv

\* The one who is added is the one the response is for.
LEMMA HeardAdd ==
  ASSUME LinkInv, HeardInv, NEW n \in Nodes, AddClient(n)
  PROVE  HeardInv'
<1> USE DEF LinkInv
<1>1. pc = "add" /\ UNCHANGED <<peer, sock, client, service, said>>
  BY DEF AddClient
<1>2. pc' = "reply" /\ answer' = "subscribed"
  BY DEF AddClient
<1>3. Subscribers' = [Subscribers EXCEPT ![service] = @ \cup {client}]
  BY <1>1, AddedSubscribers
<1> SUFFICES ASSUME NEW d \in Conns, NEW s \in Services,
                    sock'[d] # NULL, ~Absent(s, sock[d])', peer'[d] # "gone",
                    said'[d][s] = "nothing"
             PROVE  client = d /\ service = s
  BY <1>1, <1>2 DEF HeardInv
<1>4. d \in Subscribers'[s]
  BY SubscriberFacts
<1>5. d \notin Subscribers[s]
  BY <1>1, SubscriberFacts DEF HeardInv
<1>6. CASE s = service
  <2>1. Subscribers'[s] = Subscribers[s] \cup {client}
    BY <1>3, <1>6 DEF Subscribers
  <2> QED
    BY <1>4, <1>5, <1>6, <2>1
<1>7. CASE s # service
  BY <1>3, <1>4, <1>5, <1>7 DEF Subscribers
<1> QED
  BY <1>6, <1>7

\* After the response its receiver has heard something.
LEMMA HeardReply ==
  ASSUME LinkInv, HeardInv, ReplyWritten
  PROVE  HeardInv'
<1> USE DEF LinkInv
<1>1. pc = "reply" /\ UNCHANGED <<peer, sock, lists>> /\ peer[client] \in {"up", "gone"}
  BY DEF ReplyWritten
<1> SUFFICES ASSUME NEW d \in Conns, NEW s \in Services,
                    sock'[d] # NULL, ~Absent(s, sock[d])', peer'[d] # "gone",
                    said'[d][s] = "nothing"
             PROVE  FALSE
  BY DEF HeardInv
<1>2. ~Absent(s, sock[d])
  BY <1>1 DEF Absent, Listed, lists
<1>3. CASE said[d][s] = "nothing"
  <2>1. answer = "subscribed" /\ client = d /\ service = s
    BY <1>1, <1>2, <1>3 DEF HeardInv
  <2>2. said' = [said EXCEPT ![d][s] = "subscribed"]
    BY <1>1, <2>1 DEF ReplyWritten
  <2> QED
    BY <2>2 DEF TypeOK, Types
<1>4. CASE said[d][s] # "nothing"
  <2>1. said' = said \/ said' = [said EXCEPT ![client][service] = answer]
    BY DEF ReplyWritten
  <2>2. said'[d][s] = said[d][s] \/ said'[d][s] = answer
    <3>1. said \in [Conns -> [Services -> Heard]]
      BY DEF TypeOK, Types
    <3> QED
      BY <2>1, <3>1, Entry
  <2>3. answer \in {"subscribed", "unsubscribed", "other"}
    BY <1>1 DEF Busy, Answers
  <2> QED
    BY <1>4, <2>2, <2>3
<1> QED
  BY <1>3, <1>4

\* A push thread makes one connection hear a message.
LEMMA HeardWrite ==
  ASSUME LinkInv, HeardInv, NEW s \in Services, PushWrite(s)
  PROVE  HeardInv'
<1>1. UNCHANGED <<peer, sock, lists, pc, client, service, answer>>
  BY DEF PushWrite, Written, GoesOn, server
<1>2. \A t \in Services : \A n \in Listed(t)' : n \in Listed(t) /\ nsock'[n] = nsock[n]
  BY <1>1 DEF Listed, lists
<1>3. \A c \in Conns, t \in Services : said'[c][t] = "nothing" => said[c][t] = "nothing"
  <2>1. said \in [Conns -> [Services -> Heard]]
    BY DEF LinkInv, TypeOK, Types
  <2>2. PICK d \in Conns : said' = [said EXCEPT ![d][s] = "push"] \/ said' = said
    BY DEF PushWrite, Written
  <2> QED
    BY <2>1, <2>2, Entry
<1> QED
  BY <1>1, <1>2, <1>3, HeardFewer

LEMMA HeardStep ==
  ASSUME LinkInv, HeardInv, [Next]_vars
  PROVE  HeardInv'
<1> USE DEF server, pushers
<1>1. ASSUME NEW c \in Conns, Accept(c) PROVE HeardInv'
  BY <1>1, HeardAccept
<1>2. ASSUME NEW c \in Conns, OtherRequest(c) \/ HalfLine(c) \/ Disconnect(c) PROVE HeardInv'
  BY <1>2, HeardSame DEF OtherRequest, HalfLine, Disconnect
<1>3. ASSUME NEW c \in Conns, PeerStep(c) PROVE HeardInv'
  <2>1. \A d \in Conns : peer[d] = "gone" => peer'[d] = "gone"
    BY <1>3 DEF PeerStep, Stall, Drain, Leave, LinkInv, TypeOK, Types
  <2> QED
    BY <1>3, <2>1, HeardSame DEF PeerStep, Stall, Drain, Leave
<1>4. ASSUME NEW c \in Conns, NEW s \in Services, Subscribe(c, s) \/ Unsubscribe(c, s)
      PROVE  HeardInv'
  BY <1>4, HeardSame DEF Subscribe, Unsubscribe
<1>5. ASSUME NEW n \in Nodes, AddClient(n) PROVE HeardInv'
  BY <1>5, HeardAdd
<1>6. CASE Unlink
  <2> PICK s \in Services : s = service
    BY <1>6 DEF Unlink, Unsubscribed, LinkInv, Busy
  <2> PICK fd : fd = sock[client]
    OBVIOUS
  <2>1. RemoveClient(s, fd) /\ pc = "unlink" /\ UNCHANGED <<sock, peer, said>>
    BY <1>6 DEF Unlink, Unsubscribed
  <2>2. \A t \in Services : \A n \in Listed(t)' : n \in Listed(t) /\ nsock'[n] = nsock[n]
    BY <2>1, RemoveClientFacts DEF LinkInv
  <2> QED
    BY <2>1, <2>2, HeardFewer
<1>7. CASE ReplyWritten
  BY <1>7, HeardReply
<1>8. CASE ReplyFailed
  <2> SUFFICES ASSUME NEW d \in Conns, NEW s \in Services,
                      sock'[d] # NULL, ~Absent(s, sock[d])', peer'[d] # "gone",
                      said'[d][s] = "nothing"
               PROVE  FALSE
    BY DEF HeardInv
  <2>1. ~Absent(s, sock[d])
    BY <1>8 DEF ReplyFailed, Absent, Listed, lists
  <2>2. client = d
    BY <1>8, <2>1 DEF ReplyFailed, HeardInv
  <2> QED
    BY <1>8, <2>2 DEF ReplyFailed
<1>9. ASSUME NEW s \in Services, Purge(s) PROVE HeardInv'
  <2>1. \A t \in Services : \A n \in Listed(t)' : n \in Listed(t) /\ nsock'[n] = nsock[n]
    BY <1>9, RemoveClientFacts DEF Purge, LinkInv
  <2> QED
    BY <1>9, <2>1, HeardFewer DEF Purge, Purged
<1>10. CASE Close
  BY <1>10, HeardClose
<1>11. ASSUME NEW s \in Services,
              PushNobody(s) \/ PushCheck(s) \/ PushLock(s) \/ PushNext(s) \/ PushFails(s)
                \/ PushUnlock(s)
       PROVE  HeardInv'
  BY <1>11, HeardSame
  DEF PushNobody, Nobody, PushCheck, Somebody, PushLock, Locked, PushNext, Save,
      PushFails, Fails, PushUnlock, vars
<1>12. ASSUME NEW s \in Services, PushWrite(s) PROVE HeardInv'
  BY <1>12, HeardWrite
<1>13. ASSUME NEW s \in Services, PushDrop(s) PROVE HeardInv'
  <2>1. \A t \in Services : \A n \in Listed(t)' : n \in Listed(t) /\ nsock'[n] = nsock[n]
    BY <1>13, RemoveClientFacts DEF PushDrop, LinkInv
  <2> QED
    BY <1>13, <2>1, HeardFewer DEF PushDrop, Dropped, GoesOn
<1>14. CASE LineEnds \/ UNCHANGED vars
  BY <1>14, HeardSame DEF LineEnds, vars
<1> QED
  BY <1>1, <1>2, <1>3, <1>4, <1>5, <1>6, <1>7, <1>8, <1>9, <1>10, <1>11, <1>12, <1>13, <1>14
  DEF Next, ServerInput, ServerStep, PushStep

\* Only a push thread makes a connection hear a push.
LEMMA FirstPush ==
  ASSUME LinkInv, HeardInv, [Next]_vars,
         NEW c \in Conns, NEW s \in Services, said[c][s] = "nothing", said'[c][s] = "push"
  PROVE  pc = "reply" /\ answer = "subscribed" /\ client = c /\ service = s
<1> USE DEF LinkInv
<1>1. PICK t \in Services : PushWrite(t)
  <2>1. said' # said
    OBVIOUS
  <2>2. CASE ReplyWritten
    <3>1. said' = [said EXCEPT ![client][service] = answer] /\ answer \in Answers
      BY <2>1, <2>2 DEF ReplyWritten, Busy
    <3> QED
      BY <3>1 DEF TypeOK, Types, Answers
  <2> QED
    BY <2>1, <2>2 DEF Next, vars, ServerInput, PeerStep, ServerStep, PushStep, Accept, Subscribe,
       Unsubscribe, OtherRequest, HalfLine, LineEnds, Disconnect, Stall, Drain, Leave, AddClient,
       Unlink, Unsubscribed, ReplyFailed, Purge, Purged, Close, PushNobody, Nobody, PushCheck,
       Somebody, PushLock, Locked, PushNext, Save, PushFails, Fails, PushDrop, Dropped, GoesOn,
       PushUnlock
<1>2. push[t] = "write"
  BY <1>1 DEF PushWrite, Written
<1>3. PICK d \in Conns : /\ sock[d] = nsock[cur[t]]
                         /\ peer[d] = "up"
                         /\ said' = [said EXCEPT ![d][t] = "push"]
  BY <1>1 DEF PushWrite, Written
<1>4. d = c /\ t = s
  BY <1>3 DEF TypeOK, Types
<1> QED
  BY <1>2, <1>3, <1>4, WritesToSubscriber DEF HeardInv, Absent

\* A connection that has heard nothing of a service is not pushed to unless
\* its subscription was accepted and the response is being written: no
\* descriptor brings somebody else's messages with it.
THEOREM PushesInvited ==
  ASSUME ~Resubscribe
  PROVE  Spec => NoForeignPush
<1>1. Init => HeardInv
  BY DEF Init, HeardInv
<1>2. LinkInv /\ HeardInv /\ [Next]_vars => HeardInv'
  BY HeardStep
<1>3. LinkInv /\ HeardInv /\ [Next]_vars =>
        [\A c \in Conns, s \in Services :
           said[c][s] = "nothing" /\ said'[c][s] = "push"
             => pc = "reply" /\ answer = "subscribed" /\ client = c /\ service = s]_vars
  BY FirstPush
<1> QED
  BY <1>1, <1>2, <1>3, LinkInvariant, PTL DEF Spec, NoForeignPush
=============================================================================
