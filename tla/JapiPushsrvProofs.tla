-------------------------- MODULE JapiPushsrvProofs --------------------------
(***************************************************************************)
(* What JapiPushsrv guarantees for every set of connections, descriptors,  *)
(* services and addresses:                                                 *)
(*                                                                         *)
(*  - types and a consistent heap;                                         *)
(*  - a push thread never holds a freed element;                           *)
(*  - every subscriber is an open connection, and responses tell the       *)
(*    truth, as long as nobody subscribes twice to one service.            *)
(*                                                                         *)
(* Here an unsubscribe request takes its element off in one step, and not  *)
(* while a pass points to it. JapiPushsrvHeapProofs carries all of this    *)
(* over to the pointers, where that is an assumption.                      *)
(***************************************************************************)
EXTENDS JapiPushsrv, ListLemmas

\* While the server thread is busy with a client, that client has an open
\* descriptor, and a request about a list has named its service.
Busy ==
  /\ pc \in {"add", "unlink", "reply", "purge"} =>
       client \in Conns /\ sock[client] \in Sockets
  /\ pc \in {"add", "unlink"} => service \in Services
  /\ pc = "reply" => answer \in Answers
  /\ pc = "reply" /\ answer # "other" => service \in Services

----------------------------------------------------------------------------
(* Types and heap.                                                         *)

\* What lists an element can be found in.
LEMMA ListedFacts ==
  ASSUME Types
  PROVE  /\ \A s \in Services : Listed(s) \subseteq Nodes
         /\ \A s \in Services : \A i \in DOMAIN subs[s] : subs[s][i] \in Nodes
         /\ \A s \in Services : \A n : n \in Listed(s) <=> \E i \in DOMAIN subs[s] : n = subs[s][i]
         /\ \A n : n \in Live <=> \E s \in Services : n \in Listed(s)
  BY DEF Types, Listed, Live, ToSet

\* What is at the places of a list.
LEMMA AtFacts ==
  ASSUME TypeOK
  PROVE  \A s \in Services, i \in Nat \ {0} :
           /\ At(s, i) \in Nodes \cup {NULL}
           /\ At(s, i) # NULL <=> i \in DOMAIN subs[s]
           /\ At(s, i) # NULL => At(s, i) \in Listed(s) /\ nsock[At(s, i)] \in Sockets
           /\ \A t \in Services, j \in Nat \ {0} :
                At(s, i) = At(t, j) /\ At(s, i) # NULL => s = t /\ i = j
<1>1. ASSUME NEW s \in Services, NEW i \in DOMAIN subs[s]
      PROVE  subs[s][i] \in Nodes /\ subs[s][i] # NULL /\ nsock[subs[s][i]] \in Sockets
  BY ListedFacts, NullAssumption DEF TypeOK, Types, FreeIsBlank
<1>2. ASSUME NEW s \in Services, NEW i, At(s, i) # NULL
      PROVE  i \in DOMAIN subs[s] /\ At(s, i) = subs[s][i] /\ At(s, i) \in Listed(s)
  BY <1>2 DEF At, Listed, ToSet
<1>3. \A s \in Services : \A i \in DOMAIN subs[s] : At(s, i) = subs[s][i]
  BY DEF At
<1>4. ASSUME NEW s \in Services, NEW t \in Services, NEW i \in Nat \ {0}, NEW j \in Nat \ {0},
             At(s, i) = At(t, j), At(s, i) # NULL
      PROVE  s = t /\ i = j
  BY <1>2, <1>4 DEF TypeOK, NoSharing
<1> QED
  BY <1>1, <1>2, <1>3, <1>4

\* The first element with descriptor fd is gone from the list of s, if there
\* is one, and nothing else is.
FirstRemoved(s, fd) ==
  \/ Matches(s, fd) = {} /\ UNCHANGED lists
  \/ \E i \in Matches(s, fd) :
       /\ \A j \in Matches(s, fd) : i <= j
       /\ subs[s][i] \notin Listed(s)'
       /\ \A t \in Services : \A n \in Listed(t) : n # subs[s][i] => n \in Listed(t)'

\* japi_pushsrv_remove_client keeps the heap consistent, touches one list and
\* takes one element off it.
LEMMA RemoveClientFacts ==
  ASSUME TypeOK, NEW s \in Services, NEW fd, RemoveClient(s, fd)
  PROVE  /\ subs' \in [Services -> Seq(Nodes)]
         /\ nsock' \in [Nodes -> Sockets \cup {NULL}]
         /\ NoSharing'
         /\ FreeIsBlank'
         /\ \A t \in Services : t # s => subs'[t] = subs[t]
         /\ \A t \in Services : \A n \in Listed(t)' : n \in Listed(t) /\ nsock'[n] = nsock[n]
         /\ FirstRemoved(s, fd)
<1>1. CASE Matches(s, fd) = {} /\ UNCHANGED lists
  BY <1>1, ListedFacts
  DEF TypeOK, Types, NoSharing, FreeIsBlank, Live, Listed, lists, FirstRemoved
<1>2. CASE ~(Matches(s, fd) = {} /\ UNCHANGED lists)
  <2> PICK i \in Matches(s, fd) :
        /\ \A j \in Matches(s, fd) : i <= j
        /\ subs'  = [subs EXCEPT ![s] = RemoveAt(@, i)]
        /\ nsock' = [nsock EXCEPT ![subs[s][i]] = NULL]
    BY <1>2 DEF RemoveClient
  <2> DEFINE r == subs[s][i]
  <2>1. i \in DOMAIN subs[s] /\ r \in Nodes /\ subs[s] \in Seq(Nodes)
    BY DEF TypeOK, Types, Matches
  <2>2. /\ RemoveAt(subs[s], i) \in Seq(Nodes)
        /\ \A j \in DOMAIN RemoveAt(subs[s], i) :
             /\ Before(i, j) \in DOMAIN subs[s]
             /\ RemoveAt(subs[s], i)[j] = subs[s][Before(i, j)]
    BY <2>1, RemoveAtFacts
  <2>3. subs' \in [Services -> Seq(Nodes)] /\ nsock' \in [Nodes -> Sockets \cup {NULL}]
    BY <2>1, <2>2 DEF TypeOK, Types
  <2>4. subs'[s] = RemoveAt(subs[s], i) /\ \A t \in Services : t # s => subs'[t] = subs[t]
    BY DEF TypeOK, Types
  <2>5. nsock'[r] = NULL /\ \A n \in Nodes : n # r => nsock'[n] = nsock[n]
    BY <2>1 DEF TypeOK, Types
  \* Every place of a new list is a place of the old one, and r has none.
  <2>6. ASSUME NEW t \in Services, NEW j \in DOMAIN subs'[t]
        PROVE  \E k \in DOMAIN subs[t] :
                 /\ subs'[t][j] = subs[t][k]
                 /\ t = s => k = Before(i, j)
                 /\ subs'[t][j] # r
    <3>1. CASE t = s
      <4>1. i \in Nat /\ j \in Nat
        BY <2>1, <2>2, <2>4, <3>1
      <4>2. Before(i, j) # i
        BY <4>1, BeforeFacts
      <4> QED
        BY <2>1, <2>2, <2>4, <3>1, <4>2 DEF TypeOK, NoSharing
    <3>2. CASE t # s
      BY <2>1, <2>4, <3>2 DEF TypeOK, NoSharing
    <3> QED
      BY <3>1, <3>2
  <2>7. NoSharing'
    <3> SUFFICES ASSUME NEW t \in Services, NEW u \in Services,
                        NEW j \in DOMAIN subs'[t], NEW k \in DOMAIN subs'[u],
                        subs'[t][j] = subs'[u][k]
                 PROVE  t = u /\ j = k
      BY DEF NoSharing
    <3> PICK j0 \in DOMAIN subs[t] :
          subs'[t][j] = subs[t][j0] /\ (t = s => j0 = Before(i, j))
      BY <2>6
    <3> PICK k0 \in DOMAIN subs[u] :
          subs'[u][k] = subs[u][k0] /\ (u = s => k0 = Before(i, k))
      BY <2>6
    <3>1. t = u /\ j0 = k0
      <4>1. subs[t][j0] = subs[u][k0]
        OBVIOUS
      <4> QED
        BY <4>1 DEF TypeOK, NoSharing
    <3>2. CASE t = s
      <4>1. i \in Nat /\ j \in Nat /\ k \in Nat
        <5>1. j \in DOMAIN subs'[s] /\ k \in DOMAIN subs'[s] /\ i \in DOMAIN subs[s]
          BY <2>1, <3>1, <3>2
        <5>2. subs[s] \in Seq(Nodes) /\ subs'[s] \in Seq(Nodes)
          BY <2>1, <2>3
        <5> QED
          BY ONLY <5>1, <5>2
      <4> QED
        BY <3>1, <3>2, <4>1, BeforeFacts
    <3>3. CASE t # s
      <4>1. subs'[t] = subs[t]
        BY <2>4, <3>3
      <4>2. subs[t][j] = subs[t][k] /\ j \in DOMAIN subs[t] /\ k \in DOMAIN subs[t]
        BY <3>1, <4>1
      <4> QED
        BY <3>1, <4>2 DEF TypeOK, NoSharing
    <3> QED
      BY <3>2, <3>3
  <2>8. \A t \in Services : \A n \in Listed(t)' : n \in Listed(t) /\ n # r
    BY <2>6 DEF Listed, ToSet
  <2>9. \A t \in Services : \A n \in Listed(t) : n # r => n \in Listed(t)'
    <3> SUFFICES ASSUME NEW t \in Services, NEW k \in DOMAIN subs[t], subs[t][k] # r
                 PROVE  \E j \in DOMAIN subs'[t] : subs'[t][j] = subs[t][k]
      BY DEF Listed, ToSet
    <3>1. CASE t # s
      BY <2>4, <3>1
    <3>2. CASE t = s
      <4>1. /\ i \in 1 .. Len(subs[s]) /\ k \in 1 .. Len(subs[s])
            /\ Len(subs[s]) \in Nat
            /\ DOMAIN subs'[s] = 1 .. Len(subs[s]) - 1
            /\ k # i
        <5>1. Len(RemoveAt(subs[s], i)) = Len(subs[s]) - 1
          BY <2>1, RemoveAtFacts
        <5> QED
          BY <2>1, <2>2, <2>4, <3>2, <5>1
      <4> DEFINE j == IF k < i THEN k ELSE k - 1
      <4>2. j \in DOMAIN subs'[s] /\ Before(i, j) = k
        BY <4>1 DEF Before
      <4> QED
        BY <2>2, <2>4, <3>2, <4>2
    <3> QED
      BY <3>1, <3>2
  <2>10. FreeIsBlank'
    <3> SUFFICES ASSUME NEW n \in Nodes
                 PROVE  (\E t \in Services : n \in Listed(t)') <=> nsock'[n] # NULL
      BY DEF FreeIsBlank, Live
    <3>1. CASE n = r
      BY <2>5, <2>8, <3>1
    <3>2. CASE n # r
      BY <2>5, <2>8, <2>9, <3>2, ListedFacts DEF TypeOK, FreeIsBlank
    <3> QED
      BY <3>1, <3>2
  <2>11. \A t \in Services : \A n \in Listed(t)' : n \in Listed(t) /\ nsock'[n] = nsock[n]
    BY <2>5, <2>8, ListedFacts DEF TypeOK
  <2>12. FirstRemoved(s, fd)
    BY <2>8, <2>9 DEF FirstRemoved
  <2> QED
    BY <2>3, <2>4, <2>7, <2>10, <2>11, <2>12
<1> QED
  BY <1>1, <1>2

\* japi_pushsrv_add_client keeps the heap consistent: the new head is an
\* element of its own.
LEMMA AddClientFacts ==
  ASSUME TypeOK, NEW s \in Services, NEW n \in Nodes \ Live, NEW fd \in Sockets,
         subs'  = [subs EXCEPT ![s] = <<n>> \o @],
         nsock' = [nsock EXCEPT ![n] = fd]
  PROVE  /\ subs' \in [Services -> Seq(Nodes)]
         /\ nsock' \in [Nodes -> Sockets \cup {NULL}]
         /\ NoSharing'
         /\ FreeIsBlank'
         /\ \A t \in Services : t # s => subs'[t] = subs[t]
         /\ nsock'[n] = fd /\ n \in Listed(s)'
         /\ \A t \in Services : \A m \in Listed(t)' :
              (t = s /\ m = n) \/ (m # n /\ m \in Listed(t) /\ nsock'[m] = nsock[m])
<1>1. subs[s] \in Seq(Nodes) /\ subs'[s] = <<n>> \o subs[s]
  BY DEF TypeOK, Types
<1>2. subs' \in [Services -> Seq(Nodes)]
  BY <1>1, NewHeadFacts DEF TypeOK, Types
<1>3. \A t \in Services : t # s => subs'[t] = subs[t]
  BY DEF TypeOK, Types
<1>4. /\ nsock' \in [Nodes -> Sockets \cup {NULL}]
      /\ nsock'[n] = fd
      /\ \A m \in Nodes : m # n => nsock'[m] = nsock[m]
  BY DEF TypeOK, Types
<1>5. \A t \in Services : \A i \in DOMAIN subs[t] : subs[t][i] # n
  BY ListedFacts DEF TypeOK
\* A place of a new list is the new head or a place of the old list.
<1>6. ASSUME NEW t \in Services, NEW j \in DOMAIN subs'[t]
      PROVE  \/ t = s /\ j = 1 /\ subs'[t][j] = n
             \/ \E k \in DOMAIN subs[t] :
                  subs'[t][j] = subs[t][k] /\ j = IF t = s THEN k + 1 ELSE k
  <2>1. CASE t = s
    <3>1. /\ DOMAIN subs'[s] = 1 .. Len(subs[s]) + 1
          /\ j = 1 \/ (j - 1 \in DOMAIN subs[s] /\ subs'[s][j] = subs[s][j - 1])
          /\ subs'[s][1] = n
      BY <1>1, <1>2, <2>1, NewHeadFacts
    <3>2. j \in Int
      BY <1>1, <3>1, <2>1
    <3> QED
      BY <2>1, <3>1, <3>2
  <2>2. CASE t # s
    BY <1>3, <2>2
  <2> QED
    BY <2>1, <2>2
<1>7. NoSharing'
  <2> SUFFICES ASSUME NEW t \in Services, NEW u \in Services,
                      NEW j \in DOMAIN subs'[t], NEW k \in DOMAIN subs'[u],
                      subs'[t][j] = subs'[u][k]
               PROVE  t = u /\ j = k
    BY DEF NoSharing
  <2>1. CASE subs'[t][j] = n
    BY <2>1, <1>5, <1>6
  <2>2. CASE subs'[t][j] # n
    <3> PICK j0 \in DOMAIN subs[t] :
          subs'[t][j] = subs[t][j0] /\ j = IF t = s THEN j0 + 1 ELSE j0
      BY <1>6, <2>2
    <3> PICK k0 \in DOMAIN subs[u] :
          subs'[u][k] = subs[u][k0] /\ k = IF u = s THEN k0 + 1 ELSE k0
      BY <1>6, <2>2
    <3> QED
      BY DEF TypeOK, NoSharing
  <2> QED
    BY <2>1, <2>2
<1>8. \A t \in Services : \A m \in Listed(t)' :
        (t = s /\ m = n) \/ (m # n /\ m \in Listed(t))
  BY <1>5, <1>6 DEF Listed, ToSet
<1>9. n \in Listed(s)' /\ \A t \in Services : \A m \in Listed(t) : m \in Listed(t)'
  <2>1. 1 \in DOMAIN subs'[s] /\ subs'[s][1] = n
    BY <1>1, <1>2, NewHeadFacts
  <2>2. \A k \in DOMAIN subs[s] : k + 1 \in DOMAIN subs'[s] /\ subs'[s][k + 1] = subs[s][k]
    BY <1>1, <1>2, NewHeadFacts
  <2>3. ASSUME NEW t \in Services, NEW k \in DOMAIN subs[t]
        PROVE  \E j \in DOMAIN subs'[t] : subs'[t][j] = subs[t][k]
    BY <2>2, <1>3
  <2>4. n \in Listed(s)'
    BY <2>1 DEF Listed, ToSet
  <2>5. ASSUME NEW t \in Services, NEW m \in Listed(t) PROVE m \in Listed(t)'
    <3> PICK k \in DOMAIN subs[t] : m = subs[t][k]
      BY DEF Listed, ToSet
    <3> QED
      BY <2>3 DEF Listed, ToSet
  <2> QED
    BY <2>4, <2>5
<1>10. FreeIsBlank'
  <2> SUFFICES ASSUME NEW m \in Nodes
               PROVE  (\E t \in Services : m \in Listed(t)') <=> nsock'[m] # NULL
    BY DEF FreeIsBlank, Live
  <2>1. CASE m = n
    BY <1>4, <1>9, <2>1, NullAssumption
  <2>2. CASE m # n
    BY <1>4, <1>8, <1>9, <2>2, ListedFacts DEF TypeOK, FreeIsBlank
  <2> QED
    BY <2>1, <2>2
<1> QED
  BY <1>2, <1>3, <1>4, <1>7, <1>8, <1>9, <1>10, ListedFacts DEF TypeOK

\* The initial state.
LEMMA TypeInit == Init => TypeOK /\ Busy
<1> SUFFICES ASSUME Init PROVE TypeOK /\ Busy
  OBVIOUS
<1>1. Types
  BY DEF Init, Types, Heard
<1>2. NoSharing /\ FreeIsBlank
  BY DEF Init, NoSharing, FreeIsBlank, Live, Listed, ToSet
<1>3. Busy
  BY DEF Init, Busy
<1> QED
  BY <1>1, <1>2, <1>3 DEF TypeOK

\* Steps that leave the lists alone leave the heap consistent.
LEMMA SameLists ==
  ASSUME TypeOK, UNCHANGED lists
  PROVE  NoSharing' /\ FreeIsBlank'
  BY DEF TypeOK, NoSharing, FreeIsBlank, Live, Listed, lists

\* Every step keeps types, heap and the server thread's context.
LEMMA TypeStep == TypeOK /\ Busy /\ [Next]_vars => TypeOK' /\ Busy'
<1> SUFFICES ASSUME TypeOK, Busy, [Next]_vars PROVE TypeOK' /\ Busy'
  OBVIOUS
<1> USE DEF Heard, Answers, server, pushers, lists
<1>1. ASSUME NEW c \in Conns, Accept(c) PROVE TypeOK' /\ Busy'
  BY <1>1, SameLists DEF Accept, TypeOK, Types, Busy
<1>2. ASSUME NEW c \in Conns, NEW s \in Services, Subscribe(c, s) PROVE TypeOK' /\ Busy'
  BY <1>2, SameLists DEF Subscribe, TypeOK, Types, Busy
<1>3. ASSUME NEW c \in Conns, NEW s \in Services, Unsubscribe(c, s) PROVE TypeOK' /\ Busy'
  BY <1>3, SameLists DEF Unsubscribe, TypeOK, Types, Busy
<1>4. ASSUME NEW c \in Conns, OtherRequest(c) \/ HalfLine(c) PROVE TypeOK' /\ Busy'
  BY <1>4, SameLists DEF OtherRequest, HalfLine, TypeOK, Types, Busy
<1>5. ASSUME NEW c \in Conns, Disconnect(c) PROVE TypeOK' /\ Busy'
  BY <1>5, SameLists DEF Disconnect, TypeOK, Types, Busy
<1>6. ASSUME NEW n \in Nodes, AddClient(n) PROVE TypeOK' /\ Busy'
  <2>1. service \in Services /\ client \in Conns /\ sock[client] \in Sockets
    BY <1>6 DEF AddClient, Busy
  <2>2. /\ n \notin Live
        /\ subs'  = [subs EXCEPT ![service] = <<n>> \o @]
        /\ nsock' = [nsock EXCEPT ![n] = sock[client]]
    BY <1>6 DEF AddClient, TypeOK, FreeIsBlank
  <2>3. /\ subs' \in [Services -> Seq(Nodes)]
        /\ nsock' \in [Nodes -> Sockets \cup {NULL}]
        /\ NoSharing' /\ FreeIsBlank'
    BY <2>1, <2>2, AddClientFacts
  <2> QED
    BY <1>6, <2>1, <2>3 DEF AddClient, TypeOK, Types, Busy
<1>7. CASE Unlink
  <2>1. service \in Services /\ client \in Conns /\ sock[client] \in Sockets
    BY <1>7 DEF Unlink, Unsubscribed, Busy
  <2>2. /\ subs' \in [Services -> Seq(Nodes)]
        /\ nsock' \in [Nodes -> Sockets \cup {NULL}]
        /\ NoSharing' /\ FreeIsBlank'
    BY <1>7, <2>1, RemoveClientFacts DEF Unlink
  <2> QED
    BY <1>7, <2>1, <2>2 DEF Unlink, Unsubscribed, TypeOK, Types, Busy
<1>8. CASE ReplyWritten
  <2>1. said' \in [Conns -> [Services -> Heard]]
    BY <1>8 DEF ReplyWritten, TypeOK, Types, Busy
  <2> QED
    BY <1>8, <2>1, SameLists DEF ReplyWritten, Loop, TypeOK, Types, Busy
<1>9. CASE ReplyFailed
  BY <1>9, SameLists DEF ReplyFailed, TypeOK, Types, Busy
<1>10. ASSUME NEW s \in Services, Purge(s) PROVE TypeOK' /\ Busy'
  <2>1. client \in Conns /\ sock[client] \in Sockets
    BY <1>10 DEF Purge, Purged, Busy
  <2>2. /\ subs' \in [Services -> Seq(Nodes)]
        /\ nsock' \in [Nodes -> Sockets \cup {NULL}]
        /\ NoSharing' /\ FreeIsBlank'
    BY <1>10, <2>1, RemoveClientFacts DEF Purge
  <2> QED
    BY <1>10, <2>1, <2>2 DEF Purge, Purged, TypeOK, Types, Busy
<1>11. CASE Close
  BY <1>11, SameLists DEF Close, Loop, TypeOK, Types, Busy
<1>12. ASSUME NEW s \in Services, PushNobody(s) \/ PushCheck(s) PROVE TypeOK' /\ Busy'
  BY <1>12, SameLists DEF PushNobody, Nobody, PushCheck, Somebody, vars, TypeOK, Types, Busy
<1>13. ASSUME NEW s \in Services, PushLock(s) PROVE TypeOK' /\ Busy'
  <2>1. At(s, 1) \in Nodes \cup {NULL}
    BY AtFacts DEF TypeOK
  <2> QED
    BY <1>13, <2>1, SameLists DEF PushLock, Locked, TypeOK, Types, Busy
<1>14. ASSUME NEW s \in Services, PushNext(s) PROVE TypeOK' /\ Busy'
  <2> PICK i \in DOMAIN subs[s] : Save(s, At(s, i + 1))
    BY <1>14 DEF PushNext
  <2>1. i + 1 \in Nat \ {0}
    BY DEF TypeOK, Types
  <2>2. At(s, i + 1) \in Nodes \cup {NULL}
    BY <2>1, AtFacts
  <2> QED
    BY <2>2, SameLists DEF Save, TypeOK, Types, Busy
<1>15. ASSUME NEW s \in Services, PushWrite(s) \/ PushFails(s) PROVE TypeOK' /\ Busy'
  <2>1. said' \in [Conns -> [Services -> Heard]]
    <3>1. said \in [Conns -> [Services -> Heard]]
      BY DEF TypeOK, Types
    <3>2. \A c \in Conns : [said EXCEPT ![c][s] = "push"] \in [Conns -> [Services -> Heard]]
      BY <3>1
    <3> QED
      BY <1>15, <3>1, <3>2 DEF PushWrite, Written, PushFails, Fails
  <2>2. CASE PushWrite(s)
    BY <2>1, <2>2, SameLists DEF PushWrite, Written, GoesOn, TypeOK, Types, Busy
  <2>3. CASE PushFails(s)
    BY <2>1, <2>3, SameLists DEF PushFails, Fails, TypeOK, Types, Busy
  <2> QED
    BY <1>15, <2>2, <2>3
<1>16. ASSUME NEW s \in Services, PushDrop(s) PROVE TypeOK' /\ Busy'
  <2>1. RemoveClient(s, nsock[cur[s]])
    BY <1>16 DEF PushDrop
  <2>2. /\ subs' \in [Services -> Seq(Nodes)]
        /\ nsock' \in [Nodes -> Sockets \cup {NULL}]
        /\ NoSharing' /\ FreeIsBlank'
    BY <2>1, RemoveClientFacts
  <2> QED
    BY <1>16, <2>2 DEF PushDrop, Dropped, GoesOn, TypeOK, Types, Busy
<1>17. ASSUME NEW s \in Services, PushUnlock(s) PROVE TypeOK' /\ Busy'
  BY <1>17, SameLists DEF PushUnlock, TypeOK, Types, Busy
<1>18. ASSUME NEW c \in Conns, PeerStep(c) PROVE TypeOK' /\ Busy'
  BY <1>18, SameLists DEF PeerStep, Stall, Drain, Leave, TypeOK, Types, Busy
<1>19. CASE LineEnds
  BY <1>19, SameLists DEF LineEnds, Loop, TypeOK, Types, Busy
<1>20. CASE UNCHANGED vars
  BY <1>20, SameLists DEF vars, TypeOK, Types, Busy
<1> QED
  BY <1>1, <1>2, <1>3, <1>4, <1>5, <1>6, <1>7, <1>8, <1>9, <1>10, <1>11, <1>12,
     <1>13, <1>14, <1>15, <1>16, <1>17, <1>18, <1>19, <1>20
  DEF Next, ServerInput, ServerStep, PushStep

\* The variables keep their types, and the sequences share no element, hold no
\* freed one and leave none allocated that is not linked, as long as a removal
\* takes an element off a sequence in one step. MemoryIsSequences shows when
\* the code does; MemoryHoldsLists states the same of its pointers.
THEOREM TypeCorrect == Spec => [](TypeOK /\ Busy)
<1>1. Init => TypeOK /\ Busy
  BY TypeInit
<1>2. (TypeOK /\ Busy) /\ [Next]_vars => (TypeOK /\ Busy)'
  BY TypeStep
<1> QED
  BY <1>1, <1>2, PTL DEF Spec

----------------------------------------------------------------------------
(* A list after one of its elements has been taken off.                    *)

\* What was at place k of a list without the element at m is behind it, or
\* one further to the front.
After(m, k) == IF k < m THEN k ELSE k - 1

\* What is at the places of the shortened list.
LEMMA AtRemoved ==
  ASSUME Types, NEW s \in Services, NEW m \in DOMAIN subs[s], subs'[s] = RemoveAt(subs[s], m)
  PROVE  \A j \in Nat \ {0} : At(s, j)' = At(s, Before(m, j))
<1>1. /\ RemoveAt(subs[s], m) \in Seq(Nodes)
      /\ Len(RemoveAt(subs[s], m)) = Len(subs[s]) - 1
      /\ \A j \in DOMAIN RemoveAt(subs[s], m) :
           Before(m, j) \in DOMAIN subs[s] /\ RemoveAt(subs[s], m)[j] = subs[s][Before(m, j)]
  BY RemoveAtFacts DEF Types
<1>2. subs[s] \in Seq(Nodes)
  BY DEF Types
<1>3. /\ DOMAIN subs[s] = 1 .. Len(subs[s]) /\ Len(subs[s]) \in Nat /\ m \in Nat
      /\ DOMAIN subs'[s] = 1 .. Len(subs[s]) - 1
  BY <1>1, <1>2
<1> SUFFICES ASSUME NEW j \in Nat \ {0}
             PROVE  At(s, j)' = At(s, Before(m, j))
  OBVIOUS
<1>4. CASE j \in DOMAIN subs'[s]
  BY <1>1, <1>4 DEF At
<1>5. CASE j \notin DOMAIN subs'[s]
  <2>1. Before(m, j) \notin DOMAIN subs[s]
    BY <1>3, <1>5 DEF Before
  <2> QED
    BY <1>5, <2>1 DEF At
<1> QED
  BY <1>4, <1>5

\* Neighbours stay neighbours.
LEMMA AtStays ==
  ASSUME Types, NEW s \in Services, NEW m \in DOMAIN subs[s], subs'[s] = RemoveAt(subs[s], m),
         NEW k \in Nat \ {0}, k # m
  PROVE  /\ After(m, k) \in Nat \ {0}
         /\ At(s, After(m, k))' = At(s, k)
         /\ k + 1 # m => At(s, After(m, k) + 1)' = At(s, k + 1)
<1>1. m \in Nat \ {0}
  BY DEF Types
<1>2. /\ After(m, k) \in Nat \ {0} /\ After(m, k) + 1 \in Nat \ {0}
      /\ Before(m, After(m, k)) = k
      /\ k + 1 # m => Before(m, After(m, k) + 1) = k + 1
  BY <1>1 DEF After, Before
<1> QED
  BY <1>2, AtRemoved

\* What removing a client does to the list, if it does anything.
Removes(s, m) ==
  /\ m \in DOMAIN subs[s]
  /\ subs'[s] = RemoveAt(subs[s], m)
  /\ nsock'[subs[s][m]] = NULL

LEMMA RemovesOne ==
  ASSUME TypeOK, NEW s \in Services, NEW fd, RemoveClient(s, fd)
  PROVE  UNCHANGED lists \/ \E m \in Matches(s, fd) :
           Removes(s, m) /\ \A j \in Matches(s, fd) : m <= j
<1> SUFFICES ASSUME NEW m \in Matches(s, fd),
                    subs' = [subs EXCEPT ![s] = RemoveAt(@, m)],
                    nsock' = [nsock EXCEPT ![subs[s][m]] = NULL]
             PROVE  Removes(s, m)
  BY DEF RemoveClient
<1>1. m \in DOMAIN subs[s] /\ subs[s][m] \in Nodes
  BY ListedFacts DEF Matches, TypeOK
<1> QED
  BY <1>1 DEF Removes, TypeOK, Types

----------------------------------------------------------------------------
(* A pass never holds a freed element.                                     *)

\* Where the push thread of s is in its list: at an element, and with the one
\* behind it saved once it is about to write.
InPass(s) ==
  /\ push[s] \in {"idle", "entered"} => cur[s] = NULL
  /\ push[s] \notin {"write", "drop"} => nxt[s] = NULL
  /\ push[s] = "visit" => cur[s] \in Listed(s) \cup {NULL}
  /\ push[s] \in {"write", "drop"} =>
       \E i \in DOMAIN subs[s] : cur[s] = subs[s][i] /\ nxt[s] = At(s, i + 1)

PassInv == \A s \in Services : InPass(s)

LEMMA SamePass ==
  ASSUME NEW s, InPass(s), subs'[s] = subs[s],
         push'[s] = push[s], cur'[s] = cur[s], nxt'[s] = nxt[s]
  PROVE  InPass(s)'
  BY DEF InPass, Listed, At

\* The steps that leave the lists and the push threads alone.
LEMMA SamePasses ==
  ASSUME PassInv, UNCHANGED <<lists, pushers>>
  PROVE  PassInv'
  BY SamePass DEF PassInv, lists, pushers

LEMMA PassPointers == TypeOK /\ PassInv => PassPointersListed
  <1> SUFFICES ASSUME TypeOK, PassInv, NEW s \in Services, push[s] \in {"visit", "write", "drop"}
               PROVE  {cur[s], nxt[s]} \subseteq Listed(s) \cup {NULL}
    BY DEF PassPointersListed
  <1>1. CASE push[s] = "visit"
    BY <1>1 DEF PassInv, InPass
  <1>2. CASE push[s] \in {"write", "drop"}
    <2> PICK i \in DOMAIN subs[s] : cur[s] = subs[s][i] /\ nxt[s] = At(s, i + 1)
      BY <1>2 DEF PassInv, InPass
    <2>1. i + 1 \in Nat \ {0}
      BY DEF TypeOK, Types
    <2>2. At(s, i + 1) \in Listed(s) \cup {NULL}
      BY <2>1, AtFacts
    <2> QED
      BY <2>2, ListedFacts DEF TypeOK
  <1> QED
    BY <1>1, <1>2

\* A removal elsewhere in the list leaves a pass what it holds.
LEMMA PassKept ==
  ASSUME TypeOK, PassInv, NEW s \in Services, NEW fd, RemoveClient(s, fd), UNCHANGED pushers,
         \A n \in {cur[s], nxt[s]} \ {NULL} : nsock'[n] # NULL
  PROVE  PassInv'
<1>1. \A t \in Services : t # s => subs'[t] = subs[t]
  BY RemoveClientFacts
<1>2. \A t \in Services : t # s => InPass(t)'
  BY <1>1, SamePass DEF PassInv, pushers
<1>3. CASE UNCHANGED lists
  BY <1>3, SamePasses
<1>4. CASE ~UNCHANGED lists
  <2> SUFFICES InPass(s)'
    BY <1>2 DEF PassInv
  <2> PICK m \in DOMAIN subs[s] : Removes(s, m)
    BY <1>4, RemovesOne DEF Matches
  <2>1. subs[s][m] # cur[s] /\ subs[s][m] # nxt[s]
    BY ListedFacts, NullAssumption DEF Removes, TypeOK
  <2>2. InPass(s)
    BY DEF PassInv
  <2>3. CASE push[s] = "visit" /\ cur[s] # NULL
    <3>1. cur[s] \in Listed(s)'
      <4> PICK k \in DOMAIN subs[s] : cur[s] = subs[s][k]
        BY <2>2, <2>3, ListedFacts DEF InPass, TypeOK
      <4>1. k \in Nat \ {0} /\ k # m
        BY <2>1 DEF TypeOK, Types
      <4>2. After(m, k) \in Nat \ {0} /\ At(s, After(m, k))' = At(s, k)
        BY <4>1, AtStays DEF Removes, TypeOK
      <4>3. At(s, k) = cur[s]
        BY DEF At
      <4>4. At(s, After(m, k))' = cur[s]
        BY <4>2, <4>3
      <4> QED
        BY <2>3, <4>4 DEF At, Listed, ToSet
    <3> QED
      BY <2>2, <2>3, <3>1 DEF InPass, pushers
  <2>4. CASE push[s] \in {"write", "drop"}
    <3> PICK i \in DOMAIN subs[s] : cur[s] = subs[s][i] /\ nxt[s] = At(s, i + 1)
      BY <2>2, <2>4 DEF InPass
    <3>1. i \in Nat \ {0} /\ i # m /\ i + 1 # m
      BY <2>1 DEF TypeOK, Types, At
    <3> DEFINE j == After(m, i)
    <3>2. j \in Nat \ {0} /\ At(s, j)' = At(s, i) /\ At(s, j + 1)' = At(s, i + 1)
      BY <3>1, AtStays DEF Removes, TypeOK
    <3>3. At(s, i) = cur[s] /\ cur[s] # NULL
      BY ListedFacts, NullAssumption DEF At, TypeOK
    <3> HIDE DEF j
    <3>4. j \in DOMAIN subs'[s] /\ subs'[s][j] = cur[s]
      BY <3>2, <3>3 DEF At
    <3>5. nxt[s] = At(s, j + 1)'
      BY <3>2
    <3> QED
      BY <2>2, <2>4, <3>4, <3>5 DEF InPass, pushers
  <2>5. CASE push[s] \notin {"write", "drop"} /\ ~(push[s] = "visit" /\ cur[s] # NULL)
    BY <2>2, <2>5 DEF InPass, pushers
  <2> QED
    BY <2>3, <2>4, <2>5
<1> QED
  BY <1>3, <1>4

LEMMA PassStep ==
  ASSUME TypeOK, Busy, PassInv, [Next]_vars
  PROVE  PassInv'
<1>1. ASSUME NEW c \in Conns, ServerInput(c) \/ PeerStep(c) PROVE PassInv'
  BY <1>1, SamePasses
  DEF ServerInput, Accept, Subscribe, Unsubscribe, OtherRequest, HalfLine, Disconnect,
      PeerStep, Stall, Drain, Leave, lists, pushers, server
<1>2. ASSUME NEW n \in Nodes, AddClient(n) PROVE PassInv'
  <2>1. service \in Services /\ \A t \in Services : t # service => subs'[t] = subs[t]
    BY <1>2 DEF AddClient, TypeOK, Types, Busy
  <2>2. \A t \in Services : t # service => InPass(t)'
    BY <1>2, <2>1, SamePass DEF AddClient, PassInv, pushers
  <2>3. InPass(service)'
    BY <1>2, <2>1 DEF AddClient, LockFree, PassInv, InPass, pushers
  <2> QED
    BY <1>2, <2>2, <2>3 DEF AddClient, PassInv
<1>3. CASE Unlink
  <2>1. service \in Services /\ RemoveClient(service, sock[client]) /\ UNCHANGED pushers
    BY <1>3 DEF Unlink, Unsubscribed, Busy
  <2> PICK s \in Services : s = service
    BY <2>1
  <2>2. RemoveClient(s, sock[client]) /\ \A n \in {cur[s], nxt[s]} \ {NULL} : nsock'[n] # NULL
    BY <1>3 DEF Unlink
  <2> QED
    BY <2>1, <2>2, PassKept
<1>4. CASE ReplyWritten \/ ReplyFailed \/ Close \/ LineEnds
  BY <1>4, SamePasses DEF ReplyWritten, ReplyFailed, Close, LineEnds, Loop, lists, pushers
<1>5. ASSUME NEW s \in Services, Purge(s) PROVE PassInv'
  <2>1. \A t \in Services : t # s => subs'[t] = subs[t]
    BY <1>5, RemoveClientFacts DEF Purge
  <2>2. \A t \in Services : t # s => InPass(t)'
    BY <1>5, <2>1, SamePass DEF Purge, Purged, PassInv, pushers
  <2>3. InPass(s)'
    BY <1>5 DEF Purge, Purged, LockFree, PassInv, InPass, pushers
  <2> QED
    BY <2>2, <2>3 DEF PassInv
<1>6. ASSUME NEW s \in Services, PushStep(s) PROVE PassInv'
  <2>1. \A t \in Services : t # s =>
          push'[t] = push[t] /\ cur'[t] = cur[t] /\ nxt'[t] = nxt[t]
    BY <1>6
    DEF PushStep, PushNobody, Nobody, PushCheck, Somebody, PushLock, Locked, PushNext, Save,
        PushWrite, Written, PushFails, Fails, PushDrop, Dropped, GoesOn, PushUnlock,
        TypeOK, Types, server, pushers, vars
  <2>2. \A t \in Services : t # s => subs'[t] = subs[t]
    <3>1. CASE PushDrop(s)
      BY <3>1, RemoveClientFacts DEF PushDrop
    <3>2. CASE ~PushDrop(s)
      BY <1>6, <3>2
      DEF PushStep, PushNobody, Nobody, PushCheck, Somebody, PushLock, Locked, PushNext, Save,
          PushWrite, Written, PushFails, Fails, GoesOn, PushUnlock, lists, pushers, vars
    <3> QED
      BY <3>1, <3>2
  <2>3. \A t \in Services : t # s => InPass(t)'
    BY <2>1, <2>2, SamePass DEF PassInv
  <2> SUFFICES InPass(s)'
    BY <2>3 DEF PassInv
  <2>4. CASE PushNobody(s)
    BY <2>4, SamePass DEF PushNobody, Nobody, PassInv, lists, pushers, vars
  <2>5. CASE PushCheck(s) \/ PushUnlock(s)
    <3>1. push'[s] \in {"entered", "idle"} /\ push[s] # "write" /\ push[s] # "drop"
      BY <2>5 DEF PushCheck, Somebody, PushUnlock, TypeOK, Types
    <3>2. nxt'[s] = nxt[s] /\ cur'[s] = cur[s] /\ (push[s] = "visit" => cur[s] = NULL)
      BY <2>5 DEF PushCheck, Somebody, PushUnlock
    <3>3. push[s] \in {"idle", "visit"}
      BY <2>5 DEF PushCheck, Somebody, PushUnlock
    <3> QED
      BY <3>1, <3>2, <3>3 DEF InPass, PassInv
  <2>6. CASE PushLock(s)
    <3>1. At(s, 1) \in Listed(s) \cup {NULL}
      BY AtFacts
    <3>2. /\ push'[s] = "visit" /\ push[s] = "entered" /\ nxt' = nxt /\ subs' = subs
          /\ cur'[s] = At(s, 1)
      BY <2>6 DEF PushLock, Locked, TypeOK, Types, lists
    <3> QED
      BY <3>1, <3>2 DEF PassInv, InPass, Listed
  <2>7. CASE PushNext(s)
    <3> PICK i \in DOMAIN subs[s] : subs[s][i] = cur[s] /\ Save(s, At(s, i + 1))
      BY <2>7 DEF PushNext
    <3>1. /\ push'[s] = "write" /\ cur' = cur /\ subs' = subs
          /\ nxt'[s] = At(s, i + 1)
      BY DEF Save, TypeOK, Types, lists
    <3>2. At(s, i + 1)' = At(s, i + 1)
      BY <3>1 DEF At
    <3> QED
      BY <3>1, <3>2 DEF InPass
  <2>8. CASE PushFails(s)
    <3>1. push'[s] = "drop" /\ push[s] = "write" /\ cur' = cur /\ nxt' = nxt /\ subs' = subs
      BY <2>8 DEF PushFails, Fails, TypeOK, Types, lists
    <3> QED
      BY <3>1 DEF PassInv, InPass, At
  <2>9. CASE PushWrite(s) \/ PushDrop(s)
    <3>1. push'[s] = "visit" /\ cur'[s] = nxt[s] /\ nxt'[s] = NULL
      BY <2>9 DEF PushWrite, Written, PushDrop, Dropped, GoesOn, TypeOK, Types
    <3>2. RemoveClient(s, nsock[cur[s]]) \/ UNCHANGED lists
      BY <2>9 DEF PushWrite, Written, PushDrop
    <3>3. push[s] \in {"write", "drop"}
      BY <2>9 DEF PushWrite, Written, PushDrop, Dropped
    <3> PICK i \in DOMAIN subs[s] : cur[s] = subs[s][i] /\ nxt[s] = At(s, i + 1)
      BY <3>3 DEF PassInv, InPass
    <3>4. i \in Nat \ {0} /\ i + 1 \in Nat \ {0}
      BY DEF TypeOK, Types
    \* The element removed is this one or an earlier one with its descriptor.
    <3>5. nxt[s] # NULL => nxt[s] \in Listed(s)'
      <4> SUFFICES ASSUME nxt[s] # NULL PROVE nxt[s] \in Listed(s)'
        OBVIOUS
      <4>1. nxt[s] \in Listed(s)
        BY <3>4, AtFacts
      <4>2. CASE UNCHANGED lists
        BY <4>1, <4>2 DEF Listed, lists
      <4>3. CASE ~UNCHANGED lists
        <5> PICK m \in Matches(s, nsock[cur[s]]) :
              Removes(s, m) /\ \A j \in Matches(s, nsock[cur[s]]) : m <= j
          BY <3>2, <4>3, RemovesOne
        <5>1. m <= i /\ m \in Nat \ {0}
          BY DEF TypeOK, Types, Matches
        <5>2. i + 1 # m /\ m \in DOMAIN subs[s]
          BY <3>4, <5>1 DEF Matches
        <5>3. At(s, After(m, i + 1))' = At(s, i + 1)
          BY <3>4, <5>2, AtStays DEF Removes, TypeOK
        <5>4. At(s, After(m, i + 1))' = nxt[s]
          BY <5>3
        <5> QED
          BY <5>4 DEF At, Listed, ToSet
      <4> QED
        BY <4>2, <4>3
    <3> QED
      BY <3>1, <3>5 DEF InPass
  <2> QED
    BY <1>6, <2>4, <2>5, <2>6, <2>7, <2>8, <2>9 DEF PushStep
<1>7. CASE UNCHANGED vars
  BY <1>7, SamePasses DEF vars, lists, pushers
<1> QED
  BY <1>1, <1>2, <1>3, <1>4, <1>5, <1>6, <1>7 DEF Next, ServerStep

\* Where the push threads are in their lists, in every reachable state.
LEMMA PassAlways == Spec => []PassInv
<1>1. Init => PassInv
  BY DEF Init, PassInv, InPass
<1>2. TypeOK /\ Busy /\ PassInv /\ [Next]_vars => PassInv'
  BY PassStep
<1> QED
  BY <1>1, <1>2, TypeCorrect, PTL DEF Spec

\* A push thread that is in the middle of its list only ever holds elements of
\* that list: the removals under the lock wait for it, its own come after the
\* successor was saved, and the one without the lock is assumed to keep off
\* its elements (the guard of Unlink).
THEOREM PassSafe == Spec => []PassPointersListed
<1>1. TypeOK /\ PassInv => PassPointersListed
  BY PassPointers
<1> QED
  BY <1>1, TypeCorrect, PassAlways, PTL

----------------------------------------------------------------------------
(* Subscribers are connected and answers are true, while nobody subscribes *)
(* twice.                                                                  *)

\* No two connections share a descriptor, and a connection has none before
\* it is accepted.
OwnDescriptors ==
  /\ \A c, d \in Conns : sock[c] = sock[d] /\ sock[c] # NULL => c = d
  /\ \A c \in Conns : peer[c] = "new" => sock[c] = NULL

\* A service lists a descriptor at most once.
ListedOnce ==
  \A s \in Services : \A m, n \in Listed(s) : nsock[m] = nsock[n] => m = n

\* No element of the list of s has the descriptor fd.
Absent(s, fd) == \A n \in Listed(s) : nsock[n] # fd

\* A client is dropped because its peer left.
DropInv ==
  \A s \in Services : push[s] = "drop" =>
    \A c \in Conns : sock[c] = nsock[cur[s]] => peer[c] = "gone"

\* The strengthening: what a request waiting for the lock was promised, and
\* how far a disconnect has come.
ConnInv ==
  /\ OwnDescriptors
  /\ ListedOnce
  /\ SubscribersConnected
  /\ pc = "add" => Absent(service, sock[client])
  /\ pc = "purge" => \A s \in Services \ todo : Absent(s, sock[client])
  /\ pc = "reply" /\ answer = "unsubscribed" => Absent(service, sock[client])
  /\ pc = "reply" /\ answer = "subscribed" =>
       ~Absent(service, sock[client]) \/ peer[client] = "gone"

LEMMA AbsentFacts ==
  ASSUME NEW s \in Services, NEW fd
  PROVE  Absent(s, fd) <=> Matches(s, fd) = {}
  BY DEF Absent, Matches, Listed, ToSet

LEMMA SubscribedFacts ==
  ASSUME NEW s \in Services, NEW c
  PROVE  Subscribed(c, s) <=> ~Absent(s, sock[c])
  BY AbsentFacts DEF Subscribed

LEMMA ConnAnswers == TypeOK /\ Busy /\ ConnInv => AnswerTruthful
  BY SubscribedFacts DEF ConnInv, AnswerTruthful, Busy

\* Lists that only get shorter keep what ConnInv says of lists.
LEMMA ShorterLists ==
  ASSUME ListedOnce, SubscribersConnected,
         \A t \in Services : \A n \in Listed(t)' : n \in Listed(t) /\ nsock'[n] = nsock[n]
  PROVE  /\ ListedOnce'
         /\ \A t \in Services : \A fd : Absent(t, fd) => Absent(t, fd)'
         /\ sock' = sock => SubscribersConnected'
<1>1. ListedOnce'
  BY DEF ListedOnce
<1>2. \A t \in Services : \A fd : Absent(t, fd) => Absent(t, fd)'
  BY DEF Absent
<1>3. ASSUME sock' = sock PROVE SubscribersConnected'
  BY <1>3 DEF SubscribersConnected, Live
<1> QED
  BY <1>1, <1>2, <1>3

LEMMA EqualLists ==
  ASSUME UNCHANGED lists
  PROVE  /\ ListedOnce' <=> ListedOnce
         /\ \A t \in Services : \A fd : Absent(t, fd)' <=> Absent(t, fd)
         /\ sock' = sock => (SubscribersConnected' <=> SubscribersConnected)
  BY DEF lists, ListedOnce, Absent, SubscribersConnected, Live, Listed

\* Where a list has the descriptor once, removing it leaves none.
LEMMA RemovedIsAbsent ==
  ASSUME TypeOK, ListedOnce, NEW s \in Services, NEW fd, RemoveClient(s, fd)
  PROVE  Absent(s, fd)'
<1>1. CASE Matches(s, fd) = {} /\ UNCHANGED lists
  BY <1>1, AbsentFacts, EqualLists
<1>2. CASE ~(Matches(s, fd) = {} /\ UNCHANGED lists)
  <2> PICK i \in Matches(s, fd) : subs[s][i] \notin Listed(s)'
    BY <1>2, RemoveClientFacts DEF FirstRemoved
  <2>1. subs[s][i] \in Listed(s) /\ nsock[subs[s][i]] = fd
    BY ListedFacts DEF TypeOK, Matches
  <2>2. ASSUME NEW n \in Listed(s)' PROVE nsock'[n] # fd
    BY <2>1, <2>2, RemoveClientFacts DEF ListedOnce
  <2> QED
    BY <2>2 DEF Absent
<1> QED
  BY <1>1, <1>2

\* What a removal takes off a list had the descriptor it was asked for.
LEMMA RemovedOnlyThat ==
  ASSUME TypeOK, NEW s \in Services, NEW fd, RemoveClient(s, fd),
         NEW t \in Services, NEW gd, gd # fd, ~Absent(t, gd)
  PROVE  ~Absent(t, gd)'
<1> PICK n \in Listed(t) : nsock[n] = gd
  BY DEF Absent
<1>1. CASE Matches(s, fd) = {} /\ UNCHANGED lists
  BY <1>1, EqualLists
<1>2. CASE ~(Matches(s, fd) = {} /\ UNCHANGED lists)
  <2>1. n \in Listed(t)'
    BY <1>2, RemoveClientFacts DEF FirstRemoved, Matches
  <2>2. nsock'[n] = nsock[n]
    BY <2>1, RemoveClientFacts
  <2> QED
    BY <2>1, <2>2 DEF Absent
<1> QED
  BY <1>1, <1>2

\* Steps that leave lists, descriptors and the server thread alone, and in
\* which no peer that left comes back.
LEMMA SameConns ==
  ASSUME TypeOK, Busy, ConnInv, UNCHANGED <<sock, lists, pc, client, service, answer, todo>>,
         \A c \in Conns : peer[c] = "gone" => peer'[c] = "gone",
         \A c \in Conns : peer'[c] = "new" => peer[c] = "new"
  PROVE  ConnInv'
<1>1. /\ sock' = sock /\ pc' = pc /\ client' = client /\ service' = service
      /\ answer' = answer /\ todo' = todo /\ UNCHANGED lists
  OBVIOUS
<1>2. OwnDescriptors'
  <2>1. \A c \in Conns : peer'[c] = "new" => sock'[c] = NULL
    BY <1>1 DEF ConnInv, OwnDescriptors
  <2>2. \A c, d \in Conns : sock'[c] = sock'[d] /\ sock'[c] # NULL => c = d
    BY <1>1 DEF ConnInv, OwnDescriptors
  <2> QED
    BY <2>1, <2>2 DEF OwnDescriptors
<1>3. ListedOnce' /\ SubscribersConnected'
  BY <1>1, EqualLists DEF ConnInv
<1>4. \A s : Absent(s, sock[client])' <=> Absent(s, sock[client])
  BY <1>1 DEF Absent, Listed, lists
<1>5. Absent(service, sock[client])' <=> Absent(service, sock[client])
  BY <1>1 DEF Absent, Listed, lists
<1>6. ASSUME pc = "reply", peer[client] = "gone"
      PROVE  peer'[client] = "gone"
  BY <1>6 DEF Busy
<1> QED
  BY <1>1, <1>2, <1>3, <1>4, <1>5, <1>6 DEF ConnInv

LEMMA ConnStep ==
  ASSUME ~Resubscribe, TypeOK, Busy, ConnInv, DropInv, [Next]_vars
  PROVE  ConnInv'
<1>1. ASSUME NEW c \in Conns, Accept(c) PROVE ConnInv'
  <2>1. PICK fd \in Sockets \ {sock[d] : d \in Conns} : sock' = [sock EXCEPT ![c] = fd]
    BY <1>1 DEF Accept
  <2>2. sock[c] = NULL
    BY <1>1 DEF Accept, ConnInv, OwnDescriptors
  <2>3. OwnDescriptors'
    BY <1>1, <2>1, <2>2 DEF Accept, ConnInv, OwnDescriptors, TypeOK, Types
  <2>4. SubscribersConnected'
    <3> SUFFICES ASSUME NEW n \in Live PROVE \E d \in Conns : sock'[d] = nsock[n]
      BY <1>1 DEF Accept, SubscribersConnected, Live, Listed, lists
    <3> PICK d \in Conns : sock[d] = nsock[n]
      BY DEF ConnInv, SubscribersConnected
    <3>1. nsock[n] # NULL
      BY ListedFacts DEF TypeOK, FreeIsBlank
    <3> QED
      BY <2>1, <2>2, <3>1 DEF TypeOK, Types
  <2>5. ListedOnce' /\ pc' = "loop"
    BY <1>1, EqualLists DEF Accept, ConnInv, server
  <2> QED
    BY <2>3, <2>4, <2>5 DEF ConnInv
<1>2. ASSUME NEW c \in Conns, NEW s \in Services, Subscribe(c, s) PROVE ConnInv'
  <2>1. ListedOnce' /\ SubscribersConnected' /\ OwnDescriptors'
    BY <1>2, EqualLists DEF Subscribe, ConnInv, OwnDescriptors
  <2>2. Absent(s, sock[c])'
    <3>1. Absent(s, sock[c])
      BY <1>2, SubscribedFacts DEF Subscribe
    <3> QED
      BY <1>2, <3>1 DEF Subscribe, Absent, Listed, lists
  <2> QED
    BY <1>2, <2>1, <2>2 DEF Subscribe, ConnInv
<1>3. ASSUME NEW c \in Conns, \/ \E s \in Services : Unsubscribe(c, s)
                              \/ OtherRequest(c)
                              \/ HalfLine(c)
                              \/ Disconnect(c)
      PROVE  ConnInv'
  <2>1. ListedOnce' /\ SubscribersConnected' /\ OwnDescriptors'
    BY <1>3, EqualLists DEF Unsubscribe, OtherRequest, HalfLine, Disconnect, ConnInv, OwnDescriptors
  <2> QED
    BY <1>3, <2>1 DEF Unsubscribe, OtherRequest, HalfLine, Disconnect, ConnInv
<1>4. ASSUME NEW n \in Nodes, AddClient(n) PROVE ConnInv'
  <2>1. service \in Services /\ client \in Conns /\ sock[client] \in Sockets
    BY <1>4 DEF AddClient, Busy
  <2>2. /\ n \notin Live
        /\ subs'  = [subs EXCEPT ![service] = <<n>> \o @]
        /\ nsock' = [nsock EXCEPT ![n] = sock[client]]
    BY <1>4 DEF AddClient, TypeOK, FreeIsBlank
  <2>3. /\ nsock'[n] = sock[client] /\ n \in Listed(service)'
        /\ \A t \in Services : \A m \in Listed(t)' :
             \/ t = service /\ m = n
             \/ m # n /\ m \in Listed(t) /\ nsock'[m] = nsock[m]
    <3> PICK fd \in Sockets : fd = sock[client]
      BY <2>1
    <3> PICK s \in Services : s = service
      BY <2>1
    <3>1. /\ subs'  = [subs EXCEPT ![s] = <<n>> \o @]
          /\ nsock' = [nsock EXCEPT ![n] = fd]
      BY <2>2
    <3>2. /\ nsock'[n] = fd /\ n \in Listed(s)'
          /\ \A t \in Services : \A m \in Listed(t)' :
               (t = s /\ m = n) \/ (m # n /\ m \in Listed(t) /\ nsock'[m] = nsock[m])
      <4>1. n \in Nodes \ Live
        BY <2>2
      <4> QED
        BY ONLY <3>1, <4>1, TypeOK, NullAssumption, s \in Services, fd \in Sockets, AddClientFacts
    <3> QED
      BY <1>4, <3>2 DEF AddClient, Listed
  <2>4. Absent(service, sock[client])
    BY <1>4 DEF AddClient, ConnInv
  <2>5. ListedOnce'
    BY <2>3, <2>4 DEF ConnInv, ListedOnce, Absent
  <2>6. SubscribersConnected'
    BY <1>4, <2>1, <2>3 DEF AddClient, ConnInv, SubscribersConnected, Live
  <2>7. ~Absent(service, sock[client])'
    BY <1>4, <2>3 DEF AddClient, Absent
  <2> QED
    BY <1>4, <2>5, <2>6, <2>7 DEF AddClient, ConnInv, OwnDescriptors
<1>5. CASE Unlink
  <2>1. service \in Services /\ client \in Conns /\ sock[client] \in Sockets
    BY <1>5 DEF Unlink, Unsubscribed, Busy
  <2>2. RemoveClient(service, sock[client])
    BY <1>5 DEF Unlink
  <2>3. ListedOnce' /\ SubscribersConnected'
    BY <1>5, <2>1, <2>2, RemoveClientFacts, ShorterLists DEF Unlink, Unsubscribed, ConnInv
  <2>4. Absent(service, sock[client])'
    <3> PICK fd \in Sockets : fd = sock[client]
      BY <2>1
    <3> PICK s \in Services : s = service
      BY <2>1
    <3>1. Absent(s, fd)'
      BY <2>2, RemovedIsAbsent DEF ConnInv
    <3> QED
      BY <1>5, <3>1 DEF Unlink, Unsubscribed, Absent, Listed
  <2> QED
    BY <1>5, <2>3, <2>4 DEF Unlink, Unsubscribed, ConnInv, OwnDescriptors
<1>6. CASE ReplyWritten \/ ReplyFailed \/ LineEnds
  <2>1. ListedOnce' /\ SubscribersConnected' /\ OwnDescriptors'
    BY <1>6, EqualLists DEF ReplyWritten, ReplyFailed, LineEnds, ConnInv, OwnDescriptors
  <2> QED
    BY <1>6, <2>1 DEF ReplyWritten, ReplyFailed, LineEnds, Loop, ConnInv
<1>7. ASSUME NEW s \in Services, Purge(s) PROVE ConnInv'
  <2>1. client \in Conns /\ sock[client] \in Sockets /\ RemoveClient(s, sock[client])
    BY <1>7 DEF Purge, Purged, Busy
  <2>2. /\ ListedOnce' /\ SubscribersConnected'
        /\ \A t \in Services : \A fd : Absent(t, fd) => Absent(t, fd)'
    BY <1>7, <2>1, RemoveClientFacts, ShorterLists DEF Purge, Purged, ConnInv
  <2> PICK fd \in Sockets : fd = sock[client]
    BY <2>1
  <2>3. Absent(s, fd)'
    BY <2>1, RemovedIsAbsent DEF ConnInv
  <2>4. \A t \in Services \ todo' : Absent(t, fd)'
    BY <1>7, <2>2, <2>3 DEF Purge, Purged, ConnInv
  <2>5. \A t \in Services \ todo' : Absent(t, sock[client])'
    BY <1>7, <2>4 DEF Purge, Purged, Absent, Listed
  <2> QED
    BY <1>7, <2>2, <2>5 DEF Purge, Purged, ConnInv, OwnDescriptors
<1>8. CASE Close
  <2>1. client \in Conns /\ sock[client] \in Sockets
    BY <1>8 DEF Close, Busy
  <2>2. OwnDescriptors'
    BY <1>8, <2>1 DEF Close, ConnInv, OwnDescriptors, TypeOK, Types
  <2>3. SubscribersConnected'
    <3> SUFFICES ASSUME NEW n \in Live PROVE \E d \in Conns : sock'[d] = nsock[n]
      BY <1>8 DEF Close, SubscribersConnected, Live, Listed, lists
    <3> PICK d \in Conns : sock[d] = nsock[n]
      BY DEF ConnInv, SubscribersConnected
    <3>1. d # client
      BY <1>8 DEF Close, ConnInv, Absent, Live
    <3> QED
      BY <1>8, <3>1 DEF Close, TypeOK, Types
  <2>4. ListedOnce' /\ pc' = "loop"
    BY <1>8, EqualLists DEF Close, Loop, ConnInv
  <2> QED
    BY <2>2, <2>3, <2>4 DEF ConnInv
<1>9. ASSUME NEW s \in Services, PushDrop(s) PROVE ConnInv'
  <2> DEFINE fd == nsock[cur[s]]
  <2>1. RemoveClient(s, fd) /\ \A c \in Conns : sock[c] = fd => peer[c] = "gone"
    BY <1>9 DEF PushDrop, Dropped, DropInv
  <2> HIDE DEF fd
  <2>2. /\ ListedOnce' /\ SubscribersConnected'
        /\ \A t \in Services : \A gd : Absent(t, gd) => Absent(t, gd)'
    BY <1>9, <2>1, RemoveClientFacts, ShorterLists DEF PushDrop, Dropped, GoesOn, ConnInv
  <2> PICK gd : gd = sock[client]
    OBVIOUS
  <2>3. \A t \in Services : Absent(t, gd)' <=> Absent(t, sock[client])'
    BY <1>9 DEF PushDrop, Dropped, GoesOn, server, Absent, Listed
  <2>4. \A t \in Services : Absent(t, sock[client]) => Absent(t, sock[client])'
    BY <2>2, <2>3
  <2>5. ASSUME pc = "reply", answer = "subscribed"
        PROVE  ~Absent(service, sock[client])' \/ peer[client] = "gone"
    <3> PICK t \in Services : t = service
      BY <2>5 DEF Busy
    <3>1. client \in Conns
      BY <2>5 DEF Busy
    <3>2. CASE gd = fd
      BY <2>1, <3>1, <3>2
    <3>3. CASE gd # fd /\ ~Absent(t, gd)
      <4>1. ~Absent(t, gd)'
        BY <2>1, <3>3, RemovedOnlyThat
      <4> QED
        BY <1>9, <4>1 DEF PushDrop, Dropped, GoesOn, server, Absent, Listed
    <3> QED
      BY <2>5, <3>2, <3>3 DEF ConnInv
  <2> QED
    BY <1>9, <2>2, <2>4, <2>5 DEF PushDrop, Dropped, GoesOn, server, ConnInv, OwnDescriptors, Busy
<1>10. ASSUME NEW s \in Services, PushStep(s), ~PushDrop(s) PROVE ConnInv'
  BY <1>10, SameConns
  DEF PushStep, PushNobody, Nobody, PushCheck, Somebody, PushLock, Locked, PushNext, Save,
      PushWrite, Written, GoesOn, PushFails, Fails, PushUnlock, server, vars
<1>11. ASSUME NEW c \in Conns, PeerStep(c) PROVE ConnInv'
  BY <1>11, SameConns DEF PeerStep, Stall, Drain, Leave, server, TypeOK, Types
<1>12. CASE UNCHANGED vars
  BY <1>12, SameConns DEF vars, server
<1> QED
  BY <1>1, <1>2, <1>3, <1>4, <1>5, <1>6, <1>7, <1>8, <1>9, <1>10, <1>11, <1>12
  DEF Next, ServerInput, ServerStep

\* An element keeps its descriptor while it is listed.
LEMMA ListsKeep ==
  ASSUME TypeOK, Busy, [Next]_vars, NEW s \in Services, NEW n, n \in Listed(s), n \in Listed(s)'
  PROVE  nsock'[n] = nsock[n]
<1>1. CASE \E m \in Nodes : AddClient(m)
  <2> PICK m \in Nodes : AddClient(m)
    BY <1>1
  <2>1. n # m /\ n \in Nodes
    BY ListedFacts DEF AddClient, TypeOK, FreeIsBlank
  <2> QED
    BY <2>1 DEF AddClient, TypeOK, Types
<1>2. CASE \E t \in Services : \E fd : RemoveClient(t, fd)
  BY <1>2, RemoveClientFacts
<1>3. CASE UNCHANGED lists
  BY <1>3 DEF lists
<1>4. (\E m \in Nodes : AddClient(m)) \/ UNCHANGED lists
        \/ \E t \in Services : \E fd : RemoveClient(t, fd)
  <2>1. CASE Unlink
    <3> PICK t \in Services : t = service
      BY <2>1 DEF Unlink, Unsubscribed, Busy
    <3> PICK fd : fd = sock[client]
      OBVIOUS
    <3>1. RemoveClient(t, fd)
      BY <2>1 DEF Unlink
    <3> QED
      BY <3>1
  <2>2. CASE \E t \in Services : Purge(t) \/ PushDrop(t)
    <3> PICK t \in Services : Purge(t) \/ PushDrop(t)
      BY <2>2
    <3>1. \E fd : RemoveClient(t, fd)
      BY DEF Purge, PushDrop
    <3> QED
      BY <3>1
  <2>3. CASE ~Unlink /\ ~(\E t \in Services : Purge(t) \/ PushDrop(t))
    BY <2>3
    DEF Next, ServerInput, Accept, Subscribe, Unsubscribe, OtherRequest, HalfLine, Disconnect,
        PeerStep, Stall, Drain, Leave, ServerStep, ReplyWritten, ReplyFailed, Close, LineEnds,
        PushStep, PushNobody, Nobody, PushCheck, Somebody, PushLock, Locked, PushNext, Save,
        PushWrite, Written, GoesOn, PushFails, Fails, PushUnlock, vars
  <2> QED
    BY <2>1, <2>2, <2>3
<1> QED
  BY <1>1, <1>2, <1>3, <1>4

\* A peer with a descriptor that has left does not come back.
LEMMA GoneStays ==
  ASSUME TypeOK, ConnInv, [Next]_vars, NEW c \in Conns, sock[c] \in Sockets, peer[c] = "gone"
  PROVE  peer'[c] = "gone"
  BY DEF Next, ServerInput, Accept, Subscribe, Unsubscribe, OtherRequest, HalfLine, Disconnect,
         PeerStep, Stall, Drain, Leave, ServerStep, AddClient, Unlink, Unsubscribed, ReplyWritten,
         ReplyFailed, Purge, Purged, Close, LineEnds, PushStep, PushNobody, Nobody, PushCheck,
         Somebody, PushLock, Locked, PushNext, Save, PushWrite, Written, PushFails, Fails,
         PushDrop, Dropped, GoesOn, PushUnlock, vars, TypeOK, Types

\* What makes a pass drop a client stays so until it does.
LEMMA DropStep ==
  ASSUME TypeOK, Busy, PassInv, PassInv', ConnInv, DropInv, [Next]_vars
  PROVE  DropInv'
<1> SUFFICES ASSUME NEW s \in Services, push'[s] = "drop", NEW c \in Conns,
                    sock'[c] = nsock'[cur'[s]]
             PROVE  peer'[c] = "gone"
  BY DEF DropInv
<1>1. CASE PushFails(s)
  BY <1>1 DEF PushFails, Fails, lists
<1>2. CASE ~PushFails(s)
  <2>1. push[s] = "drop" /\ cur'[s] = cur[s]
    <3>1. CASE UNCHANGED pushers
      BY <3>1 DEF pushers
    <3>2. CASE \E r \in Services : PushStep(r)
      <4> PICK r \in Services : PushStep(r)
        BY <3>2
      <4>1. CASE r = s
        BY <4>1, <1>2
        DEF PushStep, PushNobody, Nobody, PushCheck, Somebody, PushLock, Locked, PushNext, Save,
            PushWrite, Written, PushDrop, Dropped, GoesOn, PushUnlock, vars, pushers, TypeOK, Types
      <4>2. CASE r # s
        BY <4>2
        DEF PushStep, PushNobody, Nobody, PushCheck, Somebody, PushLock, Locked, PushNext, Save,
            PushWrite, Written, PushFails, Fails, PushDrop, Dropped, GoesOn, PushUnlock, vars,
            pushers, TypeOK, Types
      <4> QED
        BY <4>1, <4>2
    <3> QED
      BY <3>1, <3>2
      DEF Next, ServerInput, Accept, Subscribe, Unsubscribe, OtherRequest, HalfLine, Disconnect,
          PeerStep, Stall, Drain, Leave, ServerStep, AddClient, Unlink, Unsubscribed,
          ReplyWritten, ReplyFailed, Purge, Purged, Close, LineEnds, vars
  <2>2. cur[s] \in Listed(s) /\ cur[s] \in Listed(s)'
    <3>1. cur[s] \in Listed(s)
      BY <2>1, ListedFacts DEF PassInv, InPass, TypeOK
    <3>2. cur'[s] \in Listed(s)'
      BY DEF PassInv, InPass, Listed, ToSet
    <3> QED
      BY <2>1, <3>1, <3>2
  <2>3. nsock'[cur[s]] = nsock[cur[s]]
    BY <2>2, ListsKeep
  <2>4. nsock[cur[s]] \in Sockets /\ \E d \in Conns : sock[d] = nsock[cur[s]]
    BY <2>2, ListedFacts DEF ConnInv, SubscribersConnected, TypeOK, Types, FreeIsBlank
  <2>5. sock[c] = nsock[cur[s]]
    <3>1. sock'[c] = nsock[cur[s]]
      BY <2>1, <2>3
    <3>2. CASE \E d \in Conns : Accept(d)
      <4> PICK d \in Conns : Accept(d)
        BY <3>2
      <4>1. /\ sock'[d] \notin {sock[e] : e \in Conns}
            /\ \A e \in Conns : e # d => sock'[e] = sock[e]
        BY DEF Accept, TypeOK, Types
      <4> QED
        BY <2>4, <3>1, <4>1
    <3>3. CASE Close
      <4>1. \A e \in Conns : sock'[e] = sock[e] \/ sock'[e] = NULL
        BY <3>3 DEF Close, TypeOK, Types
      <4> QED
        BY <2>4, <3>1, <4>1, NullAssumption
    <3>4. CASE ~(\E d \in Conns : Accept(d)) /\ ~Close
      <4>1. sock' = sock
        BY <3>4
        DEF Next, ServerInput, Subscribe, Unsubscribe, OtherRequest, HalfLine, Disconnect,
            PeerStep, Stall, Drain, Leave, ServerStep, AddClient, Unlink, Unsubscribed,
            ReplyWritten, ReplyFailed, Purge, Purged, LineEnds, PushStep, PushNobody, Nobody,
            PushCheck, Somebody, PushLock, Locked, PushNext, Save, PushWrite, Written, PushFails,
            Fails, PushDrop, Dropped, GoesOn, PushUnlock, vars
      <4> QED
        BY <3>1, <4>1
    <3> QED
      BY <3>2, <3>3, <3>4
  <2>6. peer[c] = "gone"
    BY <2>1, <2>5 DEF DropInv
  <2> QED
    BY <2>4, <2>5, <2>6, GoneStays
<1> QED
  BY <1>1, <1>2

LEMMA ConnAlways ==
  ASSUME ~Resubscribe
  PROVE  Spec => [](ConnInv /\ DropInv)
<1>1. Init => ConnInv /\ DropInv
  BY DEF Init, ConnInv, DropInv, OwnDescriptors, ListedOnce, SubscribersConnected, Live,
         Listed, ToSet
<1>2. TypeOK /\ Busy /\ PassInv /\ PassInv' /\ ConnInv /\ DropInv /\ [Next]_vars
        => (ConnInv /\ DropInv)'
  BY ConnStep, DropStep
<1> QED
  BY <1>1, <1>2, TypeCorrect, PassAlways, PTL DEF Spec

\* If no client subscribes to a service it is subscribed to, every list
\* element carries the descriptor of an open connection: japi_remove_client
\* takes the client off every list before it closes the socket, and one
\* element is all a list has of it.
THEOREM SubscribersSafe ==
  ASSUME ~Resubscribe
  PROVE  Spec => []SubscribersConnected
<1>1. ConnInv => SubscribersConnected
  BY DEF ConnInv
<1> QED
  BY <1>1, ConnAlways, PTL

\* What the responses to subscribe and unsubscribe say of the lists is still
\* so when they are written, whatever push threads have removed meanwhile.
THEOREM AnswersTrue ==
  ASSUME ~Resubscribe
  PROVE  Spec => []AnswerTruthful
<1>1. TypeOK /\ Busy /\ ConnInv => AnswerTruthful
  BY ConnAnswers
<1> QED
  BY <1>1, ConnAlways, TypeCorrect, PTL
=============================================================================
