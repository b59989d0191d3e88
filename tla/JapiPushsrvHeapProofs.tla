------------------------- MODULE JapiPushsrvHeapProofs -------------------------
(***************************************************************************)
(* The pointers of JapiPushsrvHeap hold the lists of JapiPushsrv, for      *)
(* every set of connections, descriptors, services and addresses and lists *)
(* of any length, if nobody unsubscribes, or if the search of that request *)
(* and the passes free no element the other points to. Each step on the    *)
(* memory is then a step on the sequences or none, and what is proved of   *)
(* JapiPushsrv holds of the memory.                                        *)
(***************************************************************************)
EXTENDS JapiPushsrvHeap, JapiPushsrvRefinement

\* Where a search is: at place k of its list, with the element before in
\* prev, past elements with other descriptors only.
Place(t, k) ==
  LET r == search[t] IN
  /\ k \in Nat \ {0}
  /\ r.elem = At(r.list, k)
  /\ r.prev = At(r.list, k - 1)
  /\ \A i \in DOMAIN subs[r.list] : i < k => nsock[subs[r.list][i]] # r.fd
  /\ ~r.found => r.after = NULL
  /\ r.found => r.elem # NULL /\ nsock[r.elem] = r.fd /\ r.after = At(r.list, k + 1)

\* What a search is for, and what its thread does meanwhile.
Role(t) ==
  LET r == search[t] IN
  /\ t = ServerThread =>
       /\ r.fd = sock[client]
       /\ \/ pc = "unlink" /\ r.list = service
          \/ pc = "purge" /\ r.list \in todo /\ LockFree(r.list)
  /\ t \in Services => r.list = t /\ push[t] = "drop" /\ r.fd = nsock[cur[t]]

SearchInv == \A t \in Threads : Searching(t) => Role(t) /\ \E k : Place(t, k)

\* The assumption about requests, and where it is needed.
Careful == Races => "unsubscribe" \notin Requests
AskedTo == pc = "unlink" => "unsubscribe" \in Requests

HInv == AskedTo /\ TypeOK /\ Busy /\ PassInv /\ ListsLinked /\ SearchInv

----------------------------------------------------------------------------
(* What is read from an element that is listed.                            *)

LEMMA ReadFacts ==
  ASSUME HInv, NEW s \in Services, NEW i \in Nat \ {0}, At(s, i) # NULL
  PROVE  /\ At(s, i) \in Listed(s) /\ At(s, i) \in Nodes
         /\ NextOf(At(s, i)) = {At(s, i + 1)}
         /\ SocketOf(At(s, i)) = {nsock[At(s, i)]}
<1>1. /\ i \in DOMAIN subs[s] /\ At(s, i) \in Listed(s) /\ At(s, i) \in Nodes
      /\ nsock[At(s, i)] \in Sockets
  BY AtFacts DEF HInv
<1>2. next[At(s, i)] = At(s, i + 1)
  BY <1>1 DEF HInv, ListsLinked, At
<1> QED
  BY <1>1, <1>2, NullAssumption DEF NextOf, SocketOf

\* The search of a thread, spelled out.
LEMMA SearchFacts ==
  ASSUME HInv, NEW t \in Threads, Searching(t)
  PROVE  /\ search[t].list \in Services /\ Role(t)
         /\ \E k \in Nat \ {0} : Place(t, k)
  BY DEF HInv, SearchInv, ListsLinked, HeapTypes, Searching, Place

\* An element a pass is writing to is listed, and read as such.
LEMMA CurFacts ==
  ASSUME HInv, NEW s \in Services, push[s] \in {"visit", "write", "drop"}, cur[s] # NULL
  PROVE  \E i \in DOMAIN subs[s] :
           /\ cur[s] = subs[s][i] /\ cur[s] \in Nodes /\ cur[s] \in Listed(s)
           /\ NextOf(cur[s]) = {At(s, i + 1)}
           /\ SocketOf(cur[s]) = {nsock[cur[s]]}
           /\ nsock[cur[s]] \in Sockets
<1>1. cur[s] \in Listed(s)
  BY PassPointers DEF HInv, PassPointersListed
<1> PICK i \in DOMAIN subs[s] : cur[s] = subs[s][i]
  BY <1>1, ListedFacts DEF HInv, TypeOK
<1>2. i \in Nat \ {0} /\ At(s, i) = cur[s]
  BY DEF At, HInv, TypeOK, Types
<1> QED
  BY <1>1, <1>2, ReadFacts, AtFacts DEF HInv

----------------------------------------------------------------------------
(* Each step on the memory is a step on the sequences, or none.            *)

\* The list as it is without the element found.
LEMMA UnchainRemoves ==
  ASSUME HInv, NEW t \in Threads, Unchain(t), NEW k \in Nat \ {0}, Place(t, k),
         NEW s \in Services, s = search[t].list, NEW n, n = search[t].elem
  PROVE  /\ k \in DOMAIN subs[s] /\ n = subs[s][k] /\ n \in Nodes
         /\ subs' = [subs EXCEPT ![s] = RemoveAt(@, k)]
         /\ nsock' = [nsock EXCEPT ![n] = NULL]
         /\ k \in Matches(s, search[t].fd)
         /\ RemoveClient(s, search[t].fd)
<1>1. search[t].found /\ n # NULL /\ n = At(s, k) /\ nsock[n] = search[t].fd
  BY DEF Unchain, Place
<1>2. k \in DOMAIN subs[s] /\ n = subs[s][k] /\ n \in Nodes
  BY <1>1, AtFacts DEF HInv, At
<1>3. subs' = [subs EXCEPT ![s] = RemoveFirst(@, n)] /\ nsock' = [nsock EXCEPT ![n] = NULL]
  BY DEF Unchain
<1>4. RemoveFirst(subs[s], n) = RemoveAt(subs[s], k)
  <2>1. subs[s] \in Seq(Nodes) /\ n \in ToSet(subs[s])
    BY <1>2 DEF HInv, TypeOK, Types, ToSet
  <2> PICK i \in DOMAIN subs[s] : subs[s][i] = n /\ RemoveFirst(subs[s], n) = RemoveAt(subs[s], i)
    BY <2>1, RemoveFirstIs
  <2>2. i = k
    BY <1>2 DEF HInv, TypeOK, NoSharing
  <2> QED
    BY <2>2
<1>5. subs' = [subs EXCEPT ![s] = RemoveAt(@, k)]
  BY <1>3, <1>4
<1>6. k \in Matches(s, search[t].fd) /\ \A j \in Matches(s, search[t].fd) : k <= j
  <2>1. \A j \in DOMAIN subs[s] : j \in Nat
    BY DEF HInv, TypeOK, Types
  <2> QED
    BY <1>1, <1>2, <2>1 DEF Matches, Place
<1> QED
  BY <1>2, <1>3, <1>5, <1>6 DEF RemoveClient

\* A search that ends without a match has passed the whole list.
LEMMA NoneMatches ==
  ASSUME HInv, NEW t \in Threads, NotFound(t), NEW s \in Services, s = search[t].list
  PROVE  /\ Matches(s, search[t].fd) = {}
         /\ RemoveClient(s, search[t].fd)
<1>1. Searching(t) /\ search[t].elem = NULL /\ UNCHANGED lists
  BY DEF NotFound
<1> PICK k \in Nat \ {0} : Place(t, k)
  BY <1>1, SearchFacts
<1>2. At(s, k) = NULL
  BY <1>1 DEF Place
<1>3. k \notin DOMAIN subs[s]
  BY <1>2, AtFacts DEF HInv
<1>4. \A i \in DOMAIN subs[s] : i < k
  BY <1>3 DEF HInv, TypeOK, Types
<1>5. Matches(s, search[t].fd) = {}
  BY <1>4 DEF Matches, Place
<1> QED
  BY <1>1, <1>5 DEF RemoveClient

\* The pointers of a search are elements of its list.
LEMMA SearchListed ==
  ASSUME HInv, NEW u \in Threads, Searching(u)
  PROVE  {search[u].prev, search[u].elem, search[u].after}
           \subseteq Listed(search[u].list) \cup {NULL}
<1> PICK k \in Nat \ {0} : Place(u, k)
  BY SearchFacts
<1>1. \A i : At(search[u].list, i) \in Listed(search[u].list) \cup {NULL}
  BY DEF At, Listed, ToSet
<1> QED
  BY <1>1 DEF Place

\* Nobody else points to the element that is freed: without the lock that is
\* assumed, under the lock it is so.
LEMMA OthersKeepOff ==
  ASSUME HInv, Careful, NEW t \in Threads, Unchain(t), NEW n, n = search[t].elem,
         NEW u \in Threads, u # t
  PROVE  /\ Searching(u) => n \notin {search[u].prev, search[u].elem, search[u].after}
         /\ u \in Services /\ n # NULL => n \notin {cur[u], nxt[u]}
<1>1. CASE Unlocked(t) \/ Unlocked(u)
  <2>1. ~Races
    BY <1>1 DEF Unlocked, HInv, AskedTo, Careful
  <2> QED
    BY <1>1, <2>1 DEF Unchain, Holds
<1>2. CASE ~Unlocked(t) /\ ~Unlocked(u)
  <2>1. Searching(t) /\ Role(t)
    BY SearchFacts DEF Unchain
  <2> PICK s \in Services : s = search[t].list
    BY <2>1, SearchFacts
  <2> PICK k \in Nat \ {0} : Place(t, k)
    BY <2>1, SearchFacts
  <2>2. n # NULL /\ n \in Listed(s) /\ \A v \in Services : v # s => n \notin Listed(v)
    <3>1. n # NULL /\ n = At(s, k)
      BY DEF Place, Unchain
    <3>2. n \in Listed(s) /\ k \in DOMAIN subs[s] /\ n = subs[s][k]
      BY <3>1 DEF At, Listed, ToSet
    <3> QED
      BY <3>1, <3>2, ListedFacts DEF HInv, TypeOK, NoSharing
  <2>3. \/ t = ServerThread /\ pc = "purge" /\ LockFree(s)
        \/ t \in Services /\ t = s /\ push[s] = "drop"
    BY <1>2, <2>1 DEF Role, Threads, Unlocked
  <2>4. Searching(u) => search[u].list \in Services /\ search[u].list # s
    <3> SUFFICES ASSUME Searching(u) PROVE search[u].list \in Services /\ search[u].list # s
      OBVIOUS
    <3>1. Role(u) /\ search[u].list \in Services
      BY SearchFacts
    <3>2. \/ u = ServerThread /\ pc = "purge" /\ LockFree(search[u].list)
          \/ u \in Services /\ search[u].list = u /\ push[u] = "drop"
      BY <1>2, <3>1 DEF Role, Threads, Unlocked
    <3> QED
      BY <2>3, <3>1, <3>2 DEF LockFree
  <2>5. Searching(u) => n \notin {search[u].prev, search[u].elem, search[u].after}
    BY <2>2, <2>4, SearchListed
  <2>6. u \in Services => n \notin {cur[u], nxt[u]}
    <3> SUFFICES ASSUME u \in Services PROVE n \notin {cur[u], nxt[u]}
      OBVIOUS
    <3>1. InPass(u) /\ push[u] \in {"idle", "entered", "visit", "write", "drop"}
      BY DEF HInv, PassInv, TypeOK, Types
    <3>2. CASE u = s
      BY <2>2, <2>3, <3>1, <3>2, ThreadAssumption DEF LockFree, InPass
    <3>3. CASE u # s
      <4>1. {cur[u], nxt[u]} \subseteq Listed(u) \cup {NULL}
        BY <3>1, PassPointers DEF HInv, PassPointersListed, InPass
      <4> QED
        BY <2>2, <3>3, <4>1
    <3> QED
      BY <3>2, <3>3
  <2> QED
    BY <2>5, <2>6
<1> QED
  BY <1>1, <1>2

\* No pass points to the element that is freed.
LEMMA PassSpared ==
  ASSUME HInv, Careful, NEW t \in Threads, Unchain(t), NEW s \in Services, s # t
  PROVE  \A n \in {cur[s], nxt[s]} \ {NULL} : n # search[t].elem /\ nsock'[n] = nsock[n] /\ nsock'[n] # NULL
<1> SUFFICES ASSUME NEW n \in {cur[s], nxt[s]} \ {NULL}
             PROVE  n # search[t].elem /\ nsock'[n] = nsock[n] /\ nsock'[n] # NULL
  OBVIOUS
<1>1. n # search[t].elem
  BY OthersKeepOff DEF Threads
<1>2. n \in Listed(s)
  <2>1. push[s] \in {"idle", "entered", "visit", "write", "drop"}
    BY DEF HInv, TypeOK, Types
  <2>2. CASE push[s] \in {"visit", "write", "drop"}
    BY <2>2, PassPointers DEF HInv, PassPointersListed
  <2>3. CASE push[s] \in {"idle", "entered"}
    BY <2>3 DEF HInv, PassInv, InPass
  <2> QED
    BY <2>1, <2>2, <2>3
<1>3. n \in Nodes /\ nsock[n] # NULL
  BY <1>2, ListedFacts DEF HInv, TypeOK, FreeIsBlank
<1>4. nsock' = [nsock EXCEPT ![search[t].elem] = NULL]
  BY DEF Unchain
<1> QED
  BY <1>1, <1>3, <1>4 DEF HInv, TypeOK, Types

\* What ends a search is the step on the sequence.
LEMMA RemoveRefines ==
  ASSUME HInv, Careful, NEW t \in Threads, NotFound(t) \/ Unchain(t)
  PROVE  Next
<1>1. Searching(t)
  BY DEF NotFound, Unchain
<1> PICK s \in Services : s = search[t].list
  BY <1>1, SearchFacts
<1> PICK fd : fd = search[t].fd
  OBVIOUS
<1>2. Role(t)
  BY <1>1, SearchFacts
<1>3. /\ RemoveClient(s, fd)
      /\ Unchain(t) => Matches(s, fd) # {}
      /\ NotFound(t) => Matches(s, fd) = {}
  <2>1. CASE NotFound(t)
    <3>1. ~Unchain(t)
      BY <2>1, <1>1, SearchFacts DEF NotFound, Unchain, Place
    <3> QED
      BY <2>1, <3>1, NoneMatches
  <2>2. CASE Unchain(t)
    <3> PICK k \in Nat \ {0} : Place(t, k)
      BY <1>1, SearchFacts
    <3> PICK n : n = search[t].elem
      OBVIOUS
    <3>1. ~NotFound(t)
      BY <2>2 DEF NotFound, Unchain, Place
    <3> QED
      BY <2>2, <3>1, UnchainRemoves
  <2> QED
    BY <2>1, <2>2
<1>4. CASE t = ServerThread /\ pc = "unlink"
  <2>1. s = service /\ fd = sock[client] /\ t \notin Services
    BY <1>2, <1>4, ThreadAssumption DEF Role
  <2>2. Unsubscribed(Subscribed(client, service))
    <3>1. Subscribed(client, service) <=> Matches(s, fd) # {}
      BY <2>1 DEF Subscribed
    <3>2. NotFound(t) => Unsubscribed(FALSE)
      BY <1>4, <2>1 DEF NotFound, Return, Purged
    <3>3. Unchain(t) => Unsubscribed(TRUE)
      BY <1>4, <2>1 DEF Unchain, Return, Purged
    <3> QED
      BY <1>3, <3>1, <3>2, <3>3 DEF Unsubscribed
  <2>3. \A n \in {cur[service], nxt[service]} \ {NULL} : nsock'[n] # NULL
    <3>1. CASE Unchain(t)
      BY <2>1, <3>1, PassSpared
    <3>2. CASE NotFound(t)
      <4>1. \A n \in {cur[s], nxt[s]} \ {NULL} : n \in Listed(s)
        <5>1. push[s] \in {"idle", "entered", "visit", "write", "drop"}
          BY DEF HInv, TypeOK, Types
        <5>2. CASE push[s] \in {"visit", "write", "drop"}
          BY <5>2, PassPointers DEF HInv, PassPointersListed
        <5>3. CASE push[s] \in {"idle", "entered"}
          BY <5>3 DEF HInv, PassInv, InPass
        <5> QED
          BY <5>1, <5>2, <5>3
      <4>2. \A n \in Listed(s) : nsock[n] # NULL
        BY ListedFacts DEF HInv, TypeOK, FreeIsBlank
      <4> QED
        BY <2>1, <3>2, <4>1, <4>2 DEF NotFound, lists
    <3> QED
      BY <3>1, <3>2
  <2>4. Unlink
    BY <1>3, <2>1, <2>2, <2>3 DEF Unlink
  <2> QED
    BY <2>4 DEF Next, ServerStep
<1>5. CASE t = ServerThread /\ pc = "purge"
  <2>1. s \in todo /\ LockFree(s) /\ fd = sock[client] /\ t \notin Services
    BY <1>2, <1>5, ThreadAssumption DEF Role
  <2>2. Purged(s)
    BY <1>5, <2>1 DEF NotFound, Unchain, Return, Unsubscribed
  <2>3. Purge(s)
    BY <1>3, <2>1, <2>2 DEF Purge
  <2> QED
    BY <2>3 DEF Next, ServerStep
<1>6. CASE t \in Services
  <2>1. s = t /\ fd = nsock[cur[t]] /\ t # ServerThread
    BY <1>2, <1>6, ThreadAssumption DEF Role
  <2>2. Dropped(t)
    BY <2>1 DEF NotFound, Unchain, Return
  <2>3. PushDrop(t)
    BY <1>3, <2>1, <2>2 DEF PushDrop
  <2> QED
    BY <1>6, <2>3 DEF Next, PushStep
<1> QED
  BY <1>2, <1>4, <1>5, <1>6 DEF Threads, Role

LEMMA PassRefines ==
  ASSUME HInv, NEW s \in Services, WalkStep(s)
  PROVE  [Next]_vars
<1>1. head[s] = At(s, 1)
  BY DEF HInv, ListsLinked
<1>2. CASE PassNobody(s) \/ PassCheck(s) \/ PassLock(s) \/ PassUnlock(s)
  <2>1. PushNobody(s) \/ PushCheck(s) \/ PushLock(s) \/ PushUnlock(s)
    BY <1>1, <1>2 DEF PassNobody, PassCheck, PassLock, PassUnlock, PushNobody, PushCheck, PushLock
  <2> QED
    BY <2>1 DEF Next, PushStep
<1>3. CASE PassNext(s)
  <2>1. push[s] = "visit" /\ cur[s] # NULL
    BY <1>3 DEF PassNext, Save
  <2> PICK i \in DOMAIN subs[s] : cur[s] = subs[s][i] /\ NextOf(cur[s]) = {At(s, i + 1)}
    BY <2>1, CurFacts
  <2>2. PushNext(s)
    BY <1>3 DEF PassNext, PushNext
  <2> QED
    BY <2>2 DEF Next, PushStep
<1>4. CASE PassWrite(s) \/ PassFails(s)
  <2>1. push[s] = "write" /\ cur[s] # NULL
    BY <1>4 DEF PassWrite, Written, PassFails, Fails
  <2>2. SocketOf(cur[s]) = {nsock[cur[s]]}
    BY <2>1, CurFacts
  <2>3. PushWrite(s) \/ PushFails(s)
    BY <1>4, <2>2 DEF PassWrite, PassFails, PushWrite, PushFails
  <2> QED
    BY <2>3 DEF Next, PushStep
<1>5. CASE SearchDrop(s)
  BY <1>5 DEF SearchDrop
<1> QED
  BY <1>2, <1>3, <1>4, <1>5 DEF WalkStep

LEMMA HeapRefines ==
  ASSUME HInv, Careful, [HeapNext]_<<vars, memory>>
  PROVE  [Next]_vars
<1>1. CASE Elsewhere
  BY <1>1 DEF Elsewhere, Next, ServerInput, ServerStep
<1>2. ASSUME NEW n \in Nodes, Link(n) PROVE Next
  BY <1>2 DEF Link, Next, ServerStep
<1>3. ASSUME NEW c \in Conns, NEW s \in Services, SearchUnsubscribe(c, s) PROVE Next
  BY <1>3 DEF SearchUnsubscribe, Next, ServerInput
<1>4. ASSUME NEW s \in Services, SearchPurge(s) PROVE UNCHANGED vars
  BY <1>4 DEF SearchPurge
<1>5. ASSUME NEW s \in Services, WalkStep(s) PROVE [Next]_vars
  BY <1>5, PassRefines
<1>6. ASSUME NEW t \in Threads, RemoveStep(t) PROVE [Next]_vars
  <2>1. CASE Advance(t) \/ Match(t)
    BY <2>1 DEF Advance, Match
  <2>2. CASE NotFound(t) \/ Unchain(t)
    BY <2>2, RemoveRefines
  <2> QED
    BY <1>6, <2>1, <2>2 DEF RemoveStep
<1>7. CASE UNCHANGED <<vars, memory>>
  BY <1>7
<1> QED
  BY <1>1, <1>2, <1>3, <1>4, <1>5, <1>6, <1>7 DEF HeapNext

----------------------------------------------------------------------------
(* The lists stay linked.                                                  *)

\* The pointers say what the sequences say.
Linked ==
  \A s \in Services :
    head[s] = At(s, 1) /\ \A i \in DOMAIN subs[s] : next[subs[s][i]] = At(s, i + 1)

LEMMA LinkedSame ==
  ASSUME Linked, UNCHANGED <<subs, head, next>>
  PROVE  Linked'
  BY DEF Linked, At

LEMMA LinkedNew ==
  ASSUME HInv, NEW n \in Nodes, Link(n)
  PROVE  Linked'
<1>1. service \in Services /\ nsock[n] = NULL
  BY DEF Link, AddClient, HInv, Busy
<1> PICK s \in Services : s = service
  BY <1>1
<1>2. /\ subs' = [subs EXCEPT ![s] = <<n>> \o @]
      /\ next' = [next EXCEPT ![n] = head[s]]
      /\ head' = [head EXCEPT ![s] = n]
  BY DEF Link, AddClient
<1>3. \A t \in Services : \A i \in DOMAIN subs[t] : subs[t][i] # n /\ subs[t][i] \in Nodes
  BY <1>1, ListedFacts DEF HInv, TypeOK, FreeIsBlank
<1>4. /\ next \in [Nodes -> Nodes \cup {NULL}] /\ head \in [Services -> Nodes \cup {NULL}]
      /\ Linked
  BY DEF HInv, ListsLinked, HeapTypes, Linked
<1>5. ASSUME NEW t \in Services, t # s
      PROVE  head'[t] = At(t, 1)' /\ \A i \in DOMAIN subs'[t] : next'[subs'[t][i]] = At(t, i + 1)'
  <2>1. subs'[t] = subs[t] /\ head'[t] = head[t]
    BY <1>2, <1>4, <1>5 DEF HInv, TypeOK, Types
  <2>2. \A i : At(t, i)' = At(t, i)
    BY <2>1 DEF At
  <2>3. \A i \in DOMAIN subs[t] : next'[subs[t][i]] = next[subs[t][i]]
    BY <1>2, <1>3, <1>4
  <2> QED
    BY <1>4, <2>1, <2>2, <2>3 DEF Linked
<1>6. subs[s] \in Seq(Nodes) /\ subs'[s] = <<n>> \o subs[s]
  BY <1>2 DEF HInv, TypeOK, Types
<1>7. /\ \A j \in DOMAIN subs'[s] : j \in Nat
      /\ subs'[s][1] = n /\ 1 \in DOMAIN subs'[s]
      /\ \A j \in DOMAIN subs[s] : j + 1 \in DOMAIN subs'[s] /\ subs'[s][j + 1] = subs[s][j]
      /\ \A j \in DOMAIN subs'[s] : j = 1 \/ j - 1 \in DOMAIN subs[s]
  BY <1>6, NewHeadFacts
<1>8. \A i \in Nat \ {0} : At(s, i + 1)' = At(s, i)
  <2> SUFFICES ASSUME NEW i \in Nat \ {0} PROVE At(s, i + 1)' = At(s, i)
    OBVIOUS
  <2>1. CASE i \in DOMAIN subs[s]
    BY <1>7, <2>1 DEF At
  <2>2. CASE i \notin DOMAIN subs[s]
    <3>1. i + 1 \notin DOMAIN subs'[s]
      BY <1>7, <2>2
    <3> QED
      BY <2>2, <3>1 DEF At
  <2> QED
    BY <2>1, <2>2
<1>9. head'[s] = At(s, 1)'
  BY <1>2, <1>4, <1>7 DEF At
<1>10. ASSUME NEW i \in DOMAIN subs'[s] PROVE next'[subs'[s][i]] = At(s, i + 1)'
  <2>1. CASE i = 1
    BY <1>2, <1>4, <1>7, <1>8, <2>1 DEF Linked
  <2>2. CASE i # 1
    <3>1. i - 1 \in DOMAIN subs[s] /\ i \in Nat \ {0} /\ subs'[s][i] = subs[s][i - 1]
      <4>1. i - 1 \in DOMAIN subs[s] /\ i \in Nat
        BY <1>7, <2>2
      <4>2. i - 1 \in Nat \ {0}
        BY <4>1, <1>6
      <4> QED
        BY <1>7, <4>1, <4>2
    <3>2. next'[subs[s][i - 1]] = next[subs[s][i - 1]]
      BY <1>2, <1>3, <1>4, <3>1
    <3>3. next[subs[s][i - 1]] = At(s, (i - 1) + 1) /\ (i - 1) + 1 = i
      BY <1>4, <3>1 DEF Linked
    <3> QED
      BY <1>8, <3>1, <3>2, <3>3
  <2> QED
    BY <2>1, <2>2
<1> QED
  BY <1>5, <1>9, <1>10 DEF Linked

LEMMA LinkedUnchain ==
  ASSUME HInv, Careful, NEW t \in Threads, Unchain(t)
  PROVE  Linked'
<1>1. Searching(t) /\ search[t].found
  BY DEF Unchain
<1> PICK s \in Services : s = search[t].list
  BY <1>1, SearchFacts
<1> PICK k \in Nat \ {0} : Place(t, k)
  BY <1>1, SearchFacts
<1> PICK n : n = search[t].elem
  OBVIOUS
<1> DEFINE prev == search[t].prev
           after == search[t].after
<1>2. /\ k \in DOMAIN subs[s] /\ n = subs[s][k] /\ n \in Nodes
      /\ subs' = [subs EXCEPT ![s] = RemoveAt(@, k)]
  BY UnchainRemoves
<1>3. /\ next \in [Nodes -> Nodes \cup {NULL}] /\ head \in [Services -> Nodes \cup {NULL}]
      /\ Linked
  BY DEF HInv, ListsLinked, HeapTypes, Linked
<1>4. prev = At(s, k - 1) /\ after = At(s, k + 1)
  BY <1>1 DEF Place
<1>5. Relink(s, prev, after)
  BY DEF Unchain
<1> HIDE DEF prev, after
<1>6. subs'[s] = RemoveAt(subs[s], k) /\ \A u \in Services : u # s => subs'[u] = subs[u]
  BY <1>2 DEF HInv, TypeOK, Types
<1>7. \A j \in Nat \ {0} : At(s, j)' = At(s, Before(k, j))
  BY <1>2, <1>6, AtRemoved DEF HInv, TypeOK
\* The places of the new list, and where their elements were.
<1>8. ASSUME NEW j \in DOMAIN subs'[s]
      PROVE  /\ j \in Nat \ {0} /\ Before(k, j) \in DOMAIN subs[s]
             /\ subs'[s][j] = subs[s][Before(k, j)]
  <2>1. subs[s] \in Seq(Nodes)
    BY DEF HInv, TypeOK, Types
  <2>2. /\ subs'[s] \in Seq(Nodes)
        /\ Before(k, j) \in DOMAIN subs[s] /\ subs'[s][j] = subs[s][Before(k, j)]
    BY <1>2, <1>6, <2>1, RemoveAtFacts
  <2>3. j \in Nat \ {0}
    BY ONLY <2>2, j \in DOMAIN subs'[s]
  <2> QED
    BY <2>2, <2>3
<1>9. CASE prev = NULL
  <2>1. k = 1
    <3>1. k # 1 => k - 1 \in Nat \ {0} /\ k - 1 \in DOMAIN subs[s]
      BY <1>2 DEF HInv, TypeOK, Types
    <3> QED
      BY <1>4, <1>9, <3>1, AtFacts DEF HInv
  <2>2. head' = [head EXCEPT ![s] = after] /\ next' = next
    BY <1>5, <1>9 DEF Relink
  <2>3. head'[s] = At(s, 1)'
    BY <1>3, <1>4, <1>7, <2>1, <2>2 DEF Before
  <2>4. ASSUME NEW j \in DOMAIN subs'[s] PROVE next'[subs'[s][j]] = At(s, j + 1)'
    <3>1. Before(k, j) = j + 1 /\ Before(k, j + 1) = (j + 1) + 1 /\ j + 1 \in Nat \ {0}
      BY <1>8, <2>1 DEF Before
    <3>2. next'[subs'[s][j]] = At(s, (j + 1) + 1)
      BY <1>3, <1>8, <2>2, <3>1 DEF Linked
    <3> QED
      BY <1>7, <3>1, <3>2
  <2>5. ASSUME NEW u \in Services, u # s
        PROVE  head'[u] = At(u, 1)' /\ \A j \in DOMAIN subs'[u] : next'[subs'[u][j]] = At(u, j + 1)'
    BY <1>3, <1>6, <2>2, <2>5 DEF Linked, At
  <2> QED
    BY <2>3, <2>4, <2>5 DEF Linked
<1>10. CASE prev # NULL
  <2>1. k - 1 \in DOMAIN subs[s] /\ k - 1 \in Nat \ {0} /\ prev = subs[s][k - 1] /\ prev \in Nodes
    <3>1. k - 1 \in DOMAIN subs[s] /\ prev = subs[s][k - 1]
      BY <1>4, <1>10 DEF At
    <3> QED
      BY <3>1, ListedFacts DEF HInv, TypeOK, Types
  <2>2. next' = [next EXCEPT ![prev] = after] /\ head' = head
    BY <1>5, <1>10 DEF Relink
  <2>3. head'[s] = At(s, 1)'
    BY <1>3, <1>7, <2>1, <2>2 DEF Before, Linked
  <2>4. ASSUME NEW j \in DOMAIN subs'[s] PROVE next'[subs'[s][j]] = At(s, j + 1)'
    <3> DEFINE i == Before(k, j)
    <3>1. /\ i \in DOMAIN subs[s] /\ subs'[s][j] = subs[s][i] /\ subs[s][i] \in Nodes
          /\ j \in Nat \ {0} /\ i = IF j < k THEN j ELSE j + 1
      BY <1>8, ListedFacts DEF Before, HInv, TypeOK
    <3> HIDE DEF i
    <3>2. At(s, j + 1)' = At(s, Before(k, j + 1))
      BY <1>7, <3>1
    <3>3. CASE j = k - 1
      <4>1. i = k - 1 /\ Before(k, j + 1) = k + 1
        BY <3>1, <3>3 DEF Before
      <4>2. next'[subs[s][i]] = after
        BY <1>3, <2>1, <2>2, <4>1
      <4> QED
        BY <1>4, <3>1, <3>2, <4>1, <4>2
    <3>4. CASE j # k - 1
      <4>1. i # k - 1 /\ Before(k, j + 1) = i + 1
        BY <2>1, <3>1, <3>4 DEF Before
      <4>2. subs[s][i] # prev
        BY <2>1, <3>1, <4>1 DEF HInv, TypeOK, NoSharing
      <4>3. next'[subs[s][i]] = next[subs[s][i]]
        BY <1>3, <2>2, <3>1, <4>2
      <4>4. next[subs[s][i]] = At(s, i + 1)
        BY <1>3, <3>1 DEF Linked
      <4> QED
        BY <3>1, <3>2, <4>1, <4>3, <4>4
    <3> QED
      BY <3>3, <3>4
  <2>5. ASSUME NEW u \in Services, u # s
        PROVE  head'[u] = At(u, 1)' /\ \A j \in DOMAIN subs'[u] : next'[subs'[u][j]] = At(u, j + 1)'
    <3>1. subs'[u] = subs[u] /\ head'[u] = head[u] /\ \A j : At(u, j)' = At(u, j)
      BY <1>6, <2>2, <2>5 DEF At
    <3>2. \A j \in DOMAIN subs[u] : subs[u][j] # prev /\ subs[u][j] \in Nodes
      BY <2>1, <2>5, ListedFacts DEF HInv, TypeOK, NoSharing
    <3>3. \A j \in DOMAIN subs[u] : next'[subs[u][j]] = next[subs[u][j]]
      BY <1>3, <2>2, <3>2
    <3> QED
      BY <1>3, <3>1, <3>3 DEF Linked
  <2> QED
    BY <2>3, <2>4, <2>5 DEF Linked
<1> QED
  BY <1>9, <1>10

----------------------------------------------------------------------------
(* Searches stay where they are.                                           *)

\* A search in a list that stays as it is.
LEMMA PlaceSame ==
  ASSUME NEW t \in Threads, NEW k, Place(t, k), search'[t] = search[t],
         subs'[search[t].list] = subs[search[t].list],
         \A n \in Listed(search[t].list) : nsock'[n] = nsock[n]
  PROVE  Place(t, k)'
<1> PICK r : r = search[t]
  OBVIOUS
<1>1. \A i : At(r.list, i)' = At(r.list, i)
  BY DEF At
<1>2. \A i \in DOMAIN subs[r.list] : nsock'[subs[r.list][i]] = nsock[subs[r.list][i]]
  BY DEF Listed, ToSet
<1>3. r.found => nsock'[r.elem] = nsock[r.elem]
  <2> SUFFICES ASSUME r.found PROVE nsock'[r.elem] = nsock[r.elem]
    OBVIOUS
  <2>1. r.elem # NULL /\ r.elem = At(r.list, k)
    BY DEF Place
  <2>2. k \in DOMAIN subs[r.list] /\ r.elem = subs[r.list][k]
    BY <2>1 DEF At
  <2> QED
    BY <1>2, <2>2
<1>4. /\ r.elem = At(r.list, k)' /\ r.prev = At(r.list, k - 1)'
      /\ r.found => r.after = At(r.list, k + 1)'
  BY <1>1 DEF Place
<1>5. \A i \in DOMAIN subs'[r.list] : i < k => nsock'[subs'[r.list][i]] # r.fd
  BY <1>2 DEF Place
<1> QED
  BY <1>3, <1>4, <1>5 DEF Place

\* A search at one place while another thread removes an element at another.
LEMMA PlaceKept ==
  ASSUME HInv, NEW u \in Threads, Searching(u), NEW k \in Nat \ {0}, Place(u, k),
         NEW m \in DOMAIN subs[search[u].list], search'[u] = search[u],
         NEW s \in Services, s = search[u].list, NEW n, n = subs[s][m],
         subs' = [subs EXCEPT ![s] = RemoveAt(@, m)],
         nsock' = [nsock EXCEPT ![n] = NULL],
         n \notin {search[u].prev, search[u].elem, search[u].after}
  PROVE  \E j \in Nat \ {0} : Place(u, j)'
<1> PICK r : r = search[u]
  OBVIOUS
<1>1. /\ subs'[s] = RemoveAt(subs[s], m) /\ n \in Nodes
      /\ \A x \in Nodes : x # n => nsock'[x] = nsock[x]
  BY ListedFacts DEF HInv, TypeOK, Types
<1>2. r.elem = At(s, k) /\ r.prev = At(s, k - 1) /\ At(s, m) = n /\ m \in Nat \ {0}
  BY DEF Place, At, HInv, TypeOK, Types
<1>3. k # m /\ k - 1 # m /\ (r.found => k + 1 # m)
  BY <1>2 DEF Place
<1> DEFINE j == After(m, k)
<1>4. /\ j \in Nat \ {0} /\ At(s, j)' = At(s, k)
      /\ k + 1 # m => At(s, j + 1)' = At(s, k + 1)
  BY <1>1, <1>3, AtStays DEF HInv, TypeOK
<1>5. At(s, j - 1)' = At(s, k - 1)
  <2>1. CASE k = 1
    <3>1. j = 1
      BY <1>2, <1>3, <2>1 DEF After
    <3>2. 0 \notin DOMAIN subs[s] /\ 0 \notin DOMAIN subs'[s]
      <4>1. subs[s] \in Seq(Nodes) /\ subs'[s] \in Seq(Nodes)
        BY <1>1, RemoveAtFacts DEF HInv, TypeOK, Types
      <4> QED
        BY ONLY <4>1
    <3> QED
      BY <2>1, <3>1, <3>2 DEF At
  <2>2. CASE k # 1
    <3>1. k - 1 \in Nat \ {0} /\ After(m, k - 1) = j - 1
      BY <1>2, <1>3, <2>2 DEF After
    <3>2. At(s, After(m, k - 1))' = At(s, k - 1)
      BY <1>1, <1>3, <3>1, AtStays DEF HInv, TypeOK
    <3> QED
      BY <3>1, <3>2
  <2> QED
    BY <2>1, <2>2
<1>6. ASSUME NEW i \in DOMAIN subs'[s], i < j
      PROVE  nsock'[subs'[s][i]] # r.fd
  <2>1. /\ i \in Nat /\ Before(m, i) \in DOMAIN subs[s]
        /\ subs'[s][i] = subs[s][Before(m, i)]
    <3>1. subs[s] \in Seq(Nodes)
      BY DEF HInv, TypeOK, Types
    <3>2. /\ subs'[s] \in Seq(Nodes)
          /\ Before(m, i) \in DOMAIN subs[s] /\ subs'[s][i] = subs[s][Before(m, i)]
      BY <1>1, <3>1, RemoveAtFacts
    <3>3. i \in Nat
      BY ONLY <3>2, i \in DOMAIN subs'[s]
    <3> QED
      BY <3>2, <3>3
  <2>2. Before(m, i) < k /\ Before(m, i) # m
    BY <1>2, <1>3, <1>6, <2>1 DEF Before, After
  <2>3. subs[s][Before(m, i)] # n /\ subs[s][Before(m, i)] \in Nodes
    BY <2>1, <2>2, ListedFacts DEF HInv, TypeOK, NoSharing
  <2>4. nsock[subs[s][Before(m, i)]] # r.fd
    BY <2>1, <2>2 DEF Place
  <2> QED
    BY <1>1, <2>1, <2>3, <2>4
<1>7. r.found => nsock'[r.elem] = nsock[r.elem]
  <2> SUFFICES ASSUME r.found PROVE nsock'[r.elem] = nsock[r.elem]
    OBVIOUS
  <2>1. r.elem # NULL
    BY DEF Place
  <2>2. r.elem \in Nodes /\ r.elem # n
    BY <1>2, <2>1, AtFacts DEF HInv
  <2> QED
    BY <1>1, <2>2
<1> HIDE DEF j
<1>8. /\ r.elem = At(s, j)' /\ r.prev = At(s, j - 1)'
      /\ r.found => r.after = At(s, j + 1)'
  BY <1>2, <1>3, <1>4, <1>5 DEF Place
<1>9. Place(u, j)'
  BY <1>4, <1>6, <1>7, <1>8 DEF Place
<1> QED
  BY <1>4, <1>9

\* What `search` holds for each thread.
Searches ==
  [list : Services \cup {NULL}, fd : Sockets \cup {NULL}, found : BOOLEAN,
   prev : Nodes \cup {NULL}, elem : Nodes \cup {NULL}, after : Nodes \cup {NULL}]

\* A search begins at the head.
LEMMA PlaceBegin ==
  ASSUME HInv, NEW t \in Threads, NEW s \in Services, NEW fd \in Sockets, Begin(t, s, fd),
         UNCHANGED lists
  PROVE  /\ Place(t, 1)' /\ search'[t].list = s /\ search'[t].fd = fd
         /\ search' \in [Threads -> Searches]
         /\ \A u \in Threads : u # t => search'[u] = search[u]
<1> DEFINE r == [NoSearch EXCEPT !.list = s, !.fd = fd, !.elem = head[s]]
<1>1. search' = [search EXCEPT ![t] = r]
  BY DEF Begin
<1>2. /\ search \in [Threads -> Searches]
      /\ head[s] \in Nodes \cup {NULL} /\ head[s] = At(s, 1)
  BY DEF HInv, ListsLinked, HeapTypes, Searches
<1>3. /\ r.list = s /\ r.fd = fd /\ r.prev = NULL /\ r.elem = head[s]
      /\ r.found = FALSE /\ r.after = NULL
      /\ r \in Searches
  BY <1>2 DEF NoSearch, Searches
<1> HIDE DEF r
<1>4. search'[t] = r /\ \A u \in Threads : u # t => search'[u] = search[u]
  BY <1>1, <1>2
<1>5. /\ At(s, 1)' = At(s, 1) /\ At(s, 0)' = NULL
      /\ \A i \in DOMAIN subs'[s] : ~(i < 1)
  <2>1. subs'[s] = subs[s] /\ subs[s] \in Seq(Nodes)
    BY DEF lists, HInv, TypeOK, Types
  <2>2. 0 \notin DOMAIN subs[s] /\ \A i \in DOMAIN subs[s] : ~(i < 1)
    BY ONLY <2>1
  <2> QED
    BY <2>1, <2>2 DEF At
<1>6. Place(t, 1)'
  BY <1>2, <1>3, <1>4, <1>5 DEF Place
<1> QED
  BY <1>1, <1>2, <1>3, <1>4, <1>6

----------------------------------------------------------------------------
(* The invariant of the memory.                                            *)

HeapInv == HeapTypes /\ Linked /\ SearchInv

LEMMA HeapInvIs == HInv <=> AskedTo /\ TypeOK /\ Busy /\ PassInv /\ HeapInv
  BY DEF HInv, HeapInv, ListsLinked, Linked

\* Steps that leave lists and memory alone.
LEMMA HeapSame ==
  ASSUME HInv, UNCHANGED <<lists, memory>>, \A t \in Threads : Searching(t) => Role(t)'
  PROVE  HeapInv'
<1>1. HeapTypes' /\ Linked'
  BY HeapInvIs, LinkedSame DEF HeapInv, HeapTypes, memory, lists
<1>2. ASSUME NEW t \in Threads, Searching(t)' PROVE Role(t)' /\ \E k : Place(t, k)'
  <2>1. Searching(t) /\ search'[t] = search[t] /\ UNCHANGED lists
    BY <1>2 DEF Searching, memory
  <2> PICK k \in Nat \ {0} : Place(t, k)
    BY <2>1, SearchFacts
  <2>2. Place(t, k)'
    BY <2>1, PlaceSame DEF lists
  <2> QED
    BY <2>1, <2>2
<1>3. SearchInv'
  BY <1>2 DEF SearchInv
<1> QED
  BY <1>1, <1>3 DEF HeapInv

LEMMA ElsewhereKeeps ==
  ASSUME HInv, Elsewhere
  PROVE  HeapInv'
<1>1. UNCHANGED <<lists, memory, pushers>>
  BY DEF Elsewhere, Accept, OtherRequest, HalfLine, Disconnect, PeerStep, Stall, Drain, Leave,
         Subscribe, LineEnds, ReplyWritten, ReplyFailed, Close
<1>2. ASSUME NEW t \in Threads, Searching(t) PROVE Role(t)'
  <2>1. Role(t) /\ search' = search /\ UNCHANGED <<push, cur, nsock>>
    BY <1>1, <1>2, SearchFacts DEF memory, pushers, lists
  <2>2. CASE t = ServerThread
    <3>1. pc \in {"unlink", "purge"} /\ (pc = "purge" => todo # {})
      BY <2>1, <2>2 DEF Role
    <3>2. UNCHANGED <<sock, server>>
      BY <3>1
      DEF Elsewhere, Accept, OtherRequest, HalfLine, Disconnect, PeerStep, Stall, Drain, Leave,
          Subscribe, LineEnds, ReplyWritten, ReplyFailed, Close
    <3> QED
      BY <2>1, <2>2, <3>2, ThreadAssumption DEF Role, LockFree, server
  <2>3. CASE t # ServerThread
    BY <2>1, <2>3 DEF Role
  <2> QED
    BY <2>2, <2>3
<1> QED
  BY <1>1, <1>2, HeapSame

LEMMA LinkKeeps ==
  ASSUME HInv, NEW n \in Nodes, Link(n)
  PROVE  HeapInv'
<1>1. /\ pc = "add" /\ LockFree(service) /\ service \in Services /\ nsock[n] = NULL
      /\ search' = search /\ UNCHANGED pushers
      /\ sock[client] \in Sockets
  BY DEF Link, AddClient, HInv, Busy
<1> PICK s \in Services : s = service
  BY <1>1
<1>2. HeapTypes'
  BY <1>1 DEF Link, HInv, ListsLinked, HeapTypes
<1>3. /\ \A t \in Services : t # s => subs'[t] = subs[t]
      /\ \A m \in Nodes : m # n => nsock'[m] = nsock[m]
  BY DEF Link, AddClient, HInv, TypeOK, Types
<1>4. \A t \in Services : \A m \in Listed(t) : m \in Nodes /\ m # n
  BY <1>1, ListedFacts DEF HInv, TypeOK, FreeIsBlank
<1>5. ASSUME NEW t \in Threads, Searching(t)' PROVE Role(t)' /\ \E k : Place(t, k)'
  <2>1. Searching(t)
    BY <1>1, <1>5 DEF Searching
  <2>2. search[t].list \in Services /\ Role(t)
    BY <2>1, SearchFacts
  <2>3. t \in Services /\ t # ServerThread /\ search[t].list = t /\ push[t] = "drop"
    BY <1>1, <2>2, ThreadAssumption DEF Role, Threads
  <2>4. t # s
    BY <1>1, <2>3 DEF LockFree
  <2> PICK k \in Nat \ {0} : Place(t, k)
    BY <2>1, SearchFacts
  <2>5. Place(t, k)'
    BY <1>1, <1>3, <1>4, <2>3, <2>4, PlaceSame
  <2>6. cur[t] \in Listed(t)
    BY <2>3, ListedFacts DEF HInv, PassInv, InPass, TypeOK
  <2>7. Role(t)'
    BY <1>1, <1>3, <1>4, <2>2, <2>3, <2>6 DEF Role, pushers
  <2> QED
    BY <2>5, <2>7
<1> QED
  BY <1>2, <1>5, LinkedNew DEF HeapInv, SearchInv

\* A search of t begins: the others go on.
LEMMA BeginKeeps ==
  ASSUME HInv, NEW t \in Threads, NEW s \in Services, NEW fd \in Sockets, Begin(t, s, fd),
         UNCHANGED <<lists, head, next>>,
         Role(t)', \A u \in Threads : u # t /\ Searching(u) => Role(u)'
  PROVE  HeapInv'
<1>1. /\ Place(t, 1)' /\ search' \in [Threads -> Searches]
      /\ \A u \in Threads : u # t => search'[u] = search[u]
  BY PlaceBegin
<1>2. HeapTypes'
  BY <1>1 DEF HInv, ListsLinked, HeapTypes, Searches
<1>3. Linked'
  BY LinkedSame, HeapInvIs DEF HeapInv, lists
<1>4. ASSUME NEW u \in Threads, u # t, Searching(u)' PROVE Role(u)' /\ \E k : Place(u, k)'
  <2>1. Searching(u) /\ search'[u] = search[u]
    BY <1>1, <1>4 DEF Searching
  <2> PICK k \in Nat \ {0} : Place(u, k)
    BY <2>1, SearchFacts
  <2>2. Place(u, k)'
    BY <2>1, PlaceSame DEF lists
  <2> QED
    BY <1>4, <2>1, <2>2
<1>5. SearchInv'
  BY <1>1, <1>4 DEF SearchInv
<1> QED
  BY <1>2, <1>3, <1>5 DEF HeapInv

LEMMA UnsubscribeKeeps ==
  ASSUME HInv, NEW c \in Conns, NEW s \in Services, SearchUnsubscribe(c, s)
  PROVE  HeapInv'
<1>1. /\ Begin(ServerThread, s, sock[c]) /\ UNCHANGED <<lists, head, next, pushers, sock>>
      /\ pc' = "unlink" /\ client' = c /\ service' = s /\ sock[c] # NULL
  BY DEF SearchUnsubscribe, Unsubscribe
<1> PICK fd \in Sockets : fd = sock[c]
  BY <1>1 DEF HInv, TypeOK, Types
<1>2. search'[ServerThread].list = s /\ search'[ServerThread].fd = fd
      /\ \A u \in Threads : u # ServerThread => search'[u] = search[u]
  BY <1>1, PlaceBegin DEF Threads
<1>3. Role(ServerThread)'
  BY <1>1, <1>2, ThreadAssumption DEF Role
<1>4. ASSUME NEW u \in Threads, u # ServerThread, Searching(u) PROVE Role(u)'
  BY <1>1, <1>2, <1>4, SearchFacts DEF Role, pushers, lists
<1> QED
  BY <1>1, <1>3, <1>4, BeginKeeps DEF Threads

LEMMA PurgeKeeps ==
  ASSUME HInv, NEW s \in Services, SearchPurge(s)
  PROVE  HeapInv'
<1>1. /\ Begin(ServerThread, s, sock[client]) /\ UNCHANGED <<vars, head, next>>
      /\ pc = "purge" /\ s \in todo /\ LockFree(s)
  BY DEF SearchPurge
<1> PICK fd \in Sockets : fd = sock[client]
  BY <1>1 DEF HInv, Busy
<1>2. search'[ServerThread].list = s /\ search'[ServerThread].fd = fd
      /\ \A u \in Threads : u # ServerThread => search'[u] = search[u]
  BY <1>1, PlaceBegin DEF Threads, vars
<1>3. Role(ServerThread)'
  BY <1>1, <1>2, ThreadAssumption DEF Role, LockFree, vars, server, pushers
<1>4. ASSUME NEW u \in Threads, u # ServerThread, Searching(u) PROVE Role(u)'
  BY <1>1, <1>2, <1>4, SearchFacts DEF Role, vars, pushers, lists
<1> QED
  BY <1>1, <1>3, <1>4, BeginKeeps DEF Threads, vars

LEMMA DropKeeps ==
  ASSUME HInv, NEW s \in Services, SearchDrop(s)
  PROVE  HeapInv'
<1>1. push[s] = "drop" /\ UNCHANGED <<vars, head, next>>
  BY DEF SearchDrop
<1>2. cur[s] # NULL
  BY <1>1, ListedFacts, NullAssumption DEF HInv, PassInv, InPass, TypeOK
<1> PICK fd \in Sockets : SocketOf(cur[s]) = {fd} /\ fd = nsock[cur[s]]
  BY <1>1, <1>2, CurFacts
<1>3. Begin(s, s, fd) /\ s \in Threads
  BY DEF SearchDrop, Threads
<1>4. search'[s].list = s /\ search'[s].fd = fd
      /\ \A u \in Threads : u # s => search'[u] = search[u]
  BY <1>1, <1>3, PlaceBegin DEF vars
<1>5. Role(s)'
  BY <1>1, <1>4, ThreadAssumption DEF Role, vars, pushers, lists
<1>6. ASSUME NEW u \in Threads, u # s, Searching(u) PROVE Role(u)'
  <2>1. Role(u) /\ search'[u] = search[u]
    BY <1>4, <1>6, SearchFacts
  <2> QED
    BY <1>1, <2>1 DEF Role, LockFree, vars, pushers, lists, server
<1> QED
  BY <1>1, <1>3, <1>5, <1>6, BeginKeeps DEF vars

LEMMA PassKeeps ==
  ASSUME HInv, NEW s \in Services, WalkStep(s), ~SearchDrop(s)
  PROVE  HeapInv'
<1>1. /\ UNCHANGED <<sock, lists, server, memory>>
      /\ \A t \in Services : t # s => push'[t] = push[t] /\ cur'[t] = cur[t]
      /\ push[s] # "drop" \/ UNCHANGED <<push, cur>>
      /\ LockFree(s) => LockFree(s)' \/ ~ServerLocks(s)
  BY DEF WalkStep, PassNobody, Nobody, PassCheck, Somebody, PassLock, Locked, PassNext, Save,
         PassWrite, Written, GoesOn, PassFails, Fails, PassUnlock, PushUnlock, vars, pushers,
         LockFree, HInv, TypeOK, Types
<1>2. ASSUME NEW t \in Threads, Searching(t) PROVE Role(t)'
  <2>1. Role(t) /\ search' = search /\ UNCHANGED <<sock, nsock, server>>
    BY <1>1, <1>2, SearchFacts DEF memory, lists
  <2>2. CASE t = ServerThread
    <3>1. search[t].fd = sock[client] /\ t \notin Services
      BY <2>1, <2>2, ThreadAssumption DEF Role
    <3>2. CASE pc = "unlink"
      BY <2>1, <2>2, <3>1, <3>2 DEF Role, server
    <3>3. CASE pc = "purge"
      <4>1. LockFree(search[t].list) /\ search[t].list \in Services
        BY <1>2, <2>1, <2>2, <3>3, SearchFacts DEF Role
      <4>2. LockFree(search[t].list)'
        <5>1. CASE search[t].list = s
          <6>1. ServerLocks(s)
            BY <2>2, <3>3, <5>1 DEF ServerLocks
          <6>2. LockFree(s)'
            BY <1>1, <4>1, <5>1, <6>1
          <6> QED
            BY <2>1, <5>1, <6>2 DEF LockFree
        <5>2. CASE search[t].list # s
          BY <1>1, <2>1, <4>1, <5>2 DEF LockFree
        <5> QED
          BY <5>1, <5>2
      <4> QED
        BY <2>1, <2>2, <3>1, <3>3, <4>2 DEF Role, server
    <3> QED
      BY <2>1, <2>2, <3>2, <3>3 DEF Role
  <2>3. CASE t # ServerThread
    <3>1. t \in Services /\ push[t] = "drop"
      BY <2>1, <2>3 DEF Role, Threads
    <3>2. push'[t] = push[t] /\ cur'[t] = cur[t]
      BY <1>1, <3>1
    <3> QED
      BY <2>1, <2>3, <3>2 DEF Role
  <2> QED
    BY <2>2, <2>3
<1> QED
  BY <1>1, <1>2, HeapSame

\* A search goes on to another place.
LEMMA SearchMoves ==
  ASSUME HInv, NEW t \in Threads, Searching(t), UNCHANGED <<vars, head, next>>,
         search' \in [Threads -> Searches],
         \A u \in Threads : u # t => search'[u] = search[u],
         search'[t].list = search[t].list, search'[t].fd = search[t].fd,
         \E k \in Nat \ {0} : Place(t, k)'
  PROVE  HeapInv'
<1>1. UNCHANGED <<sock, lists, server, pushers>>
  BY DEF vars
<1>2. HeapTypes'
  BY DEF HInv, ListsLinked, HeapTypes, Searches
<1>3. Linked'
  BY <1>1, LinkedSame, HeapInvIs DEF HeapInv, lists
<1>4. ASSUME NEW u \in Threads, Searching(u)' PROVE Role(u)' /\ \E k : Place(u, k)'
  <2>1. Searching(u) /\ search'[u].list = search[u].list /\ search'[u].fd = search[u].fd
    BY <1>4 DEF Searching
  <2>2. Role(u)'
    BY <1>1, <2>1, SearchFacts DEF Role, LockFree, lists, server, pushers
  <2>3. CASE u # t
    <3> PICK k \in Nat \ {0} : Place(u, k)
      BY <2>1, SearchFacts
    <3>1. Place(u, k)'
      BY <1>1, <2>3, PlaceSame DEF lists
    <3> QED
      BY <2>2, <3>1
  <2> QED
    BY <2>2, <2>3
<1>5. SearchInv'
  BY <1>4 DEF SearchInv
<1> QED
  BY <1>2, <1>3, <1>5 DEF HeapInv

LEMMA AdvanceKeeps ==
  ASSUME HInv, NEW t \in Threads, Advance(t) \/ Match(t)
  PROVE  HeapInv'
<1>1. /\ Searching(t) /\ search[t].elem # NULL /\ ~search[t].found
      /\ UNCHANGED <<vars, head, next>>
  BY DEF Advance, Match
<1> PICK s \in Services : s = search[t].list
  BY <1>1, SearchFacts
<1> PICK k \in Nat \ {0} : Place(t, k)
  BY <1>1, SearchFacts
<1>2. /\ search[t].elem = At(s, k) /\ At(s, k) # NULL
      /\ \A i \in DOMAIN subs[s] : i < k => nsock[subs[s][i]] # search[t].fd
  BY <1>1 DEF Place
<1>3. /\ NextOf(search[t].elem) = {At(s, k + 1)}
      /\ SocketOf(search[t].elem) = {nsock[search[t].elem]}
      /\ search[t].elem \in Nodes
  BY <1>2, ReadFacts
<1>4. k + 1 \in Nat \ {0} /\ (k + 1) - 1 = k /\ At(s, k + 1) \in Nodes \cup {NULL}
  BY AtFacts DEF HInv
<1>5. search \in [Threads -> Searches]
  BY DEF HInv, ListsLinked, HeapTypes, Searches
<1>6. /\ \A i : At(s, i)' = At(s, i)
      /\ nsock' = nsock /\ subs' = subs
  BY <1>1 DEF At, vars, lists
<1>7. CASE Advance(t)
  <2>1. search' = [search EXCEPT ![t].prev = search[t].elem, ![t].elem = At(s, k + 1)]
    BY <1>3, <1>7 DEF Advance
  <2>2. /\ search' \in [Threads -> Searches]
        /\ \A u \in Threads : u # t => search'[u] = search[u]
        /\ search'[t].list = s /\ search'[t].fd = search[t].fd
        /\ search'[t].prev = At(s, k) /\ search'[t].elem = At(s, k + 1)
        /\ search'[t].found = FALSE /\ search'[t].after = search[t].after
    <3>1. t \in Threads /\ search[t] \in Searches /\ search[t].elem \in Nodes \cup {NULL}
      BY <1>5 DEF Searches
    <3>2. [search[t] EXCEPT !.prev = search[t].elem, !.elem = At(s, k + 1)] \in Searches
      BY <1>4, <3>1 DEF Searches
    <3>3. search' = [search EXCEPT ![t] =
                       [search[t] EXCEPT !.prev = search[t].elem, !.elem = At(s, k + 1)]]
      BY <2>1, <1>5, <3>1 DEF Searches
    <3>4. /\ search' \in [Threads -> Searches]
          /\ \A u \in Threads : u # t => search'[u] = search[u]
          /\ search'[t] = [search[t] EXCEPT !.prev = search[t].elem, !.elem = At(s, k + 1)]
      BY <1>5, <3>1, <3>2, <3>3
    <3>5. search[t].elem = At(s, k) /\ search[t].found = FALSE /\ search[t].list = s
      BY <1>1, <1>2, <1>3, <1>7, <3>1 DEF Advance, Searches
    <3> QED
      BY <3>1, <3>4, <3>5 DEF Searches
  <2>3. nsock[search[t].elem] # search[t].fd
    BY <1>3, <1>7 DEF Advance
  <2>4. \A i \in DOMAIN subs[s] : i < k + 1 => nsock[subs[s][i]] # search[t].fd
    <3>1. \A i \in DOMAIN subs[s] : i \in Nat /\ (i < k + 1 => i < k \/ i = k)
      BY DEF HInv, TypeOK, Types
    <3>2. k \in DOMAIN subs[s] /\ subs[s][k] = search[t].elem
      BY <1>2 DEF At
    <3> QED
      BY <1>2, <2>3, <3>1, <3>2
  <2>5. search[t].after = NULL
    BY <1>1 DEF Place
  <2>6. Place(t, k + 1)'
    BY <1>4, <1>6, <2>2, <2>4, <2>5 DEF Place
  <2> QED
    BY <1>1, <1>4, <2>2, <2>6, SearchMoves
<1>8. CASE Match(t)
  <2>1. search' = [search EXCEPT ![t].found = TRUE, ![t].after = At(s, k + 1)]
    BY <1>3, <1>8 DEF Match
  <2>2. /\ search' \in [Threads -> Searches]
        /\ \A u \in Threads : u # t => search'[u] = search[u]
        /\ search'[t].list = s /\ search'[t].fd = search[t].fd
        /\ search'[t].prev = search[t].prev /\ search'[t].elem = search[t].elem
        /\ search'[t].found = TRUE /\ search'[t].after = At(s, k + 1)
    BY <1>4, <1>5, <2>1 DEF Searches
  <2>3. nsock[search[t].elem] = search[t].fd
    BY <1>3, <1>8 DEF Match
  <2>4. search[t].prev = At(s, k - 1)
    BY DEF Place
  <2>5. Place(t, k)'
    BY <1>1, <1>2, <1>6, <2>2, <2>3, <2>4 DEF Place
  <2> QED
    BY <1>1, <2>2, <2>5, SearchMoves
<1> QED
  BY <1>7, <1>8

\* A thread returns from its search: what that means for the others.
LEMMA RoleKept ==
  ASSUME HInv, NEW t \in Threads, Searching(t), NEW f, Return(t, f),
         NEW u \in Threads, u # t, Searching(u),
         u \in Services => nsock'[cur[u]] = nsock[cur[u]]
  PROVE  Role(u)'
<1>1. Role(u) /\ Role(t) /\ search'[u] = search[u]
      /\ search[u].list \in Services /\ search[t].list \in Services
  BY SearchFacts DEF Return, HInv, ListsLinked, HeapTypes
<1>2. CASE t = ServerThread
  <2>1. u \in Services /\ u # ServerThread /\ UNCHANGED pushers
    BY <1>2, ThreadAssumption DEF Threads, Return, Unsubscribed, Purged
  <2> QED
    BY <1>1, <2>1 DEF Role, pushers
<1>3. CASE t # ServerThread
  <2>1. /\ t \in Services /\ push[t] = "drop" /\ UNCHANGED <<sock, server>>
        /\ \A s \in Services : s # t => push'[s] = push[s] /\ cur'[s] = cur[s]
    BY <1>1, <1>3 DEF Threads, Role, Return, Dropped, GoesOn, HInv, TypeOK, Types
  <2>2. CASE u = ServerThread
    <3>1. u \notin Services
      BY <2>2, ThreadAssumption
    <3>2. CASE pc = "unlink"
      BY <1>1, <2>1, <2>2, <3>1, <3>2 DEF Role, server
    <3>3. CASE pc = "purge"
      <4>1. LockFree(search[u].list)
        BY <1>1, <2>2, <3>3 DEF Role
      <4>2. search[u].list # t
        BY <2>1, <4>1 DEF LockFree
      <4>3. LockFree(search[u].list)'
        BY <1>1, <2>1, <4>1, <4>2 DEF LockFree
      <4> QED
        BY <1>1, <2>1, <2>2, <3>1, <3>3, <4>3 DEF Role, server
    <3> QED
      BY <1>1, <2>2, <3>2, <3>3 DEF Role
  <2>3. CASE u # ServerThread
    BY <1>1, <2>1, <2>3 DEF Role, Threads
  <2> QED
    BY <2>2, <2>3
<1> QED
  BY <1>2, <1>3

LEMMA ReturnKeeps ==
  ASSUME HInv, NEW t \in Threads, Searching(t), NEW f, Return(t, f), Linked',
         head' \in [Services -> Nodes \cup {NULL}], next' \in [Nodes -> Nodes \cup {NULL}],
         \A u \in Threads : u # t /\ Searching(u) => Role(u)' /\ \E k : Place(u, k)'
  PROVE  HeapInv'
<1>1. search \in [Threads -> Searches] /\ NoSearch \in Searches
  BY DEF HInv, ListsLinked, HeapTypes, Searches, NoSearch
<1>2. search' = [search EXCEPT ![t] = NoSearch]
  BY DEF Return
<1>3. HeapTypes'
  BY <1>1, <1>2 DEF HeapTypes, Searches
<1>4. ~Searching(t)' /\ \A u \in Threads : u # t => (Searching(u)' <=> Searching(u))
  BY <1>1, <1>2 DEF Searching, NoSearch
<1> QED
  BY <1>3, <1>4 DEF HeapInv, SearchInv

LEMMA NotFoundKeeps ==
  ASSUME HInv, NEW t \in Threads, NotFound(t)
  PROVE  HeapInv'
<1>1. Searching(t) /\ Return(t, FALSE) /\ UNCHANGED <<lists, head, next>>
  BY DEF NotFound
<1>2. Linked'
  BY <1>1, LinkedSame, HeapInvIs DEF HeapInv, lists
<1>3. head' \in [Services -> Nodes \cup {NULL}] /\ next' \in [Nodes -> Nodes \cup {NULL}]
  BY <1>1 DEF HInv, ListsLinked, HeapTypes
<1>4. ASSUME NEW u \in Threads, u # t, Searching(u)
      PROVE  Role(u)' /\ \E k : Place(u, k)'
  <2>1. Role(u)'
    BY <1>1, <1>4, RoleKept DEF lists
  <2> PICK k \in Nat \ {0} : Place(u, k)
    BY <1>4, SearchFacts
  <2>2. search'[u] = search[u]
    BY <1>1, <1>4 DEF Return, HInv, ListsLinked, HeapTypes
  <2>3. Place(u, k)'
    BY <1>1, <2>2, PlaceSame DEF lists
  <2> QED
    BY <2>1, <2>3
<1> QED
  BY <1>1, <1>2, <1>3, <1>4, ReturnKeeps

LEMMA UnchainKeeps ==
  ASSUME HInv, Careful, NEW t \in Threads, Unchain(t)
  PROVE  HeapInv'
<1>1. Searching(t) /\ Return(t, TRUE) /\ search[t].found
  BY DEF Unchain
<1> PICK s \in Services : s = search[t].list
  BY <1>1, SearchFacts
<1> PICK k \in Nat \ {0} : Place(t, k)
  BY <1>1, SearchFacts
<1> PICK n : n = search[t].elem
  OBVIOUS
<1>2. /\ k \in DOMAIN subs[s] /\ n = subs[s][k] /\ n \in Nodes
      /\ subs' = [subs EXCEPT ![s] = RemoveAt(@, k)]
      /\ nsock' = [nsock EXCEPT ![n] = NULL]
  BY UnchainRemoves
<1>3. Linked'
  BY LinkedUnchain
<1>4. head' \in [Services -> Nodes \cup {NULL}] /\ next' \in [Nodes -> Nodes \cup {NULL}]
  <2>1. search[t].after \in Nodes \cup {NULL}
    BY DEF HInv, ListsLinked, HeapTypes
  <2> QED
    BY <2>1 DEF Unchain, Relink, HInv, ListsLinked, HeapTypes
<1>5. ASSUME NEW u \in Threads, u # t, Searching(u)
      PROVE  Role(u)' /\ \E j : Place(u, j)'
  <2>1. Role(u)'
    <3>1. u \in Services => nsock'[cur[u]] = nsock[cur[u]]
      <4> SUFFICES ASSUME u \in Services PROVE nsock'[cur[u]] = nsock[cur[u]]
        OBVIOUS
      <4>1. push[u] = "drop"
        BY <1>5, SearchFacts DEF Role
      <4>2. cur[u] # NULL
        BY <4>1, ListedFacts, NullAssumption DEF HInv, PassInv, InPass, TypeOK
      <4> QED
        BY <1>5, <4>2, PassSpared
    <3> QED
      BY <1>1, <1>5, <3>1, RoleKept
  <2> PICK j \in Nat \ {0} : Place(u, j)
    BY <1>5, SearchFacts
  <2>2. search'[u] = search[u]
    BY <1>1, <1>5 DEF Return, HInv, ListsLinked, HeapTypes
  <2>3. CASE search[u].list = s
    <3>1. n \notin {search[u].prev, search[u].elem, search[u].after}
      BY <1>5, OthersKeepOff
    <3>2. \E i \in Nat \ {0} : Place(u, i)'
      BY <1>2, <1>5, <2>2, <2>3, <3>1, PlaceKept
    <3> QED
      BY <2>1, <3>2
  <2>4. CASE search[u].list # s
    <3> PICK r \in Services : r = search[u].list
      BY <1>5, SearchFacts
    <3>1. subs'[r] = subs[r]
      BY <1>2, <2>4 DEF HInv, TypeOK, Types
    <3>2. \A m \in Listed(r) : nsock'[m] = nsock[m]
      <4>1. \A m \in Listed(r) : m \in Nodes /\ m # n
        BY <1>2, <2>4, ListedFacts DEF HInv, TypeOK, NoSharing
      <4> QED
        BY <1>2, <4>1 DEF HInv, TypeOK, Types
    <3>3. Place(u, j)'
      BY <2>2, <3>1, <3>2, PlaceSame
    <3> QED
      BY <2>1, <3>3
  <2> QED
    BY <2>3, <2>4
<1> QED
  BY <1>1, <1>3, <1>4, <1>5, ReturnKeeps

----------------------------------------------------------------------------
(* The theorems.                                                           *)

\* Only a request that is sent is searched for.
LEMMA AskedStep ==
  ASSUME AskedTo, [Next]_vars
  PROVE  AskedTo'
<1>1. ASSUME NEW c \in Conns, ServerInput(c) \/ PeerStep(c) PROVE AskedTo'
  BY <1>1 DEF AskedTo, ServerInput, PeerStep, Accept, Subscribe, Unsubscribe, OtherRequest,
     HalfLine, Disconnect, Stall, Drain, Leave, server
<1>2. CASE ServerStep \/ LineEnds
  BY <1>2 DEF AskedTo, ServerStep, AddClient, Unlink, Unsubscribed, ReplyWritten, ReplyFailed,
     Purge, Purged, Close, LineEnds, Loop
<1>3. ASSUME NEW s \in Services, PushStep(s) PROVE AskedTo'
  BY <1>3 DEF AskedTo, PushStep, PushNobody, Nobody, PushCheck, Somebody, PushLock, Locked,
     PushNext, Save, PushWrite, Written, PushFails, Fails, PushDrop, Dropped, GoesOn, PushUnlock,
     server, vars
<1>4. CASE UNCHANGED vars
  BY <1>4 DEF AskedTo, vars, server
<1> QED
  BY <1>1, <1>2, <1>3, <1>4 DEF Next

LEMMA HeapStep ==
  ASSUME HInv, Careful, [HeapNext]_<<vars, memory>>
  PROVE  HInv'
<1>1. AskedTo' /\ TypeOK' /\ Busy' /\ PassInv'
  <2>1. [Next]_vars
    BY HeapRefines
  <2>2. AskedTo /\ TypeOK /\ Busy /\ PassInv
    BY DEF HInv
  <2> QED
    BY <2>1, <2>2, AskedStep, TypeStep, PassStep
<1>2. HeapInv'
  <2>1. CASE UNCHANGED <<vars, memory>>
    <3>1. \A t \in Threads : Searching(t) => Role(t)'
      BY <2>1, SearchFacts DEF Role, LockFree, vars, memory, server, pushers, lists
    <3> QED
      BY <2>1, <3>1, HeapSame DEF vars
  <2>2. ASSUME NEW t \in Threads, RemoveStep(t) PROVE HeapInv'
    BY <2>2, AdvanceKeeps, NotFoundKeeps, UnchainKeeps DEF RemoveStep
  <2>3. ASSUME NEW s \in Services, SearchPurge(s) \/ WalkStep(s) PROVE HeapInv'
    BY <2>3, PurgeKeeps, DropKeeps, PassKeeps
  <2> QED
    BY <2>1, <2>2, <2>3, ElsewhereKeeps, LinkKeeps, UnsubscribeKeeps DEF HeapNext
<1> QED
  BY <1>1, <1>2 DEF HInv, HeapInv, ListsLinked, Linked

LEMMA HeapStart == HeapInit => HInv
<1> SUFFICES ASSUME HeapInit PROVE HInv
  OBVIOUS
<1>1. AskedTo /\ TypeOK /\ Busy /\ PassInv
  BY TypeInit DEF HeapInit, Init, AskedTo, PassInv, InPass
<1>2. HeapTypes
  BY DEF HeapInit, HeapTypes, NoSearch
<1>3. Linked
  BY DEF HeapInit, Init, Linked, At
<1>4. SearchInv
  BY DEF HeapInit, SearchInv, Searching, NoSearch
<1> QED
  BY <1>1, <1>2, <1>3, <1>4, HeapInvIs DEF HeapInv

LEMMA HeapAlways ==
  ASSUME Careful
  PROVE  HeapSpec => []HInv
<1>1. HInv /\ [HeapNext]_<<vars, memory>> => HInv'
  BY HeapStep
<1> QED
  BY <1>1, HeapStart, PTL DEF HeapSpec

\* The memory holds the lists: no element is lost, linked after it was freed,
\* or linked twice, if nobody unsubscribes, or however the search that holds
\* no lock and the passes interleave, as long as they free no element the
\* other points to. What the lock covers needs no such assumption.
THEOREM MemoryHoldsLists ==
  ASSUME Careful
  PROVE  HeapSpec => []ListsLinked
<1>1. HInv => ListsLinked
  BY DEF HInv
<1> QED
  BY <1>1, HeapAlways, PTL

\* Then, too, every step on the memory is a step on the sequences or none:
\* japi_pushsrv_remove_client amounts to taking the first match off the list
\* at once.
THEOREM MemoryIsSequences ==
  ASSUME Careful
  PROVE  HeapSpec => IsSequences
<1>1. HeapInit => Init
  BY DEF HeapInit
<1>2. HInv /\ [HeapNext]_<<vars, memory>> => [Next]_vars
  BY HeapRefines
<1> QED
  BY <1>1, <1>2, HeapAlways, PTL DEF HeapSpec, IsSequences, Spec

----------------------------------------------------------------------------
(* What is proved of the sequences, of the memory. The assumption Careful  *)
(* stays: PushsrvUnlocked shows what happens without it.                   *)

\* While a push thread walks its list, it holds pointers to elements of that
\* list only: removals under the lock wait for it, its own come after the
\* successor was saved. Without unsubscribe requests the lock alone does it.
THEOREM MemoryPassSafe ==
  ASSUME Careful
  PROVE  HeapSpec => []PassPointersListed
<1>1. HInv => PassPointersListed
  BY PassPointers DEF HInv
<1> QED
  BY <1>1, HeapAlways, PTL

\* If moreover no client subscribes to a service it is subscribed to, every
\* element carries the descriptor of an open connection: japi_remove_client
\* searches every list before it closes the socket, and one element is all a
\* list has of it.
THEOREM MemorySubscribersSafe ==
  ASSUME Careful, ~Resubscribe
  PROVE  HeapSpec => []SubscribersConnected
  BY MemoryIsSequences, SubscribersSafe, PTL DEF IsSequences

\* What the responses to subscribe and unsubscribe say of the lists is still
\* so when they are written, although the search that came to the answer held
\* no lock and push threads take clients off the list meanwhile.
THEOREM MemoryAnswersTrue ==
  ASSUME Careful, ~Resubscribe
  PROVE  HeapSpec => []AnswerTruthful
  BY MemoryIsSequences, AnswersTrue, PTL DEF IsSequences

\* The steps on the memory amount to PubSub: a connection is pushed to only
\* while it is subscribed, and nobody inherits a subscription with a
\* descriptor.
THEOREM MemoryImplementsPubSub ==
  ASSUME Careful, ~Resubscribe
  PROVE  HeapSpec => IsPubSub
  BY MemoryIsSequences, ImplementsPubSub, PTL DEF IsSequences

\* No descriptor brings somebody else's messages with it: a connection that
\* has heard nothing of a service is not pushed to unless its subscription was
\* accepted and the response is being written.
THEOREM MemoryPushesInvited ==
  ASSUME Careful, ~Resubscribe
  PROVE  HeapSpec => NoForeignPush
  BY MemoryIsSequences, PushesInvited, PTL DEF IsSequences
=============================================================================
