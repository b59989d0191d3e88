--------------------------- MODULE JapiPushsrvHeap ---------------------------
(***************************************************************************)
(* The threads of JapiPushsrv on the memory: the head of each list, the    *)
(* `next` of each element, and japi_pushsrv_remove_client as it goes from  *)
(* element to element with `prev` and `client` in its hands. Both the push *)
(* thread of a service and the server thread run it, and for an            *)
(* unsubscribe request (src/japi_pushsrv.c:254) the server thread does not *)
(* hold the lock: each read and each write of a pointer is a step.         *)
(*                                                                         *)
(* subs is a history variable here: the list as it would be if an element  *)
(* left it in one step, when it is unlinked. That the memory says the same *)
(* is a property (ListsLinked), and so is that the steps on the memory are *)
(* steps on the sequences (IsSequences).                                   *)
(*                                                                         *)
(* Both need that the search without the lock frees no element a pass      *)
(* points to, nor a pass one that this search points to. Nothing in the    *)
(* code sees to that: it is an assumption about when requests come,        *)
(* Races = FALSE. With Races = TRUE a thread may read freed memory, which  *)
(* holds anything, or write to it. The process may also die of it: then    *)
(* nothing happens any more. Whoever holds the lock is never kept off.     *)
(***************************************************************************)
EXTENDS JapiPushsrv

CONSTANTS
  Races,       \* may an unsubscribe and a pass free each other's elements?
  ServerThread \* the thread of japi_start_server

ASSUME ThreadAssumption ==
  /\ Races \in BOOLEAN
  /\ ServerThread \notin Services

VARIABLES
  head,  \* psc->clients
  next,  \* client->next of a list element
  search \* the call of japi_pushsrv_remove_client each thread is in

memory == <<head, next, search>>

\* A thread is named for its service.
Threads == Services \cup {ServerThread}

\* The arguments of a call; prev and client; whether client is the one, and
\* then client->next.
NoSearch ==
  [list |-> NULL, fd |-> NULL, prev |-> NULL, elem |-> NULL, found |-> FALSE, after |-> NULL]

Searching(t) == search[t].list # NULL

\* The round of the purge that is under way holds the lock of its service.
ServerLocks(s) == pc = "purge" /\ search[ServerThread].list = s

\* What reading an element yields; freed memory may hold anything.
NextOf(n)   == IF nsock[n] = NULL THEN Nodes \cup {NULL} ELSE {next[n]}
SocketOf(n) == IF nsock[n] = NULL THEN Sockets ELSE {nsock[n]}

\* The elements a thread holds a pointer to.
Holds(t) ==
  {search[t].prev, search[t].elem, search[t].after}
    \cup (IF t \in Services THEN {cur[t], nxt[t]} ELSE {})

\* An unsubscribe request searches without the lock.
Unlocked(t) == t = ServerThread /\ pc = "unlink"

----------------------------------------------------------------------------
(* japi_pushsrv_remove_client.                                             *)

\* The search begins behind the head.
Begin_Slip(t, s, fd) ==
  \E n \in IF head[s] = NULL THEN {NULL} ELSE NextOf(head[s]) :
    search' = [search EXCEPT ![t] = [NoSearch EXCEPT
      !.list = s, !.fd = fd, !.elem = n, !.prev = head[s]]]

Begin(t, s, fd) ==
  search' = [search EXCEPT ![t] = [NoSearch EXCEPT !.list = s, !.fd = fd, !.elem = head[s]]]

\* Not this element: prev and client move on.
Advance(t) ==
  /\ Searching(t)
  /\ search[t].elem # NULL
  /\ ~search[t].found
  /\ SocketOf(search[t].elem) # {search[t].fd}
  /\ \E n \in NextOf(search[t].elem) :
       search' = [search EXCEPT ![t].prev = search[t].elem, ![t].elem = n]
  /\ UNCHANGED <<vars, head, next>>

\* "or" for "and" where the first element is tested.
Match_Slip(t) ==
  /\ Searching(t)
  /\ search[t].elem # NULL
  /\ ~search[t].found
  /\ search[t].prev = NULL \/ search[t].fd \in SocketOf(search[t].elem)
  /\ \E n \in NextOf(search[t].elem) :
       search' = [search EXCEPT ![t].found = TRUE, ![t].after = n]
  /\ UNCHANGED <<vars, head, next>>

\* This one: what is behind it is read, ...
Match(t) ==
  /\ Searching(t)
  /\ search[t].elem # NULL
  /\ ~search[t].found
  /\ search[t].fd \in SocketOf(search[t].elem)
  /\ \E n \in NextOf(search[t].elem) :
       search' = [search EXCEPT ![t].found = TRUE, ![t].after = n]
  /\ UNCHANGED <<vars, head, next>>

\* ... or there is none.
Return(t, found) ==
  /\ search' = [search EXCEPT ![t] = NoSearch]
  /\ \/ t = ServerThread /\ Unsubscribed(found)
     \/ t = ServerThread /\ Purged(search[t].list)
     \/ t \in Services /\ Dropped(t)

NotFound(t) ==
  /\ Searching(t)
  /\ search[t].elem = NULL
  /\ Return(t, FALSE)
  /\ UNCHANGED <<lists, head, next>>

\* The link that led to the element is left as it is when it is the last.
Relink_Slip(s, prev, after) ==
  IF prev = NULL
  THEN head' = [head EXCEPT ![s] = after] /\ UNCHANGED next
  ELSE /\ next' = IF after = NULL THEN next ELSE [next EXCEPT ![prev] = after]
       /\ UNCHANGED head

Relink(s, prev, after) ==
  IF prev = NULL
  THEN head' = [head EXCEPT ![s] = after] /\ UNCHANGED next
  ELSE next' = [next EXCEPT ![prev] = after] /\ UNCHANGED head

\* ... and written where the link to it was, and it is freed.
Unchain(t) ==
  LET s == search[t].list  n == search[t].elem IN
  /\ Searching(t)
  /\ search[t].found
  /\ Races \/ \A u \in Threads \ {t} : Unlocked(t) \/ Unlocked(u) => n \notin Holds(u)
  /\ Relink(s, search[t].prev, search[t].after)
  /\ subs' = [subs EXCEPT ![s] = RemoveFirst(@, n)]
  /\ nsock' = [nsock EXCEPT ![n] = NULL]
  /\ Return(t, TRUE)

----------------------------------------------------------------------------
(* The steps that read or write the lists.                                 *)

\* client->next = psc->clients; psc->clients = client.
Link(n) ==
  /\ AddClient(n)
  /\ next' = [next EXCEPT ![n] = head[service]]
  /\ head' = [head EXCEPT ![service] = n]
  /\ UNCHANGED search

SearchUnsubscribe(c, s) ==
  /\ Unsubscribe(c, s)
  /\ Begin(ServerThread, s, sock[c])
  /\ UNCHANGED <<head, next>>

SearchPurge(s) ==
  /\ pc = "purge"
  /\ s \in todo
  /\ ~Searching(ServerThread)
  /\ LockFree(s)
  /\ Begin(ServerThread, s, sock[client])
  /\ UNCHANGED <<vars, head, next>>

\* A pass: the head is tested, and read again with the lock held.
PassNobody(s) == Nobody(s, head[s]) /\ UNCHANGED memory
PassCheck(s)  == Somebody(s, head[s]) /\ UNCHANGED memory
PassLock(s)   == ~ServerLocks(s) /\ Locked(s, head[s]) /\ UNCHANGED memory
PassUnlock(s) == PushUnlock(s) /\ UNCHANGED memory

PassNext(s) ==
  /\ cur[s] # NULL
  /\ \E n \in NextOf(cur[s]) : Save(s, n)
  /\ UNCHANGED memory

PassWrite(s) ==
  /\ cur[s] # NULL
  /\ \E fd \in SocketOf(cur[s]) : Written(s, fd)
  /\ UNCHANGED memory

PassFails(s) ==
  /\ cur[s] # NULL
  /\ \E fd \in SocketOf(cur[s]) : Fails(s, fd)
  /\ UNCHANGED memory

\* A failed write: the call that removes the client.
SearchDrop(s) ==
  /\ push[s] = "drop"
  /\ ~Searching(s)
  /\ \E fd \in SocketOf(cur[s]) : Begin(s, s, fd)
  /\ UNCHANGED <<vars, head, next>>

----------------------------------------------------------------------------

HeapInit ==
  /\ Init
  /\ head = [s \in Services |-> NULL]
  /\ next = [n \in Nodes |-> NULL]
  /\ search = [t \in Threads |-> NoSearch]

\* The steps that do not touch the lists are those of JapiPushsrv.
Elsewhere ==
  /\ \/ \E c \in Conns :
          \/ Accept(c) \/ OtherRequest(c) \/ HalfLine(c) \/ Disconnect(c) \/ PeerStep(c)
          \/ \E s \in Services : Subscribe(c, s)
     \/ LineEnds \/ ReplyWritten \/ ReplyFailed \/ Close
  /\ UNCHANGED memory

RemoveStep(t) == Advance(t) \/ Match(t) \/ NotFound(t) \/ Unchain(t)

WalkStep(s) ==
  \/ PassNobody(s)
  \/ PassCheck(s)
  \/ PassLock(s)
  \/ PassNext(s)
  \/ PassWrite(s)
  \/ PassFails(s)
  \/ SearchDrop(s)
  \/ PassUnlock(s)

HeapNext ==
  \/ Elsewhere
  \/ \E n \in Nodes : Link(n)
  \/ \E c \in Conns, s \in Services : SearchUnsubscribe(c, s)
  \/ \E s \in Services : SearchPurge(s) \/ WalkStep(s)
  \/ \E t \in Threads : RemoveStep(t)

HeapSpec == HeapInit /\ [][HeapNext]_<<vars, memory>>

----------------------------------------------------------------------------
(* Properties.                                                             *)

HeapTypes ==
  /\ head \in [Services -> Nodes \cup {NULL}]
  /\ next \in [Nodes -> Nodes \cup {NULL}]
  /\ search \in [Threads ->
       [list : Services \cup {NULL}, fd : Sockets \cup {NULL}, found : BOOLEAN,
        prev : Nodes \cup {NULL}, elem : Nodes \cup {NULL}, after : Nodes \cup {NULL}]]

\* The memory holds the lists: psc->clients is the first element, each `next`
\* the element behind, and no element is lost, freed while linked, or linked
\* twice.
ListsLinked ==
  /\ HeapTypes /\ TypeOK
  /\ \A s \in Services :
       /\ head[s] = At(s, 1)
       /\ \A i \in DOMAIN subs[s] : next[subs[s][i]] = At(s, i + 1)

\* Searching from element to element, with the lock or without, and writing
\* one pointer amounts to taking the first match off a sequence in one step,
\* as long as it and the passes free no element the other points to.
IsSequences == Spec
=============================================================================
