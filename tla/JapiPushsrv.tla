----------------------------- MODULE JapiPushsrv -----------------------------
(***************************************************************************)
(* The subscriber lists of the push services and the two kinds of thread   *)
(* that work on them (src/japi_pushsrv.c, japi_remove_client in            *)
(* src/japi.c):                                                            *)
(*                                                                         *)
(*  - the server thread handles one request or disconnect at a time. It    *)
(*    adds a subscriber under the lock of the service, removes one WITHOUT *)
(*    the lock when it is asked to unsubscribe, and before it closes a     *)
(*    socket it takes that socket off every list, each under its lock;     *)
(*  - one push thread per service runs japi_pushsrv_sendmsg over and over: *)
(*    it looks at the head of the list, takes the lock, and walks the list *)
(*    with the next element saved before each write, dropping the clients  *)
(*    a write to fails.                                                    *)
(*                                                                         *)
(* Here a list is a sequence of elements, and an element is taken off in   *)
(* one step. That is what removing amounts to under the lock.              *)
(* JapiPushsrvHeap has the same threads on the memory itself, one pointer  *)
(* at a time, and with that the search that holds no lock.                 *)
(*                                                                         *)
(* A list element has an identity, as a pointer has: a pass that holds a   *)
(* freed element is visible here. A descriptor is reused once it is        *)
(* closed, which is what makes a forgotten list element harmful.           *)
(***************************************************************************)
EXTENDS Naturals, Sequences, SequencesExt

CONSTANTS
  Conns,       \* the connections clients open, each used once
  Sockets,     \* descriptors accept() may return
  Services,    \* registered push services, each with its thread running
  Nodes,       \* addresses malloc() may return for a list element
  Requests,    \* the list requests clients send: "subscribe", "unsubscribe"
  Resubscribe, \* do clients subscribe to a service they are subscribed to?
  NULL

ASSUME NullAssumption ==
  NULL \notin Conns \cup Sockets \cup Services \cup Nodes
ASSUME WorkloadAssumption ==
  /\ Requests \subseteq {"subscribe", "unsubscribe"}
  /\ Resubscribe \in BOOLEAN

VARIABLES
  peer,    \* the far end: "new", "up", "stuck" (does not read) or "gone"
  sock,    \* the open descriptor of a connection, or NULL
  subs,    \* psc->clients of each service, head first
  nsock,   \* client->socket of a list element, NULL when it is free memory
  pc,      \* where the server thread is
  client,  \* the connection the server thread is busy with
  service, \* the service a request is about
  answer,  \* what the response will say
  todo,    \* services a disconnect has not been taken off yet
  push,    \* where each push thread is
  cur,     \* `client` in japi_pushsrv_sendmsg
  nxt,     \* `following_client` in japi_pushsrv_sendmsg
  said     \* what a connection last heard of a service

server  == <<pc, client, service, answer, todo>>
pushers == <<push, cur, nxt>>
lists   == <<subs, nsock>>
vars    == <<peer, sock, lists, server, pushers, said>>

Heard   == {"nothing", "subscribed", "unsubscribed", "push"}
Answers == {"subscribed", "unsubscribed", "other"}

----------------------------------------------------------------------------
(* The lists.                                                              *)

Listed(s) == ToSet(subs[s])
Live      == UNION {Listed(s) : s \in Services}

\* The places of socket fd in the list of s, and whether c has one.
Matches(s, fd)   == {i \in DOMAIN subs[s] : nsock[subs[s][i]] = fd}
Subscribed(c, s) == Matches(s, sock[c]) # {}

\* The element at place i of the list of s, if there is one.
At(s, i) == IF i \in DOMAIN subs[s] THEN subs[s][i] ELSE NULL

\* Deviations - operators named ..._Slip - replace the definition after them
\* when a property is checked for being able to fail.

\* The lock is never waited for.
LockFree_Slip(s) == TRUE

\* The push thread of s holds the lock from PushLock to PushUnlock. The
\* server's own critical sections are single steps here.
LockFree(s) == push[s] \notin {"visit", "write", "drop"}

\* The element is freed but stays linked.
RemoveClient_LinkSlip(s, fd) ==
  \/ /\ Matches(s, fd) = {}
     /\ UNCHANGED lists
  \/ \E i \in Matches(s, fd) :
       /\ \A j \in Matches(s, fd) : i <= j
       /\ nsock' = [nsock EXCEPT ![subs[s][i]] = NULL]
       /\ UNCHANGED subs

\* Only the head is ever removed.
RemoveClient_HeadSlip(s, fd) ==
  \/ /\ 1 \notin Matches(s, fd)
     /\ UNCHANGED lists
  \/ /\ 1 \in Matches(s, fd)
     /\ subs'  = [subs EXCEPT ![s] = Tail(@)]
     /\ nsock' = [nsock EXCEPT ![subs[s][1]] = NULL]

\* japi_pushsrv_remove_client: the first element with that socket is
\* unlinked and freed, later ones stay.
RemoveClient(s, fd) ==
  \/ /\ Matches(s, fd) = {}
     /\ UNCHANGED lists
  \/ \E i \in Matches(s, fd) :
       /\ \A j \in Matches(s, fd) : i <= j
       /\ subs'  = [subs EXCEPT ![s] = RemoveAt(@, i)]
       /\ nsock' = [nsock EXCEPT ![subs[s][i]] = NULL]

----------------------------------------------------------------------------
(* The server thread.                                                      *)

\* accept() and japi_add_client: any descriptor that is not in use.
Accept(c) ==
  /\ pc = "loop"
  /\ peer[c] = "new"
  /\ \E fd \in Sockets \ {sock[d] : d \in Conns} : sock' = [sock EXCEPT ![c] = fd]
  /\ peer' = [peer EXCEPT ![c] = "up"]
  /\ UNCHANGED <<lists, server, pushers, said>>

\* A subscribe request that names a service and gets its memory; the server
\* goes on to wait for the lock in AddClient.
Subscribe(c, s) ==
  /\ pc = "loop"
  /\ sock[c] # NULL
  /\ "subscribe" \in Requests
  /\ Resubscribe \/ ~Subscribed(c, s)
  /\ pc' = "add"
  /\ client' = c
  /\ service' = s
  /\ UNCHANGED <<peer, sock, lists, answer, todo, pushers, said>>

\* japi_pushsrv_add_client from the lock on: link a new head, at an address
\* malloc() had free.
AddClient(n) ==
  /\ pc = "add"
  /\ LockFree(service)
  /\ nsock[n] = NULL
  /\ subs'  = [subs EXCEPT ![service] = <<n>> \o @]
  /\ nsock' = [nsock EXCEPT ![n] = sock[client]]
  /\ pc' = "reply"
  /\ answer' = "subscribed"
  /\ UNCHANGED <<peer, sock, client, service, todo, pushers, said>>

\* An unsubscribe request begins to search the list. It does not take the
\* lock, so the push thread may work on the list until Unlink.
Unsubscribe(c, s) ==
  /\ pc = "loop"
  /\ sock[c] # NULL
  /\ "unsubscribe" \in Requests
  /\ pc' = "unlink"
  /\ client' = c
  /\ service' = s
  /\ UNCHANGED <<peer, sock, lists, answer, todo, pushers, said>>

\* The response that follows a search without the lock.
Unsubscribed(found) ==
  /\ pc = "unlink"
  /\ pc' = "reply"
  /\ answer' = IF found THEN "unsubscribed" ELSE "other"
  /\ UNCHANGED <<peer, sock, client, service, todo, pushers, said>>

\* The search ends: the element found is unlinked and freed, lock or not.
\* Nothing in the code keeps this from being an element a pass is at, or has
\* saved; here it is not. JapiPushsrvHeap says when that is so, and has what
\* happens when it is not.
Unlink ==
  /\ Unsubscribed(Subscribed(client, service))
  /\ RemoveClient(service, sock[client])
  /\ \A n \in {cur[service], nxt[service]} \ {NULL} : nsock'[n] # NULL

\* Any request whose answer leaves the lists alone: another command, an
\* unknown service, a failed malloc.
OtherRequest(c) ==
  /\ pc = "loop"
  /\ sock[c] # NULL
  /\ pc' = "reply"
  /\ client' = c
  /\ answer' = "other"
  /\ UNCHANGED <<peer, sock, lists, service, todo, pushers, said>>
----------------------------------------------------------------------------
(* The response is written without a lock; the write blocks while the peer *)
(* does not read, and a failed write drops the client.                     *)

Loop ==
  /\ pc' = "loop"
  /\ client' = NULL
  /\ service' = NULL
  /\ answer' = NULL

ReplyWritten ==
  /\ pc = "reply"
  /\ peer[client] \in {"up", "gone"}
  /\ said' = IF peer[client] = "up" /\ answer # "other"
             THEN [said EXCEPT ![client][service] = answer]
             ELSE said
  /\ Loop
  /\ UNCHANGED <<peer, sock, lists, todo, pushers>>

\* A failed response closes the socket without going over the services.
ReplyFailed_Slip ==
  /\ pc = "reply"
  /\ peer[client] = "gone"
  /\ pc' = "purge"
  /\ service' = NULL
  /\ answer' = NULL
  /\ UNCHANGED <<peer, sock, lists, client, todo, pushers, said>>

ReplyFailed ==
  /\ pc = "reply"
  /\ peer[client] = "gone"
  /\ pc' = "purge"
  /\ todo' = Services
  /\ service' = NULL
  /\ answer' = NULL
  /\ UNCHANGED <<peer, sock, lists, client, pushers, said>>

\* A client sends part of a line, and read() in creadline_r blocks: the
\* server thread waits for the rest, or for the end of the stream.
HalfLine(c) ==
  /\ pc = "loop"
  /\ sock[c] # NULL
  /\ peer[c] # "gone"
  /\ pc' = "read"
  /\ client' = c
  /\ UNCHANGED <<peer, sock, lists, service, answer, todo, pushers, said>>

LineEnds ==
  /\ pc = "read"
  /\ Loop
  /\ UNCHANGED <<peer, sock, lists, todo, pushers, said>>

\* creadline_r reports the end of the stream, or fails (a line that is too
\* long): japi_remove_client.
Disconnect(c) ==
  /\ pc = "loop"
  /\ sock[c] # NULL
  /\ pc' = "purge"
  /\ client' = c
  /\ todo' = Services
  /\ UNCHANGED <<peer, sock, lists, service, answer, pushers, said>>

\* The first service that lists the client is taken for the only one.
Purge_Slip(s) ==
  /\ pc = "purge"
  /\ s \in todo
  /\ LockFree(s)
  /\ RemoveClient(s, sock[client])
  /\ todo' = IF Subscribed(client, s) THEN {} ELSE todo \ {s}
  /\ UNCHANGED <<peer, sock, pc, client, service, answer, pushers, said>>

\* A list without the client is taken for an error, and the socket stays.
Purge_StopSlip(s) ==
  /\ pc = "purge"
  /\ s \in todo
  /\ LockFree(s)
  /\ RemoveClient(s, sock[client])
  /\ IF Subscribed(client, s)
     THEN /\ todo' = todo \ {s}
          /\ UNCHANGED <<pc, client, service, answer>>
     ELSE todo' = {} /\ Loop
  /\ UNCHANGED <<peer, sock, pushers, said>>

\* One round of japi_pushsrv_remove_client_from_all_pushsrv.
Purged(s) ==
  /\ pc = "purge"
  /\ s \in todo
  /\ todo' = todo \ {s}
  /\ UNCHANGED <<peer, sock, pc, client, service, answer, pushers, said>>

Purge(s) ==
  /\ Purged(s)
  /\ LockFree(s)
  /\ RemoveClient(s, sock[client])

\* The socket is closed before the last list has been gone over.
Close_Slip ==
  /\ pc = "purge"
  /\ sock' = [sock EXCEPT ![client] = NULL]
  /\ peer' = [peer EXCEPT ![client] = "gone"]
  /\ todo' = {}
  /\ Loop
  /\ UNCHANGED <<lists, pushers, said>>

\* The rest of japi_remove_client: off ctx->clients, and close().
Close ==
  /\ pc = "purge"
  /\ todo = {}
  /\ sock' = [sock EXCEPT ![client] = NULL]
  /\ peer' = [peer EXCEPT ![client] = "gone"]
  /\ Loop
  /\ UNCHANGED <<lists, todo, pushers, said>>

----------------------------------------------------------------------------
(* The push thread of service s: japi_pushsrv_sendmsg in a loop.           *)

\* The test of the head, without the lock: nobody to send to ...
Nobody(s, first) ==
  /\ push[s] = "idle"
  /\ first = NULL
  /\ UNCHANGED vars

\* ... or somebody; the message is built, the lock not yet taken.
Somebody(s, first) ==
  /\ push[s] = "idle"
  /\ first # NULL
  /\ push' = [push EXCEPT ![s] = "entered"]
  /\ UNCHANGED <<peer, sock, lists, server, cur, nxt, said>>

Locked(s, first) ==
  /\ push[s] = "entered"
  /\ push' = [push EXCEPT ![s] = "visit"]
  /\ cur' = [cur EXCEPT ![s] = first]
  /\ UNCHANGED <<peer, sock, lists, server, nxt, said>>

\* Save client->next.
Save(s, n) ==
  /\ push[s] = "visit"
  /\ cur[s] # NULL
  /\ push' = [push EXCEPT ![s] = "write"]
  /\ nxt' = [nxt EXCEPT ![s] = n]
  /\ UNCHANGED <<peer, sock, lists, server, cur, said>>

\* The pass goes on with the element saved.
GoesOn(s) ==
  /\ push' = [push EXCEPT ![s] = "visit"]
  /\ cur' = [cur EXCEPT ![s] = nxt[s]]
  /\ nxt' = [nxt EXCEPT ![s] = NULL]
  /\ UNCHANGED <<peer, sock, server>>

\* write_n to descriptor fd blocks while the peer does not read; it may still
\* succeed after the peer has left ...
Written(s, fd) ==
  /\ push[s] = "write"
  /\ \E c \in Conns :
       /\ sock[c] = fd
       /\ peer[c] \in {"up", "gone"}
       /\ said' = IF peer[c] = "up" THEN [said EXCEPT ![c][s] = "push"] ELSE said
  /\ GoesOn(s)
  /\ UNCHANGED lists

\* ... or fail then, or on a closed descriptor.
Fails(s, fd) ==
  /\ push[s] = "write"
  /\ \A c \in Conns : sock[c] = fd => peer[c] = "gone"
  /\ push' = [push EXCEPT ![s] = "drop"]
  /\ UNCHANGED <<peer, sock, lists, server, cur, nxt, said>>

\* The first element with the descriptor that could not be written to is
\* removed.
Dropped(s) ==
  /\ push[s] = "drop"
  /\ GoesOn(s)
  /\ UNCHANGED said

\* The same on the sequence.
PushNobody(s) == Nobody(s, At(s, 1))
PushCheck(s)  == Somebody(s, At(s, 1))
PushLock(s)   == Locked(s, At(s, 1))

\* The pass ends after one element.
PushNext_Slip(s) == Save(s, NULL)

PushNext(s) ==
  \E i \in DOMAIN subs[s] : subs[s][i] = cur[s] /\ Save(s, At(s, i + 1))

PushWrite(s) == Written(s, nsock[cur[s]])
PushFails(s) == Fails(s, nsock[cur[s]])
PushDrop(s)  == Dropped(s) /\ RemoveClient(s, nsock[cur[s]])

PushUnlock(s) ==
  /\ push[s] = "visit"
  /\ cur[s] = NULL
  /\ push' = [push EXCEPT ![s] = "idle"]
  /\ UNCHANGED <<peer, sock, lists, server, cur, nxt, said>>

----------------------------------------------------------------------------
(* The peers.                                                              *)

\* The peer stops reading and its socket buffer fills up.
Stall(c) ==
  /\ peer[c] = "up"
  /\ peer' = [peer EXCEPT ![c] = "stuck"]
  /\ UNCHANGED <<sock, lists, server, pushers, said>>

Drain(c) ==
  /\ peer[c] = "stuck"
  /\ peer' = [peer EXCEPT ![c] = "up"]
  /\ UNCHANGED <<sock, lists, server, pushers, said>>

Leave(c) ==
  /\ peer[c] \in {"up", "stuck"}
  /\ peer' = [peer EXCEPT ![c] = "gone"]
  /\ UNCHANGED <<sock, lists, server, pushers, said>>

----------------------------------------------------------------------------

Init ==
  /\ peer = [c \in Conns |-> "new"]
  /\ sock = [c \in Conns |-> NULL]
  /\ subs = [s \in Services |-> <<>>]
  /\ nsock = [n \in Nodes |-> NULL]
  /\ pc = "loop"
  /\ client = NULL
  /\ service = NULL
  /\ answer = NULL
  /\ todo = {}
  /\ push = [s \in Services |-> "idle"]
  /\ cur = [s \in Services |-> NULL]
  /\ nxt = [s \in Services |-> NULL]
  /\ said = [c \in Conns |-> [s \in Services |-> "nothing"]]

\* What the server thread does once a request or disconnect is under way.
ServerStep ==
  \/ \E n \in Nodes : AddClient(n)
  \/ Unlink
  \/ ReplyWritten
  \/ ReplyFailed
  \/ \E s \in Services : Purge(s)
  \/ Close

PushStep(s) ==
  \/ PushNobody(s)
  \/ PushCheck(s)
  \/ PushLock(s)
  \/ PushNext(s)
  \/ PushWrite(s)
  \/ PushFails(s)
  \/ PushDrop(s)
  \/ PushUnlock(s)

ServerInput(c) ==
  \/ Accept(c)
  \/ \E s \in Services : Subscribe(c, s) \/ Unsubscribe(c, s)
  \/ OtherRequest(c)
  \/ HalfLine(c)
  \/ Disconnect(c)

PeerStep(c) == Stall(c) \/ Drain(c) \/ Leave(c)

Next ==
  \/ \E c \in Conns : ServerInput(c) \/ PeerStep(c)
  \/ ServerStep
  \/ LineEnds
  \/ \E s \in Services : PushStep(s)

Spec == Init /\ [][Next]_vars

(***************************************************************************)
(* Fairness. Both kinds of thread keep running. The conditions a thread    *)
(* waits on come and go - the lock is free between two passes, because     *)
(* push routines sleep between messages; a blocked write can finish each   *)
(* time the peer reads - hence strong fairness.                            *)
(***************************************************************************)
ThreadFairness ==
  /\ SF_vars(ServerStep)
  /\ \A s \in Services : SF_vars(PushStep(s))

\* Two assumptions about clients, which the code cannot enforce. Peers that
\* stop reading go on reading, or leave, in the end; ...
PeersRead == \A c \in Conns : WF_vars(Drain(c))

\* ... and no client keeps the one server thread to itself: it ends the lines
\* it begins, and pauses between them now and then, so that the loop over its
\* lines ends, select() is called again and the end of another stream, which
\* it then reports in every round, is seen.
PeersPause ==
  /\ WF_vars(LineEnds)
  /\ SF_vars(\E c \in Conns : peer[c] = "gone" /\ Disconnect(c))

ThreadSpec == Spec /\ ThreadFairness
FairSpec   == ThreadSpec /\ PeersRead /\ PeersPause

----------------------------------------------------------------------------
(* Properties.                                                             *)

\* Every variable has its type, ...
Types ==
  /\ peer \in [Conns -> {"new", "up", "stuck", "gone"}]
  /\ sock \in [Conns -> Sockets \cup {NULL}]
  /\ subs \in [Services -> Seq(Nodes)]
  /\ nsock \in [Nodes -> Sockets \cup {NULL}]
  /\ pc \in {"loop", "read", "add", "unlink", "reply", "purge"}
  /\ client \in Conns \cup {NULL}
  /\ service \in Services \cup {NULL}
  /\ answer \in Answers \cup {NULL}
  /\ todo \subseteq Services
  /\ push \in [Services -> {"idle", "entered", "visit", "write", "drop"}]
  /\ cur \in [Services -> Nodes \cup {NULL}]
  /\ nxt \in [Services -> Nodes \cup {NULL}]
  /\ said \in [Conns -> [Services -> Heard]]

\* ... an element is in at most one list, at one place, ...
NoSharing ==
  \A s, t \in Services : \A i \in DOMAIN subs[s], j \in DOMAIN subs[t] :
    subs[s][i] = subs[t][j] => s = t /\ i = j

\* ... and it carries a descriptor exactly while it is in a list.
FreeIsBlank == \A n \in Nodes : n \in Live <=> nsock[n] # NULL

\* The type invariant: types, and a heap without sharing, dangling links or
\* leaks.
TypeOK == Types /\ NoSharing /\ FreeIsBlank

\* While a push thread walks its list, the element it is at and the one it
\* saved as next are elements of the list: japi_pushsrv_sendmsg never uses
\* memory that was freed under it.
PassPointersListed ==
  \A s \in Services :
    push[s] \in {"visit", "write", "drop"} => {cur[s], nxt[s]} \subseteq Listed(s) \cup {NULL}

\* Every subscriber's descriptor is that of an open connection:
\* japi_remove_client leaves nothing behind that a later connection with the
\* same descriptor would inherit.
SubscribersConnected ==
  \A n \in Live : \E c \in Conns : sock[c] = nsock[n]

\* A connection that has heard nothing of a service gets a push only when its
\* subscription has been accepted and the response is under way.
NoForeignPush ==
  [][\A c \in Conns, s \in Services :
       said[c][s] = "nothing" /\ said'[c][s] = "push"
         => pc = "reply" /\ answer = "subscribed" /\ client = c /\ service = s]_vars

\* What a response says is so when it is written: "unsubscribed" means the
\* service holds no subscription of this client any more, "subscribed" that
\* it holds one, unless the push thread found the client gone.
AnswerTruthful ==
  pc = "reply" =>
    /\ answer = "unsubscribed" => ~Subscribed(client, service)
    /\ answer = "subscribed" => Subscribed(client, service) \/ peer[client] = "gone"

\* The lists and their threads seen as a service to connections: a
\* connection is subscribed when its descriptor is in the list.
Service == INSTANCE PubSub WITH
  open        <- {c \in Conns : sock[c] # NULL},
  closed      <- {c \in Conns : sock[c] = NULL /\ peer[c] # "new"},
  subscribers <- [s \in Services |-> {c \in Conns : sock[c] # NULL /\ Subscribed(c, s)}],
  heard       <- said

\* As long as nobody subscribes twice, the threads, the reused descriptors and
\* the failing writes amount to that service: pushes reach subscribers only,
\* and no connection inherits a subscription.
IsPubSub == Service!Spec

\* The connection of a peer that left is closed in the end, however busy the
\* push threads keep the locks and whomever they wait for, if the other
\* clients read, end their lines and pause.
GoneAreClosed ==
  \A c \in Conns : (peer[c] = "gone" /\ sock[c] # NULL) ~> (sock[c] = NULL)

\* A client that was told it is subscribed gets a message of that service in
\* the end, unless it leaves.
SubscribersServed ==
  \A c \in Conns, s \in Services :
    (said[c][s] = "subscribed") ~> (said[c][s] # "subscribed" \/ peer[c] = "gone")

\* The server thread gets past a subscribe request whatever the subscribers
\* do: pushing is independent of the server.
SubscribeIsServed == (pc = "add") ~> (pc # "add")
=============================================================================
