---------------------------- MODULE JapiLifecycle ----------------------------
(***************************************************************************)
(* From japi_init to japi_destroy: push services that are registered,      *)
(* started, stopped and destroyed (src/japi_pushsrv.c), the threads that   *)
(* run their routines, and the server that is started in between           *)
(* (src/networking.c, src/japi.c).                                         *)
(*                                                                         *)
(* The main thread is the one that calls these functions. It is also the   *)
(* server thread: while it serves, handlers call them, and subscriptions   *)
(* come and go. A push thread runs the routine of src/doxydir/demo.cpp:    *)
(* messages until psc->enabled is cleared, or until it has had enough.     *)
(*                                                                         *)
(* Services, list elements and threads have identities, as pointers have.  *)
(* One element stands for one client, whatever it is subscribed to.        *)
(***************************************************************************)
EXTENDS Naturals, Sequences, FiniteSets, SequencesExt

CONSTANTS
  Services,    \* addresses of psc objects, each used once
  Names,       \* of services
  Nodes,       \* addresses of list elements
  Threads,     \* push threads, each used once
  Addresses,   \* how many addresses getaddrinfo() may return
  MaxSockets,  \* bound: listening sockets left open when a server is started
  Main,        \* the main thread
  DestroyBusy, \* is a service destroyed that has a thread and subscribers?
  StartTwice,  \* is a service started that is started?
  NULL

ASSUME ConstantsAssumption ==
  /\ NULL \notin Services \cup Names \cup Nodes \cup Threads \cup {Main}
  /\ Main \notin Threads
  /\ Addresses \in Nat /\ MaxSockets \in Nat
  /\ DestroyBusy \in BOOLEAN /\ StartTwice \in BOOLEAN

VARIABLES
  heap,      \* of each service: "none", "live" or "freed"
  name,      \* psc->pushsrv_name
  services,  \* ctx->push_services, head first
  enabled,   \* psc->enabled
  thread_id, \* psc->thread_id
  lock,      \* who holds psc->lock, or NULL
  subs,      \* psc->clients, head first
  at,        \* where each push thread is
  psc,       \* its service
  cur,       \* `client` in japi_pushsrv_sendmsg
  nxt,       \* `following_client`
  pc,        \* where the main thread is
  home,      \* where it returns to: "idle" or "serve"
  arg,       \* the service it stops or destroys
  client,    \* `client` in japi_pushsrv_destroy
  job,       \* what for: "none", "stop", "destroy" or "destroy all"
  sockets,   \* listening sockets the process has open
  addrs,     \* addresses left to try
  failed,    \* has the server returned with its socket open?
  shutdown   \* ctx->shutdown

service == <<heap, name, services, enabled, thread_id>>
lists   == <<lock, subs>>
threads == <<at, psc, cur, nxt>>
main    == <<pc, home, arg, client, job>>
server  == <<sockets, addrs, failed, shutdown>>
vars    == <<service, lists, threads, main, server>>

----------------------------------------------------------------------------

Listed(s) == ToSet(subs[s])
Running(t) == at[t] \notin {"unborn", "ended", "joined"}
Takers(s) == {t \in Threads : psc[t] = s /\ Running(t)}

\* The element behind n in the list of s, or NULL.
Following(s, n) ==
  LET behind == {i \in 2 .. Len(subs[s]) : subs[s][i - 1] = n}
  IN  IF behind = {} THEN NULL ELSE subs[s][CHOOSE i \in behind : TRUE]
First(s) == IF subs[s] = <<>> THEN NULL ELSE Head(subs[s])

\* japi_pushsrv_remove_client: unlinked and freed.
RemoveClient(s, n) == subs' = [subs EXCEPT ![s] = RemoveFirst(@, n)]

\* The main thread may begin something.
Free == pc \in {"idle", "serve"}

----------------------------------------------------------------------------
(* Register, start, stop.                                                  *)

\* Names that are there already are accepted.
Register_Slip(s, n) ==
  /\ Free
  /\ heap[s] = "none"
  /\ heap' = [heap EXCEPT ![s] = "live"]
  /\ name' = [name EXCEPT ![s] = n]
  /\ services' = <<s>> \o services
  /\ UNCHANGED <<enabled, thread_id, lists, threads, main, server>>

\* japi_pushsrv_register: a name is there once (strcmp).
Register(s, n) ==
  /\ Free
  /\ heap[s] = "none"
  /\ \A i \in DOMAIN services : name[services[i]] # n
  /\ heap' = [heap EXCEPT ![s] = "live"]
  /\ name' = [name EXCEPT ![s] = n]
  /\ services' = <<s>> \o services
  /\ UNCHANGED <<enabled, thread_id, lists, threads, main, server>>

\* japi_pushsrv_start, which does not look at whether a routine runs already.
Start(s, t) ==
  /\ Free
  /\ heap[s] = "live"
  /\ StartTwice \/ ~enabled[s]
  /\ at[t] = "unborn"
  /\ enabled' = [enabled EXCEPT ![s] = TRUE]
  /\ thread_id' = [thread_id EXCEPT ![s] = t]
  /\ at' = [at EXCEPT ![t] = "loop"]
  /\ psc' = [psc EXCEPT ![t] = s]
  /\ UNCHANGED <<heap, name, services, lists, cur, nxt, main, server>>

\* pthread_create() fails.
StartFails(s) ==
  /\ Free
  /\ heap[s] = "live"
  /\ StartTwice \/ ~enabled[s]
  /\ thread_id' = [thread_id EXCEPT ![s] = NULL]
  /\ enabled' = [enabled EXCEPT ![s] = FALSE]
  /\ UNCHANGED <<heap, name, services, lists, threads, main, server>>

\* The thread is told to end, and not waited for.
StopThread_Slip(s) ==
  /\ enabled' = [enabled EXCEPT ![s] = FALSE]
  /\ pc' = "joined"

\* japi_pushsrv_stop up to the join; nothing when it is not started.
StopThread(s) ==
  /\ enabled' = [enabled EXCEPT ![s] = FALSE]
  /\ pc' = IF enabled[s] THEN "join" ELSE "joined"

Stop(s) ==
  /\ Free
  /\ heap[s] = "live"
  /\ StopThread(s)
  /\ home' = pc
  /\ arg' = s
  /\ job' = "stop"
  /\ UNCHANGED <<heap, name, services, thread_id, lists, threads, client, server>>

Join ==
  /\ pc = "join"
  /\ at[thread_id[arg]] = "ended"
  /\ at' = [at EXCEPT ![thread_id[arg]] = "joined"]
  /\ pc' = "joined"
  /\ UNCHANGED <<service, lists, psc, cur, nxt, home, arg, client, job, server>>

Stopped ==
  /\ pc = "joined"
  /\ job = "stop"
  /\ pc' = home
  /\ home' = "idle"
  /\ job' = "none"
  /\ arg' = NULL
  /\ UNCHANGED <<service, lists, threads, client, server>>

----------------------------------------------------------------------------
(* Destroy.                                                                *)

\* A service nobody subscribes to, or whose thread has ended.
Quiet(s) == subs[s] = <<>> \/ Takers(s) = {}

\* The service stays in the list of its context.
Unlink_Slip(s) == UNCHANGED services
Unlink(s) == services' = RemoveFirst(services, s)

\* japi_pushsrv_destroy: the service is unlinked, and the head of its list
\* read before the lock is taken.
BeginDestroy(s) ==
  /\ Unlink(s)
  /\ client' = First(s)
  /\ arg' = s
  /\ pc' = "lock"

Destroy(s) ==
  /\ Free
  /\ heap[s] = "live"
  /\ DestroyBusy \/ Quiet(s)
  /\ BeginDestroy(s)
  /\ home' = pc
  /\ job' = "destroy"
  /\ UNCHANGED <<heap, name, enabled, thread_id, lists, threads, server>>

DestroyLock ==
  /\ pc = "lock"
  /\ lock[arg] = NULL
  /\ lock' = [lock EXCEPT ![arg] = Main]
  /\ pc' = "drop"
  /\ UNCHANGED <<service, subs, threads, home, arg, client, job, server>>

DestroyDrop ==
  /\ pc = "drop"
  /\ client # NULL
  /\ RemoveClient(arg, client)
  /\ client' = Following(arg, client)
  /\ UNCHANGED <<service, lock, threads, pc, home, arg, job, server>>

\* The thread is stopped with the lock held.
DestroyStop_Slip ==
  /\ pc = "drop"
  /\ client = NULL
  /\ StopThread(arg)
  /\ UNCHANGED <<heap, name, services, thread_id, lists, threads, home, arg, client, job, server>>

\* The lock is given back, and japi_pushsrv_stop called.
DestroyStop ==
  /\ pc = "drop"
  /\ client = NULL
  /\ lock' = [lock EXCEPT ![arg] = NULL]
  /\ StopThread(arg)
  /\ UNCHANGED <<heap, name, services, thread_id, subs, threads, home, arg, client, job, server>>

\* free_pushsrv, and on to the next service if all are destroyed.
DestroyFree ==
  /\ pc = "joined"
  /\ job \in {"destroy", "destroy all"}
  /\ heap' = [heap EXCEPT ![arg] = "freed"]
  /\ name' = [name EXCEPT ![arg] = NULL]
  /\ thread_id' = [thread_id EXCEPT ![arg] = NULL]
  /\ arg' = NULL
  /\ IF job = "destroy"
     THEN pc' = home /\ home' = "idle" /\ job' = "none"
     ELSE pc' = "next" /\ UNCHANGED <<home, job>>
  /\ UNCHANGED <<services, enabled, lists, threads, client, server>>

\* japi_destroy: the requests, then service after service.
JapiDestroy ==
  /\ pc = "idle"
  /\ DestroyBusy \/ \A s \in Services : heap[s] = "live" => Quiet(s)
  /\ pc' = "next"
  /\ job' = "destroy all"
  /\ UNCHANGED <<service, lists, threads, home, arg, client, server>>

DestroyNext ==
  /\ pc = "next"
  /\ services # <<>>
  /\ BeginDestroy(Head(services))
  /\ UNCHANGED <<heap, name, enabled, thread_id, lists, threads, home, job, server>>

FreeContext ==
  /\ pc = "next"
  /\ services = <<>>
  /\ pc' = "over"
  /\ UNCHANGED <<service, lists, threads, home, arg, client, job, server>>

----------------------------------------------------------------------------
(* The server.                                                             *)

\* japi_start_server: tcp_start_server gets addresses, or none.
StartServer ==
  /\ pc = "idle"
  /\ sockets <= MaxSockets
  /\ pc' = "bind"
  /\ addrs' \in 0 .. Addresses
  /\ UNCHANGED <<service, lists, threads, home, arg, client, job, sockets, failed, shutdown>>

\* A socket that cannot be bound stays open.
BindFails_Slip ==
  /\ pc = "bind"
  /\ addrs > 0
  /\ addrs' = addrs - 1
  /\ sockets' = sockets + 1
  /\ UNCHANGED <<service, lists, threads, main, failed, shutdown>>

\* socket() fails, or bind() does and the socket is closed.
BindFails ==
  /\ pc = "bind"
  /\ addrs > 0
  /\ addrs' = addrs - 1
  /\ UNCHANGED <<service, lists, threads, main, sockets, failed, shutdown>>

Bind ==
  /\ pc = "bind"
  /\ addrs > 0
  /\ sockets' = sockets + 1
  /\ addrs' = 0
  /\ pc' = "listen"
  /\ UNCHANGED <<service, lists, threads, home, arg, client, job, failed, shutdown>>

NoAddress ==
  /\ pc = "bind"
  /\ addrs = 0
  /\ pc' = "idle"
  /\ UNCHANGED <<service, lists, threads, home, arg, client, job, server>>

Listen ==
  /\ pc = "listen"
  /\ pc' = "serve"
  /\ UNCHANGED <<service, lists, threads, home, arg, client, job, server>>

\* listen(), and later select() or accept(), may fail: the server returns as
\* it is.
ServerFails ==
  /\ pc \in {"listen", "serve"}
  /\ pc' = "idle"
  /\ failed' = TRUE
  /\ UNCHANGED <<service, lists, threads, home, arg, client, job, sockets, addrs, shutdown>>

\* A client subscribes: a new head, under the lock.
Subscribe(s, n) ==
  /\ pc = "serve"
  /\ s \in ToSet(services)
  /\ n \notin UNION {Listed(u) : u \in Services}
  /\ lock[s] = NULL
  /\ subs' = [subs EXCEPT ![s] = <<n>> \o @]
  /\ UNCHANGED <<service, lock, threads, main, server>>

\* A client leaves, or all do when the server cleans up: each element goes
\* under the lock of its service.
Disconnect(s, n) ==
  /\ pc \in {"serve", "clean"}
  /\ n \in Listed(s)
  /\ lock[s] = NULL
  /\ RemoveClient(s, n)
  /\ UNCHANGED <<service, lock, threads, main, server>>

\* japi_shutdown, from a handler or another thread.
Shutdown ==
  /\ pc # "over"
  /\ ~shutdown
  /\ shutdown' = TRUE
  /\ UNCHANGED <<service, lists, threads, main, sockets, addrs, failed>>

SeeShutdown ==
  /\ pc = "serve"
  /\ shutdown
  /\ pc' = "clean"
  /\ UNCHANGED <<service, lists, threads, home, arg, client, job, server>>

ServerReturns ==
  /\ pc = "clean"
  /\ \A s \in Services : subs[s] = <<>>
  /\ sockets' = sockets - 1
  /\ pc' = "idle"
  /\ UNCHANGED <<service, lists, threads, home, arg, client, job, addrs, failed, shutdown>>

----------------------------------------------------------------------------
(* A push thread.                                                          *)

Goes(t, where) == at' = [at EXCEPT ![t] = where]

\* The routine returns, and generic_pushsrv_runner with it.
Ends(t) == Goes(t, "ended") /\ psc' = [psc EXCEPT ![t] = NULL]

\* The routine does not look at psc->enabled any more once it has begun.
Loop_Slip(t) ==
  /\ at[t] = "loop"
  /\ Goes(t, "check")
  /\ UNCHANGED <<service, lists, psc, cur, nxt, main, server>>

\* while (psc->enabled)
Loop(t) ==
  /\ at[t] = "loop"
  /\ IF enabled[psc[t]] THEN Goes(t, "check") /\ UNCHANGED psc ELSE Ends(t)
  /\ UNCHANGED <<service, lists, cur, nxt, main, server>>

\* The routine returns without being told.
Leave(t) ==
  /\ at[t] = "loop"
  /\ Ends(t)
  /\ UNCHANGED <<service, lists, cur, nxt, main, server>>

\* japi_pushsrv_sendmsg: is there anybody?
Check(t) ==
  /\ at[t] = "check"
  /\ Goes(t, IF subs[psc[t]] = <<>> THEN "loop" ELSE "lock")
  /\ UNCHANGED <<service, lists, psc, cur, nxt, main, server>>

Lock(t) ==
  /\ at[t] = "lock"
  /\ lock[psc[t]] = NULL
  /\ lock' = [lock EXCEPT ![psc[t]] = t]
  /\ cur' = [cur EXCEPT ![t] = First(psc[t])]
  /\ Goes(t, "visit")
  /\ UNCHANGED <<service, subs, psc, nxt, main, server>>

Visit(t) ==
  /\ at[t] = "visit"
  /\ cur[t] # NULL
  /\ nxt' = [nxt EXCEPT ![t] = Following(psc[t], cur[t])]
  /\ Goes(t, "write")
  /\ UNCHANGED <<service, lists, psc, cur, main, server>>

\* write_n to the client, which is removed when that fails.
Write(t) ==
  /\ at[t] = "write"
  /\ UNCHANGED subs \/ RemoveClient(psc[t], cur[t])
  /\ cur' = [cur EXCEPT ![t] = nxt[t]]
  /\ nxt' = [nxt EXCEPT ![t] = NULL]
  /\ Goes(t, "visit")
  /\ UNCHANGED <<service, lock, psc, main, server>>

Unlock(t) ==
  /\ at[t] = "visit"
  /\ cur[t] = NULL
  /\ lock' = [lock EXCEPT ![psc[t]] = NULL]
  /\ Goes(t, "loop")
  /\ UNCHANGED <<service, subs, psc, cur, nxt, main, server>>

----------------------------------------------------------------------------

Init ==
  /\ heap = [s \in Services |-> "none"]
  /\ name = [s \in Services |-> NULL]
  /\ services = <<>>
  /\ enabled = [s \in Services |-> FALSE]
  /\ thread_id = [s \in Services |-> NULL]
  /\ lock = [s \in Services |-> NULL]
  /\ subs = [s \in Services |-> <<>>]
  /\ at = [t \in Threads |-> "unborn"]
  /\ psc = [t \in Threads |-> NULL]
  /\ cur = [t \in Threads |-> NULL]
  /\ nxt = [t \in Threads |-> NULL]
  /\ pc = "idle" /\ home = "idle" /\ arg = NULL /\ client = NULL /\ job = "none"
  /\ sockets = 0 /\ addrs = 0 /\ failed = FALSE /\ shutdown = FALSE

\* What the main thread does once it has begun, and what it begins.
Finish ==
  \/ Join \/ Stopped
  \/ DestroyLock \/ DestroyDrop \/ DestroyStop \/ DestroyFree \/ DestroyNext \/ FreeContext
  \/ BindFails \/ Bind \/ NoAddress \/ Listen \/ ServerReturns
  \/ pc = "clean" /\ \E s \in Services, n \in Nodes : Disconnect(s, n)

Operation ==
  \/ \E s \in Services :
       \/ StartFails(s) \/ Stop(s) \/ Destroy(s)
       \/ \E n \in Names : Register(s, n)
       \/ \E t \in Threads : Start(s, t)
       \/ \E n \in Nodes : Subscribe(s, n)
       \/ \E n \in Nodes : pc = "serve" /\ Disconnect(s, n)
  \/ JapiDestroy \/ StartServer \/ ServerFails \/ Shutdown \/ SeeShutdown

Work(t) == Loop(t) \/ Check(t) \/ Lock(t) \/ Visit(t) \/ Write(t) \/ Unlock(t)

Next ==
  \/ Finish
  \/ Operation
  \/ \E t \in Threads : Work(t) \/ Leave(t)

Spec == Init /\ [][Next]_vars

\* Every thread that can go on does, and a contended lock is obtained in the
\* end, as routines sleep with it free. Peers read: a write returns.
Fairness ==
  /\ SF_vars(Finish)
  /\ \A t \in Threads : SF_vars(Work(t))
FairSpec == Spec /\ Fairness

----------------------------------------------------------------------------
(* Properties.                                                             *)

\* The types of the variables; a service is listed once, and so is a name.
TypeOK ==
  /\ heap \in [Services -> {"none", "live", "freed"}]
  /\ name \in [Services -> Names \cup {NULL}]
  /\ services \in Seq(Services)
  /\ \A i, j \in DOMAIN services : name[services[i]] = name[services[j]] => i = j
  /\ enabled \in [Services -> BOOLEAN]
  /\ thread_id \in [Services -> Threads \cup {NULL}]
  /\ lock \in [Services -> Threads \cup {Main, NULL}]
  /\ subs \in [Services -> Seq(Nodes)]
  /\ \A s \in Services : IsInjective(subs[s])
  /\ at \in [Threads -> {"unborn", "loop", "check", "lock", "visit", "write", "ended", "joined"}]
  /\ psc \in [Threads -> Services \cup {NULL}]
  /\ cur \in [Threads -> Nodes \cup {NULL}]
  /\ nxt \in [Threads -> Nodes \cup {NULL}]
  /\ pc \in {"idle", "join", "joined", "lock", "drop", "next", "over"} \cup
            {"bind", "listen", "serve", "clean"}
  /\ arg \in Services \cup {NULL}
  /\ client \in Nodes \cup {NULL}
  /\ sockets \in Nat /\ addrs \in 0 .. Addresses /\ failed \in BOOLEAN /\ shutdown \in BOOLEAN

\* Nothing is used after it was freed: a running thread has its service, the
\* elements a pass holds and the one japi_pushsrv_destroy is about to remove
\* are in the list, and what main works on or has listed exists.
NoUseAfterFree ==
  /\ \A t \in Threads :
       /\ Running(t) => heap[psc[t]] = "live"
       /\ at[t] \in {"visit", "write"} => cur[t] \in Listed(psc[t]) \cup {NULL}
       /\ at[t] = "write" => nxt[t] \in Listed(psc[t]) \cup {NULL}
  /\ pc \in {"lock", "drop"} => client \in Listed(arg) \cup {NULL}
  /\ arg # NULL => heap[arg] = "live"
  /\ \A i \in DOMAIN services : heap[services[i]] = "live"

\* japi_pushsrv_stop: when it has returned, the routine does not run, and
\* nobody is left who holds the lock.
StopIsFinal ==
  \A s \in Services :
    ~enabled[s] /\ ~(pc = "join" /\ arg = s) =>
      Takers(s) = {} /\ lock[s] \in {NULL, Main}

\* After japi_destroy nothing is left: no service, no list element, no thread
\* that runs or was not joined, and no listening socket unless a started
\* server has failed.
NothingLeft ==
  pc = "over" =>
    /\ failed \/ sockets = 0
    /\ \A s \in Services : heap[s] # "live" /\ subs[s] = <<>>
    /\ \A t \in Threads : at[t] \in {"unborn", "joined"}

\* japi_pushsrv_stop and japi_pushsrv_destroy return, although each waits for
\* a thread, and destroy for a lock that thread takes.
StopReturns == pc = "join" ~> pc # "join"
DestroyReturns == \A s \in Services : arg = s ~> arg = NULL

=============================================================================
