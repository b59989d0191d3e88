------------------------- MODULE JapiLifecycleProofs -------------------------
(***************************************************************************)
(* What JapiLifecycle guarantees for every set of services, names, list    *)
(* elements and threads, when no service is started that is started and    *)
(* none is destroyed that has a thread and subscribers: nothing is used    *)
(* after it was freed, a service that was stopped stays stopped, and       *)
(* japi_destroy leaves nothing behind.                                     *)
(***************************************************************************)
EXTENDS JapiLifecycle, ListLemmas

Stopping   == {"join", "joined"}
Destroying == {"lock", "drop"}

\* Where the main thread is: while it stops or destroys a service it knows
\* which, what for, and where to return to.
MainInv ==
  /\ job \in {"none", "stop", "destroy", "destroy all"}
  /\ home \in {"idle", "serve"}
  /\ arg # NULL <=> pc \in Stopping \cup Destroying
  /\ pc \in Stopping \cup Destroying => job # "none"
  /\ pc \in Destroying => job # "stop"
  /\ pc \in {"next", "over"} => job = "destroy all"
  /\ pc \notin Stopping \cup Destroying \cup {"next", "over"} => job = "none"
  /\ arg = NULL \/ job = "destroy all" => home = "idle"
  /\ pc \in Stopping => ~enabled[arg]

\* A service is in the list from its registration until it is being
\* destroyed, and lives until that is done; only then has it no clients.
ServiceInv ==
  /\ \A s \in Services :
       s \in ToSet(services) <=> heap[s] = "live" /\ ~(arg = s /\ job # "stop")
  /\ arg # NULL => heap[arg] = "live"
  /\ pc = "over" => services = <<>>
  /\ \A s \in Services : heap[s] # "live" => subs[s] = <<>>

\* A thread that was not joined belongs to the service it was started for,
\* which is enabled, or being stopped and waited for.
Owned(t) ==
  \E s \in Services :
    /\ heap[s] = "live"
    /\ thread_id[s] = t
    /\ enabled[s] \/ (pc = "join" /\ arg = s)
    /\ Running(t) => psc[t] = s
ThreadInv == \A t \in Threads : at[t] \notin {"unborn", "joined"} => Owned(t)

\* Who holds a lock is in its critical section, and the other way round.
LockInv ==
  /\ \A t \in Threads : at[t] \in {"visit", "write"} => lock[psc[t]] = t
  /\ \A s \in Services, t \in Threads :
       lock[s] = t => at[t] \in {"visit", "write"} /\ psc[t] = s
  /\ pc = "drop" => lock[arg] = Main
  /\ \A s \in Services : lock[s] = Main => pc = "drop" /\ arg = s

\* The elements a pass holds are listed, and the saved one is another.
PassInv ==
  \A t \in Threads :
    /\ at[t] = "visit" => cur[t] \in Listed(psc[t]) \cup {NULL}
    /\ at[t] = "write" => /\ cur[t] \in Listed(psc[t])
                          /\ nxt[t] \in (Listed(psc[t]) \ {cur[t]}) \cup {NULL}

\* A service being destroyed is quiet, and japi_pushsrv_destroy is at the
\* head of its list; when it has given the lock back the list is empty. All
\* services are quiet that japi_destroy has not come to.
DestroyInv ==
  /\ pc \in Destroying => Quiet(arg) /\ client = First(arg)
  /\ pc \in Stopping /\ job # "stop" => subs[arg] = <<>>
  /\ job = "destroy all" => \A s \in Services : Quiet(s)

\* A server that has not failed has its socket open exactly while it serves.
Serving == pc \in {"listen", "serve", "clean"} \/ home = "serve"
SocketInv ==
  /\ Serving => sockets >= 1
  /\ failed \/ sockets = IF Serving THEN 1 ELSE 0

IInv ==
  /\ TypeOK /\ MainInv /\ ServiceInv /\ ThreadInv /\ LockInv /\ PassInv /\ DestroyInv /\ SocketInv

----------------------------------------------------------------------------
(* The list of a service.                                                  *)

\* What is behind an element is another one, and what is first is listed.
LEMMA FollowingFacts ==
  ASSUME TypeOK, NEW s \in Services, NEW n
  PROVE  /\ Following(s, n) \in (Listed(s) \ {n}) \cup {NULL}
         /\ First(s) \in Listed(s) \cup {NULL}
         /\ Listed(s) \subseteq Nodes
         /\ NULL \notin Listed(s)
         /\ subs[s] = <<>> <=> Listed(s) = {}
         /\ subs[s] = <<>> <=> First(s) = NULL
<1>1. subs[s] \in Seq(Nodes) /\ IsInjective(subs[s])
  BY DEF TypeOK
<1>2. Len(subs[s]) \in Nat /\ DOMAIN subs[s] = 1 .. Len(subs[s])
  BY <1>1
<1>3. Listed(s) \subseteq Nodes /\ NULL \notin Listed(s)
  BY <1>1, ConstantsAssumption DEF Listed, ToSet
<1>4. ASSUME subs[s] # <<>>
      PROVE  Listed(s) # {} /\ First(s) # NULL /\ First(s) \in Listed(s)
  <2>1. Head(subs[s]) = subs[s][1] /\ 1 \in DOMAIN subs[s]
    BY <1>1, <1>4
  <2> QED
    BY <1>3, <1>4, <2>1 DEF First, Listed, ToSet
<1>5. ASSUME subs[s] = <<>>
      PROVE  Listed(s) = {} /\ First(s) = NULL
  BY <1>5 DEF First, Listed, ToSet
<1>6. Following(s, n) \in (Listed(s) \ {n}) \cup {NULL}
  <2> DEFINE behind == {i \in 2 .. Len(subs[s]) : subs[s][i - 1] = n}
  <2>1. ASSUME NEW i \in behind PROVE subs[s][i] \in Listed(s) \ {n}
    <3>1. i \in DOMAIN subs[s] /\ i - 1 \in DOMAIN subs[s] /\ i # i - 1
      BY <1>2
    <3> QED
      BY <1>1, <3>1 DEF IsInjective, Listed, ToSet
  <2>2. CASE behind = {}
    BY <2>2 DEF Following
  <2>3. CASE behind # {}
    <3>1. Following(s, n) = subs[s][CHOOSE i \in behind : TRUE]
      BY <2>3 DEF Following
    <3>2. (CHOOSE i \in behind : TRUE) \in behind
      <4> HIDE DEF behind
      <4> QED
        BY <2>3
    <3> HIDE DEF behind
    <3> QED
      BY <2>1, <3>1, <3>2
  <2> QED
    BY <2>2, <2>3
<1> QED
  BY <1>3, <1>4, <1>5, <1>6

\* japi_pushsrv_remove_client takes one element off one list.
LEMMA RemoveClientFacts ==
  ASSUME TypeOK, NEW s \in Services, NEW n, RemoveClient(s, n)
  PROVE  /\ subs' \in [Services -> Seq(Nodes)]
         /\ \A u \in Services : IsInjective(subs'[u])
         /\ \A u \in Services : u # s => subs'[u] = subs[u]
         /\ ToSet(subs'[s]) = Listed(s) \ {n}
<1>1. subs[s] \in Seq(Nodes) /\ IsInjective(subs[s])
  BY DEF TypeOK
<1>2. /\ RemoveFirst(subs[s], n) \in Seq(Nodes)
      /\ IsInjective(RemoveFirst(subs[s], n))
      /\ ToSet(RemoveFirst(subs[s], n)) = ToSet(subs[s]) \ {n}
  BY <1>1, RemoveFirstFacts
<1>3. subs' = [u \in Services |-> IF u = s THEN RemoveFirst(subs[s], n) ELSE subs[u]]
  BY DEF RemoveClient, TypeOK
<1> QED
  BY <1>2, <1>3 DEF TypeOK, Listed

\* Subscribing puts a new one at the head.
LEMMA SubscribeFacts ==
  ASSUME TypeOK, NEW s \in Services, NEW n \in Nodes, Subscribe(s, n)
  PROVE  /\ subs' \in [Services -> Seq(Nodes)]
         /\ \A u \in Services : IsInjective(subs'[u])
         /\ \A u \in Services : u # s => subs'[u] = subs[u]
         /\ ToSet(subs'[s]) = Listed(s) \cup {n}
<1>1. subs[s] \in Seq(Nodes) /\ IsInjective(subs[s]) /\ n \notin ToSet(subs[s])
  BY DEF TypeOK, Subscribe, Listed
<1>2. /\ <<n>> \o subs[s] \in Seq(Nodes)
      /\ IsInjective(<<n>> \o subs[s])
      /\ ToSet(<<n>> \o subs[s]) = ToSet(subs[s]) \cup {n}
  BY <1>1, PushFacts
<1>3. subs' = [u \in Services |-> IF u = s THEN <<n>> \o subs[s] ELSE subs[u]]
  BY DEF Subscribe, TypeOK
<1> QED
  BY <1>2, <1>3 DEF TypeOK, Listed

----------------------------------------------------------------------------
(* What the steps change.                                                  *)

\* A push thread changes no service and leaves the main thread and the server
\* alone.
LEMMA ThreadFrame ==
  ASSUME NEW t \in Threads, Work(t) \/ Leave(t)
  PROVE  UNCHANGED <<service, main, server>>
  BY DEF Work, Loop, Leave, Check, Lock, Visit, Write, Unlock

\* Steps that leave the lists of clients and services alone keep the types.
LEMMA TypeFrame ==
  ASSUME TypeOK, UNCHANGED <<name, services, subs>>,
         heap' \in [Services -> {"none", "live", "freed"}],
         enabled' \in [Services -> BOOLEAN],
         thread_id' \in [Services -> Threads \cup {NULL}],
         lock' \in [Services -> Threads \cup {Main, NULL}],
         at' \in [Threads -> {"unborn", "loop", "check", "lock", "visit", "write", "ended", "joined"}],
         psc' \in [Threads -> Services \cup {NULL}],
         cur' \in [Threads -> Nodes \cup {NULL}],
         nxt' \in [Threads -> Nodes \cup {NULL}],
         pc' \in {"idle", "join", "joined", "lock", "drop", "next", "over"} \cup
                {"bind", "listen", "serve", "clean"},
         arg' \in Services \cup {NULL},
         client' \in Nodes \cup {NULL},
         sockets' \in Nat, addrs' \in 0 .. Addresses, failed' \in BOOLEAN, shutdown' \in BOOLEAN
  PROVE  TypeOK'
  BY DEF TypeOK

\* Names are there once: in terms of places, and of members.
LEMMA NamedOnce ==
  ASSUME NEW q, NEW f
  PROVE  (\A i, j \in DOMAIN q : f[q[i]] = f[q[j]] => i = j)
           <=> IsInjective(q) /\ \A x, y \in ToSet(q) : f[x] = f[y] => x = y
  BY DEF IsInjective, ToSet

\* A service is unlinked from its context, and its list about to be emptied.
LEMMA BeginDestroyFacts ==
  ASSUME TypeOK, NEW s \in Services, BeginDestroy(s)
  PROVE  /\ services' \in Seq(Services)
         /\ IsInjective(services')
         /\ ToSet(services') = ToSet(services) \ {s}
         /\ client' = First(s) /\ client' \in Nodes \cup {NULL}
         /\ arg' = s /\ pc' = "lock"
<1>1. services \in Seq(Services) /\ IsInjective(services)
  BY NamedOnce DEF TypeOK
<1>2. services' = RemoveFirst(services, s)
  BY DEF BeginDestroy, Unlink
<1> QED
  BY <1>1, <1>2, RemoveFirstFacts, FollowingFacts DEF BeginDestroy

\* A new service is registered.
LEMMA RegisterFacts ==
  ASSUME TypeOK, ServiceInv, NEW s \in Services, NEW n \in Names, Register(s, n)
  PROVE  /\ services' \in Seq(Services)
         /\ IsInjective(services')
         /\ s \notin ToSet(services)
         /\ ToSet(services') = ToSet(services) \cup {s}
         /\ \A x, y \in ToSet(services') : name'[x] = name'[y] => x = y
<1>1. /\ services \in Seq(Services) /\ IsInjective(services)
      /\ \A x, y \in ToSet(services) : name[x] = name[y] => x = y
  BY NamedOnce DEF TypeOK
<1>2. s \notin ToSet(services) /\ \A x \in ToSet(services) : name[x] # n /\ x \in Services
  BY DEF Register, ServiceInv, ToSet, TypeOK
<1>3. name' = [name EXCEPT ![s] = n] /\ services' = <<s>> \o services
  BY DEF Register
<1>4. /\ services' \in Seq(Services) /\ IsInjective(services')
      /\ ToSet(services') = ToSet(services) \cup {s}
  BY <1>1, <1>2, <1>3, PushFacts
<1>5. \A x, y \in ToSet(services') : name'[x] = name'[y] => x = y
  <2>1. \A x \in ToSet(services) : x \in Services /\ name'[x] = name[x] /\ name[x] # n
    BY <1>2, <1>3 DEF TypeOK
  <2>2. name'[s] = n
    BY <1>3 DEF TypeOK
  <2> QED
    BY <1>1, <1>4, <2>1, <2>2
<1> QED
  BY <1>2, <1>4, <1>5

LEMMA MainStep ==
  ASSUME TypeOK, MainInv, [Next]_vars
  PROVE  MainInv'
<1> USE DEF service, main, server, vars, Stopping, Destroying
<1>1. ASSUME NEW t \in Threads, Work(t) \/ Leave(t) PROVE MainInv'
  BY <1>1, ThreadFrame DEF MainInv
<1>2. CASE Join \/ Stopped
  BY <1>2 DEF Join, Stopped, MainInv
<1>3. CASE DestroyLock \/ DestroyDrop
  BY <1>3 DEF DestroyLock, DestroyDrop, MainInv
<1>4. CASE DestroyStop
  BY <1>4 DEF DestroyStop, StopThread, MainInv, TypeOK
<1>5. CASE DestroyFree \/ FreeContext
  BY <1>5 DEF DestroyFree, FreeContext, MainInv
<1>6. CASE DestroyNext
  <2> PICK s \in Services : s = Head(services)
    BY <1>6 DEF DestroyNext, TypeOK
  <2> QED
    BY <1>6, ConstantsAssumption DEF DestroyNext, BeginDestroy, MainInv
<1>7. CASE BindFails \/ Bind \/ NoAddress \/ Listen \/ ServerReturns
  BY <1>7 DEF BindFails, Bind, NoAddress, Listen, ServerReturns, MainInv
<1>8. ASSUME NEW s \in Services, NEW n \in Nodes, Disconnect(s, n) \/ Subscribe(s, n) PROVE MainInv'
  BY <1>8 DEF Disconnect, Subscribe, MainInv
<1>9. ASSUME NEW s \in Services, NEW n \in Names, Register(s, n) PROVE MainInv'
  BY <1>9 DEF Register, MainInv
<1>10. ASSUME NEW s \in Services, NEW t \in Threads, Start(s, t) PROVE MainInv'
  BY <1>10 DEF Start, Free, MainInv
<1>11. ASSUME NEW s \in Services, StartFails(s) PROVE MainInv'
  BY <1>11 DEF StartFails, Free, MainInv
<1>12. ASSUME NEW s \in Services, Stop(s) PROVE MainInv'
  BY <1>12, ConstantsAssumption DEF Stop, StopThread, Free, MainInv, TypeOK
<1>13. ASSUME NEW s \in Services, Destroy(s) PROVE MainInv'
  BY <1>13, ConstantsAssumption DEF Destroy, BeginDestroy, Free, MainInv, TypeOK
<1>14. CASE JapiDestroy \/ StartServer \/ ServerFails \/ Shutdown \/ SeeShutdown
  BY <1>14 DEF JapiDestroy, StartServer, ServerFails, Shutdown, SeeShutdown, MainInv
<1>15. CASE UNCHANGED vars
  BY <1>15 DEF MainInv
<1> QED
  BY <1>1, <1>2, <1>3, <1>4, <1>5, <1>6, <1>7, <1>8, <1>9, <1>10, <1>11, <1>12, <1>13, <1>14,
     <1>15 DEF Next, Finish, Operation

LEMMA TypeStep ==
  ASSUME IInv, [Next]_vars
  PROVE  TypeOK'
<1> USE DEF service, lists, threads, main, server, vars
<1>0. TypeOK /\ MainInv /\ ServiceInv /\ ThreadInv /\ SocketInv
  BY DEF IInv
<1>1. ASSUME NEW t \in Threads, Loop(t) \/ Leave(t) \/ Check(t) PROVE TypeOK'
  BY <1>0, <1>1, TypeFrame, ZenonT(60) DEF Loop, Leave, Check, Ends, Goes, TypeOK
<1>2. ASSUME NEW t \in Threads, Work(t), ~Loop(t), ~Check(t) PROVE TypeOK'
  <2> PICK s \in Services : s = psc[t]
    BY <1>0, <1>2 DEF Work, Lock, Visit, Write, Unlock, ThreadInv, Owned, Running
  <2>1. Following(s, cur[t]) \in Nodes \cup {NULL} /\ First(s) \in Nodes \cup {NULL}
    BY <1>0, FollowingFacts
  <2>2. CASE Lock(t)
    BY <1>0, <2>1, <2>2, TypeFrame DEF Lock, Goes, TypeOK
  <2>3. CASE Visit(t)
    BY <1>0, <2>1, <2>3, TypeFrame DEF Visit, Goes, TypeOK
  <2>4. CASE Write(t)
    <3>1. subs' \in [Services -> Seq(Nodes)] /\ \A u \in Services : IsInjective(subs'[u])
      BY <1>0, <2>4, RemoveClientFacts DEF Write, TypeOK
    <3> QED
      BY <1>0, <2>4, <3>1 DEF Write, Goes, TypeOK
  <2>5. CASE Unlock(t)
    BY <1>0, <2>5, TypeFrame DEF Unlock, Goes, TypeOK
  <2> QED
    BY <1>2, <2>2, <2>3, <2>4, <2>5 DEF Work
<1>3. CASE Join \/ Stopped
  BY <1>0, <1>3, TypeFrame DEF Join, Stopped, TypeOK, MainInv
<1>4. CASE DestroyLock \/ DestroyStop
  BY <1>0, <1>4, TypeFrame DEF DestroyLock, DestroyStop, StopThread, TypeOK
<1>5. CASE DestroyDrop
  <2> PICK s \in Services : s = arg
    BY <1>0, <1>5 DEF DestroyDrop, MainInv, TypeOK, Destroying
  <2>1. subs' \in [Services -> Seq(Nodes)] /\ \A u \in Services : IsInjective(subs'[u])
    BY <1>0, <1>5, RemoveClientFacts DEF DestroyDrop
  <2>2. Following(s, client) \in Nodes \cup {NULL}
    BY <1>0, FollowingFacts
  <2> QED
    BY <1>0, <1>5, <2>1, <2>2 DEF DestroyDrop, TypeOK
<1>6. CASE DestroyFree
  <2>1. arg \in Services /\ arg \notin ToSet(services)
    BY <1>0, <1>6 DEF DestroyFree, MainInv, ServiceInv, TypeOK, Stopping
  <2>2. name' = [name EXCEPT ![arg] = NULL] /\ UNCHANGED <<services, subs>>
    BY <1>6 DEF DestroyFree
  <2>3. \A i, j \in DOMAIN services : name'[services[i]] = name'[services[j]] => i = j
    BY <1>0, <2>1, <2>2 DEF ToSet, TypeOK
  <2> QED
    BY <1>0, <1>6, <2>1, <2>2, <2>3 DEF DestroyFree, MainInv, TypeOK
<1>7. ASSUME NEW s \in Services, BeginDestroy(s),
             UNCHANGED <<heap, name, enabled, thread_id, lists, threads, server>>
      PROVE  TypeOK'
  <2>1. \A i, j \in DOMAIN services' : name'[services'[i]] = name'[services'[j]] => i = j
    <3>1. \A x, y \in ToSet(services) : name[x] = name[y] => x = y
      BY <1>0, NamedOnce DEF TypeOK
    <3>2. IsInjective(services') /\ ToSet(services') \subseteq ToSet(services)
      BY <1>0, <1>7, BeginDestroyFacts
    <3>3. \A x, y \in ToSet(services') : name'[x] = name'[y] => x = y
      BY <1>7, <3>1, <3>2
    <3> QED
      BY <3>2, <3>3, NamedOnce
  <2> QED
    BY <1>0, <1>7, <2>1, BeginDestroyFacts DEF TypeOK
<1>8. CASE DestroyNext
  <2> PICK s \in Services : s = Head(services)
    BY <1>0, <1>8 DEF DestroyNext, TypeOK
  <2> QED
    BY <1>7, <1>8 DEF DestroyNext
<1>9. CASE FreeContext \/ BindFails \/ Bind \/ NoAddress \/ Listen
  BY <1>0, <1>9, TypeFrame, ConstantsAssumption
  DEF FreeContext, BindFails, Bind, NoAddress, Listen, TypeOK
<1>10. CASE ServerReturns
  BY <1>0, <1>10, TypeFrame DEF ServerReturns, SocketInv, Serving, TypeOK
<1>11. ASSUME NEW s \in Services, NEW n \in Nodes, Disconnect(s, n) \/ Subscribe(s, n)
       PROVE  TypeOK'
  <2>1. subs' \in [Services -> Seq(Nodes)] /\ \A u \in Services : IsInjective(subs'[u])
    BY <1>0, <1>11, RemoveClientFacts, SubscribeFacts DEF Disconnect
  <2> QED
    BY <1>0, <1>11, <2>1 DEF Disconnect, Subscribe, TypeOK
<1>12. ASSUME NEW s \in Services, NEW n \in Names, Register(s, n) PROVE TypeOK'
  <2>1. \A i, j \in DOMAIN services' : name'[services'[i]] = name'[services'[j]] => i = j
    BY <1>0, <1>12, RegisterFacts, NamedOnce
  <2> QED
    BY <1>0, <1>12, <2>1, RegisterFacts DEF Register, TypeOK
<1>13. ASSUME NEW s \in Services, NEW t \in Threads, Start(s, t) PROVE TypeOK'
  BY <1>0, <1>13, TypeFrame DEF Start, TypeOK
<1>14. ASSUME NEW s \in Services, StartFails(s) \/ Stop(s) PROVE TypeOK'
  BY <1>0, <1>14, TypeFrame, ZenonT(60) DEF StartFails, Stop, StopThread, TypeOK
<1>15. ASSUME NEW s \in Services, Destroy(s) PROVE TypeOK'
  BY <1>7, <1>15 DEF Destroy
<1>16. CASE JapiDestroy \/ StartServer \/ ServerFails \/ Shutdown \/ SeeShutdown
  BY <1>0, <1>16, TypeFrame
  DEF JapiDestroy, StartServer, ServerFails, Shutdown, SeeShutdown, TypeOK
<1>17. CASE UNCHANGED vars
  BY <1>0, <1>17, TypeFrame DEF TypeOK
<1> QED
  BY <1>1, <1>2, <1>3, <1>4, <1>5, <1>6, <1>8, <1>9, <1>10, <1>11, <1>12, <1>13, <1>14, <1>15,
     <1>16, <1>17 DEF Next, Finish, Operation, Work

LEMMA ServiceStep ==
  ASSUME IInv, ~DestroyBusy, [Next]_vars
  PROVE  ServiceInv'
<1> USE DEF service, lists, threads, main, server, vars, Stopping, Destroying
<1>0. TypeOK /\ MainInv /\ ServiceInv /\ DestroyInv /\ ThreadInv /\ PassInv
  BY DEF IInv
<1>1. ASSUME UNCHANGED <<heap, services, arg, job, subs>>, pc' # "over" \/ pc = "over"
      PROVE  ServiceInv'
  BY <1>0, <1>1 DEF ServiceInv
<1>2. ASSUME UNCHANGED <<heap, services, arg, job, pc>>, NEW s \in Services, heap[s] = "live",
             \A u \in Services : u # s => subs'[u] = subs[u]
      PROVE  ServiceInv'
  BY <1>0, <1>2 DEF ServiceInv
<1>3. ASSUME NEW t \in Threads, Work(t) \/ Leave(t), ~Write(t) PROVE ServiceInv'
  BY <1>1, <1>3, ThreadFrame DEF Work, Loop, Leave, Check, Lock, Visit, Unlock
<1>4. ASSUME NEW t \in Threads, Write(t) PROVE ServiceInv'
  <2> PICK s \in Services : s = psc[t] /\ heap[s] = "live"
    BY <1>0, <1>4 DEF Write, ThreadInv, Owned, Running
  <2>1. \A u \in Services : u # s => subs'[u] = subs[u]
    BY <1>0, <1>4, RemoveClientFacts DEF Write
  <2> QED
    BY <1>2, <1>4, <2>1 DEF Write
<1>5. CASE Join
  BY <1>1, <1>5 DEF Join
<1>6. CASE Stopped
  BY <1>0, <1>6, ConstantsAssumption DEF Stopped, MainInv, ServiceInv
<1>7. CASE DestroyLock \/ DestroyStop
  BY <1>1, <1>7 DEF DestroyLock, DestroyStop, StopThread
<1>8. CASE DestroyDrop
  <2> PICK s \in Services : s = arg /\ heap[s] = "live"
    BY <1>0, <1>8, ConstantsAssumption DEF DestroyDrop, MainInv, ServiceInv, TypeOK
  <2>1. \A u \in Services : u # s => subs'[u] = subs[u]
    BY <1>0, <1>8, RemoveClientFacts DEF DestroyDrop
  <2> QED
    BY <1>2, <1>8, <2>1 DEF DestroyDrop
<1>9. CASE DestroyFree
  <2>1. arg \in Services /\ subs[arg] = <<>> /\ arg \notin ToSet(services) /\ arg # NULL
    BY <1>0, <1>9, ConstantsAssumption DEF DestroyFree, MainInv, ServiceInv, DestroyInv, TypeOK
  <2>2. \A s \in Services : heap'[s] = IF s = arg THEN "freed" ELSE heap[s]
    BY <1>0, <1>9, <2>1 DEF DestroyFree, TypeOK
  <2>3. arg' = NULL /\ UNCHANGED <<services, subs>> /\ pc' # "over" /\ NULL \notin Services
    BY <1>0, <1>9, ConstantsAssumption DEF DestroyFree, MainInv
  <2> QED
    BY <1>0, <2>1, <2>2, <2>3 DEF ServiceInv
<1>10. ASSUME NEW s \in Services, BeginDestroy(s), s \in ToSet(services), arg = NULL, job' # "stop",
              UNCHANGED <<heap, subs>>
       PROVE  ServiceInv'
  <2>1. \A u \in Services : u \in ToSet(services') <=> u \in ToSet(services) /\ u # s
    BY <1>0, <1>10, BeginDestroyFacts
  <2>2. \A u \in Services : u \in ToSet(services) <=> heap[u] = "live"
    BY <1>0, <1>10, ConstantsAssumption DEF ServiceInv
  <2>3. arg' = s /\ pc' = "lock"
    BY <1>10 DEF BeginDestroy
  <2> QED
    BY <1>0, <1>10, <2>1, <2>2, <2>3 DEF ServiceInv
<1>11. CASE DestroyNext
  <2> PICK s \in Services : s = Head(services) /\ s \in ToSet(services)
    BY <1>0, <1>11 DEF DestroyNext, TypeOK, ToSet
  <2> QED
    BY <1>0, <1>10, <1>11 DEF DestroyNext, MainInv
<1>12. ASSUME NEW s \in Services, Destroy(s) PROVE ServiceInv'
  <2>1. s \in ToSet(services) /\ arg = NULL
    BY <1>0, <1>12, ConstantsAssumption DEF Destroy, Free, MainInv, ServiceInv
  <2> QED
    BY <1>10, <1>12, <2>1 DEF Destroy
<1>13. CASE FreeContext
  BY <1>0, <1>13 DEF FreeContext, ServiceInv
<1>14. CASE BindFails \/ Bind \/ NoAddress \/ Listen \/ ServerReturns
  BY <1>1, <1>14 DEF BindFails, Bind, NoAddress, Listen, ServerReturns
<1>15. ASSUME NEW s \in Services, NEW n \in Nodes, Disconnect(s, n) PROVE ServiceInv'
  <2>1. heap[s] = "live"
    BY <1>0, <1>15, FollowingFacts DEF Disconnect, ServiceInv
  <2>2. \A u \in Services : u # s => subs'[u] = subs[u]
    BY <1>0, <1>15, RemoveClientFacts DEF Disconnect
  <2> QED
    BY <1>2, <1>15, <2>1, <2>2 DEF Disconnect
<1>16. ASSUME NEW s \in Services, NEW n \in Nodes, Subscribe(s, n) PROVE ServiceInv'
  <2>1. heap[s] = "live"
    BY <1>0, <1>16 DEF Subscribe, ServiceInv
  <2>2. \A u \in Services : u # s => subs'[u] = subs[u]
    BY <1>0, <1>16, SubscribeFacts
  <2> QED
    BY <1>2, <1>16, <2>1, <2>2 DEF Subscribe
<1>17. ASSUME NEW s \in Services, NEW n \in Names, Register(s, n) PROVE ServiceInv'
  <2>1. s \notin ToSet(services) /\ ToSet(services') = ToSet(services) \cup {s}
    BY <1>0, <1>17, RegisterFacts
  <2>2. \A u \in Services : heap'[u] = IF u = s THEN "live" ELSE heap[u]
    BY <1>0, <1>17 DEF Register, TypeOK
  <2>3. arg = NULL /\ UNCHANGED <<arg, job, subs, pc>> /\ pc # "over"
    BY <1>0, <1>17 DEF Register, Free, MainInv
  <2> QED
    BY <1>0, <2>1, <2>2, <2>3, ConstantsAssumption DEF ServiceInv
<1>18. ASSUME NEW s \in Services, NEW t \in Threads, Start(s, t) PROVE ServiceInv'
  BY <1>1, <1>18 DEF Start
<1>19. ASSUME NEW s \in Services, StartFails(s) PROVE ServiceInv'
  BY <1>1, <1>19 DEF StartFails
<1>20. ASSUME NEW s \in Services, Stop(s) PROVE ServiceInv'
  BY <1>0, <1>20, ConstantsAssumption DEF Stop, StopThread, Free, MainInv, ServiceInv
<1>21. CASE JapiDestroy
  BY <1>0, <1>21 DEF JapiDestroy, MainInv, ServiceInv
<1>22. CASE StartServer \/ ServerFails \/ Shutdown \/ SeeShutdown
  BY <1>1, <1>22 DEF StartServer, ServerFails, Shutdown, SeeShutdown
<1>23. CASE UNCHANGED vars
  BY <1>1, <1>23
<1> QED
  BY <1>3, <1>4, <1>5, <1>6, <1>7, <1>8, <1>9, <1>11, <1>12, <1>13, <1>14, <1>15, <1>16, <1>17,
     <1>18, <1>19, <1>20, <1>21, <1>22, <1>23 DEF Next, Finish, Operation

\* Threads keep their services while nobody starts or stops them.
LEMMA ThreadsKept ==
  ASSUME ThreadInv, UNCHANGED <<thread_id, enabled, arg>>,
         pc = "join" => pc' = "join",
         \A s \in Services : heap[s] = "live" => heap'[s] = "live",
         \A t \in Threads : at'[t] \notin {"unborn", "joined"} =>
            at[t] \notin {"unborn", "joined"} /\ (Running(t)' => Running(t) /\ psc'[t] = psc[t])
  PROVE  ThreadInv'
<1> SUFFICES ASSUME NEW t \in Threads, at'[t] \notin {"unborn", "joined"}
             PROVE  Owned(t)'
  BY DEF ThreadInv
<1> PICK s \in Services : /\ heap[s] = "live" /\ thread_id[s] = t
                          /\ enabled[s] \/ (pc = "join" /\ arg = s)
                          /\ Running(t) => psc[t] = s
  BY DEF ThreadInv, Owned
<1>1. /\ heap'[s] = "live" /\ thread_id'[s] = t
      /\ enabled'[s] \/ (pc' = "join" /\ arg' = s)
      /\ Running(t)' => psc'[t] = s
  OBVIOUS
<1> QED
  BY <1>1 DEF Owned

LEMMA ThreadStep ==
  ASSUME IInv, ~StartTwice, [Next]_vars
  PROVE  ThreadInv'
<1> USE DEF service, lists, threads, main, server, vars, Stopping, Destroying
<1>0. TypeOK /\ MainInv /\ ServiceInv /\ ThreadInv
  BY DEF IInv
<1>1. ASSUME UNCHANGED <<threads, heap, thread_id, enabled, arg, pc>> PROVE ThreadInv'
  BY <1>0, <1>1, ThreadsKept DEF Running
<1>2. ASSUME UNCHANGED <<threads, heap, thread_id, enabled>>, pc # "join" PROVE ThreadInv'
  <2> SUFFICES ASSUME NEW t \in Threads, at'[t] \notin {"unborn", "joined"}
               PROVE  Owned(t)'
    BY DEF ThreadInv
  <2> PICK s \in Services : /\ heap[s] = "live" /\ thread_id[s] = t /\ enabled[s]
                            /\ Running(t) => psc[t] = s
    BY <1>0, <1>2 DEF ThreadInv, Owned
  <2> QED
    BY <1>2 DEF Owned, Running
<1>3. ASSUME NEW t \in Threads, Work(t) \/ Leave(t) PROVE ThreadInv'
  <2>1. UNCHANGED <<service, main>>
    BY <1>3, ThreadFrame
  <2>2. \A u \in Threads : u # t => at'[u] = at[u] /\ psc'[u] = psc[u]
    BY <1>0, <1>3 DEF Work, Loop, Leave, Check, Lock, Visit, Write, Unlock, Goes, Ends, TypeOK
  <2>3. /\ at[t] \notin {"unborn", "joined"}
        /\ at'[t] # "ended" => Running(t) /\ psc'[t] = psc[t]
    BY <1>0, <1>3 DEF Work, Loop, Leave, Check, Lock, Visit, Write, Unlock, Goes, Ends, Running, TypeOK
  <2> QED
    BY <1>0, <2>1, <2>2, <2>3, ThreadsKept DEF Running
<1>4. CASE Join
  <2> SUFFICES ASSUME NEW t \in Threads, at'[t] \notin {"unborn", "joined"}
               PROVE  Owned(t)'
    BY DEF ThreadInv
  <2>1. at[t] = at'[t] /\ t # thread_id[arg]
    BY <1>0, <1>4 DEF Join, TypeOK
  <2> PICK s \in Services : /\ heap[s] = "live" /\ thread_id[s] = t
                            /\ enabled[s] \/ (pc = "join" /\ arg = s)
                            /\ Running(t) => psc[t] = s
    BY <1>0, <2>1 DEF ThreadInv, Owned
  <2>2. enabled[s]
    BY <2>1
  <2> QED
    BY <1>4, <2>1, <2>2 DEF Join, Owned, Running
<1>5. CASE Stopped \/ FreeContext \/ DestroyLock \/ DestroyDrop
  BY <1>2, <1>5 DEF Stopped, FreeContext, DestroyLock, DestroyDrop
<1>6. ASSUME NEW s \in Services, enabled' = [enabled EXCEPT ![s] = FALSE], arg' = s,
             pc' = IF enabled[s] THEN "join" ELSE "joined", pc # "join",
             UNCHANGED <<threads, heap, thread_id>>
      PROVE  ThreadInv'
  <2> SUFFICES ASSUME NEW t \in Threads, at'[t] \notin {"unborn", "joined"}
               PROVE  Owned(t)'
    BY DEF ThreadInv
  <2> PICK u \in Services : /\ heap[u] = "live" /\ thread_id[u] = t /\ enabled[u]
                            /\ Running(t) => psc[t] = u
    BY <1>0, <1>6 DEF ThreadInv, Owned
  <2>1. enabled'[u] \/ (pc' = "join" /\ arg' = u)
    BY <1>0, <1>6 DEF TypeOK
  <2> QED
    BY <1>6, <2>1 DEF Owned, Running
<1>7. CASE DestroyStop
  <2> PICK s \in Services : s = arg
    BY <1>0, <1>7 DEF DestroyStop, MainInv, TypeOK
  <2> QED
    BY <1>6, <1>7 DEF DestroyStop, StopThread
<1>8. CASE DestroyFree
  <2> SUFFICES ASSUME NEW t \in Threads, at'[t] \notin {"unborn", "joined"}
               PROVE  Owned(t)'
    BY DEF ThreadInv
  <2>1. arg \in Services /\ ~enabled[arg] /\ pc = "joined"
    BY <1>0, <1>8 DEF DestroyFree, MainInv, TypeOK
  <2> PICK u \in Services : /\ heap[u] = "live" /\ thread_id[u] = t /\ enabled[u]
                            /\ Running(t) => psc[t] = u
    BY <1>0, <1>8, <2>1 DEF ThreadInv, Owned, DestroyFree
  <2>2. heap'[u] = "live" /\ thread_id'[u] = t /\ enabled'[u]
    BY <1>0, <1>8, <2>1 DEF DestroyFree, TypeOK
  <2> QED
    BY <1>8, <2>2 DEF DestroyFree, Owned, Running
<1>9. CASE DestroyNext
  BY <1>2, <1>9 DEF DestroyNext
<1>10. CASE BindFails \/ Bind \/ NoAddress \/ Listen \/ ServerReturns
  BY <1>2, <1>10 DEF BindFails, Bind, NoAddress, Listen, ServerReturns
<1>11. ASSUME NEW s \in Services, NEW n \in Nodes, Disconnect(s, n) \/ Subscribe(s, n)
       PROVE  ThreadInv'
  BY <1>1, <1>11 DEF Disconnect, Subscribe
<1>12. ASSUME NEW s \in Services, NEW n \in Names, Register(s, n) PROVE ThreadInv'
  <2>1. \A u \in Services : heap[u] = "live" => heap'[u] = "live"
    BY <1>0, <1>12 DEF Register, TypeOK
  <2> QED
    BY <1>0, <1>12, <2>1, ThreadsKept DEF Register, Running
<1>13. ASSUME NEW s \in Services, NEW v \in Threads, Start(s, v) PROVE ThreadInv'
  <2> SUFFICES ASSUME NEW t \in Threads, at'[t] \notin {"unborn", "joined"}
               PROVE  Owned(t)'
    BY DEF ThreadInv
  <2>1. ~enabled[s] /\ heap[s] = "live" /\ pc # "join"
    BY <1>13 DEF Start, Free
  <2>2. CASE t = v
    <3>1. heap'[s] = "live" /\ thread_id'[s] = t /\ enabled'[s] /\ psc'[t] = s
      BY <1>0, <1>13, <2>1, <2>2 DEF Start, TypeOK
    <3> QED
      BY <3>1 DEF Owned
  <2>3. CASE t # v
    <3>1. at'[t] = at[t] /\ psc'[t] = psc[t]
      BY <1>0, <1>13, <2>3 DEF Start, TypeOK
    <3> PICK u \in Services : /\ heap[u] = "live" /\ thread_id[u] = t /\ enabled[u]
                              /\ Running(t) => psc[t] = u
      BY <1>0, <2>1, <3>1 DEF ThreadInv, Owned
    <3>2. heap'[u] = "live" /\ thread_id'[u] = t /\ enabled'[u]
      BY <1>0, <1>13, <2>1 DEF Start, TypeOK
    <3> QED
      BY <3>1, <3>2 DEF Owned, Running
  <2> QED
    BY <2>2, <2>3
<1>14. ASSUME NEW s \in Services, StartFails(s) PROVE ThreadInv'
  <2> SUFFICES ASSUME NEW t \in Threads, at'[t] \notin {"unborn", "joined"}
               PROVE  Owned(t)'
    BY DEF ThreadInv
  <2>1. ~enabled[s] /\ pc # "join"
    BY <1>14 DEF StartFails, Free
  <2> PICK u \in Services : /\ heap[u] = "live" /\ thread_id[u] = t /\ enabled[u]
                            /\ Running(t) => psc[t] = u
    BY <1>0, <1>14, <2>1 DEF ThreadInv, Owned, StartFails
  <2>2. heap'[u] = "live" /\ thread_id'[u] = t /\ enabled'[u]
    BY <1>0, <1>14, <2>1 DEF StartFails, TypeOK
  <2> QED
    BY <1>14, <2>2 DEF StartFails, Owned, Running
<1>15. ASSUME NEW s \in Services, Stop(s) PROVE ThreadInv'
  BY <1>6, <1>15 DEF Stop, StopThread, Free
<1>16. ASSUME NEW s \in Services, Destroy(s) PROVE ThreadInv'
  BY <1>2, <1>16 DEF Destroy, Free
<1>17. CASE JapiDestroy \/ StartServer \/ ServerFails \/ Shutdown \/ SeeShutdown
  BY <1>1, <1>2, <1>17 DEF JapiDestroy, StartServer, ServerFails, Shutdown, SeeShutdown
<1>18. CASE UNCHANGED vars
  BY <1>1, <1>18
<1> QED
  BY <1>3, <1>4, <1>5, <1>7, <1>8, <1>9, <1>10, <1>11, <1>12, <1>13, <1>14, <1>15, <1>16, <1>17,
     <1>18 DEF Next, Finish, Operation

\* A thread in its critical section has a service.
LEMMA InPassFacts ==
  ASSUME IInv, NEW t \in Threads, Running(t)
  PROVE  /\ psc[t] \in Services /\ heap[psc[t]] = "live"
         /\ at[t] \in {"visit", "write"} => lock[psc[t]] = t
  BY DEF IInv, ThreadInv, Owned, Running, LockInv

LEMMA LockStep ==
  ASSUME IInv, [Next]_vars
  PROVE  LockInv'
<1> USE DEF service, lists, threads, main, server, vars, Stopping, Destroying
<1>0. TypeOK /\ MainInv /\ LockInv
  BY DEF IInv
<1>1. ASSUME UNCHANGED <<lock, arg>>, pc' = "drop" <=> pc = "drop",
             \A t \in Threads :
               /\ at'[t] \in {"visit", "write"} <=> at[t] \in {"visit", "write"}
               /\ at[t] \in {"visit", "write"} => psc'[t] = psc[t]
      PROVE  LockInv'
  BY <1>0, <1>1 DEF LockInv
<1>2. ASSUME UNCHANGED <<lock, threads>>, pc # "drop" /\ pc' # "drop" PROVE LockInv'
  BY <1>0, <1>2 DEF LockInv
<1>3. ASSUME NEW t \in Threads, Loop(t) \/ Leave(t) \/ Check(t) \/ Visit(t) \/ Write(t)
      PROVE  LockInv'
  BY <1>0, <1>1, <1>3 DEF Loop, Leave, Check, Visit, Write, Goes, Ends, TypeOK
<1>4. ASSUME NEW t \in Threads, Lock(t) PROVE LockInv'
  <2> PICK s \in Services : s = psc[t]
    BY <1>4, InPassFacts DEF Lock, Running
  <2>1. \A u \in Services : lock'[u] = IF u = s THEN t ELSE lock[u]
    BY <1>0, <1>4 DEF Lock, TypeOK
  <2>2. \A v \in Threads : at'[v] = IF v = t THEN "visit" ELSE at[v]
    BY <1>0, <1>4 DEF Lock, Goes, TypeOK
  <2>3. lock[s] = NULL /\ UNCHANGED <<psc, main>>
    BY <1>4 DEF Lock
  <2>4. \A v \in Threads : v # NULL /\ v # Main
    BY ConstantsAssumption
  <2>5. \A v \in Threads : at[v] \in {"visit", "write"} => psc[v] \in Services
    BY InPassFacts DEF Running
  <2>6. Main # NULL
    BY ConstantsAssumption
  <2>7. pc = "drop" => arg \in Services
    BY <1>0 DEF MainInv, TypeOK
  <2> QED
    BY <1>0, <2>1, <2>2, <2>3, <2>4, <2>5, <2>6, <2>7 DEF LockInv
<1>5. ASSUME NEW t \in Threads, Unlock(t) PROVE LockInv'
  <2> PICK s \in Services : s = psc[t]
    BY <1>5, InPassFacts DEF Unlock, Running
  <2>1. \A u \in Services : lock'[u] = IF u = s THEN NULL ELSE lock[u]
    BY <1>0, <1>5 DEF Unlock, TypeOK
  <2>2. \A v \in Threads : at'[v] = IF v = t THEN "loop" ELSE at[v]
    BY <1>0, <1>5 DEF Unlock, Goes, TypeOK
  <2>3. lock[s] = t /\ UNCHANGED <<psc, main>> /\ at[t] = "visit"
    BY <1>0, <1>5 DEF Unlock, LockInv
  <2>4. \A v \in Threads : v # NULL /\ v # Main
    BY ConstantsAssumption
  <2>5. \A v \in Threads : at[v] \in {"visit", "write"} => psc[v] \in Services
    BY InPassFacts DEF Running
  <2>6. Main # NULL
    BY ConstantsAssumption
  <2>7. pc = "drop" => arg \in Services
    BY <1>0 DEF MainInv, TypeOK
  <2> QED
    BY <1>0, <2>1, <2>2, <2>3, <2>4, <2>5, <2>6, <2>7 DEF LockInv
<1>6. CASE Join
  BY <1>0, <1>6 DEF Join, LockInv, TypeOK
<1>7. CASE Stopped
  BY <1>0, <1>2, <1>7 DEF Stopped, MainInv
<1>8. CASE DestroyLock
  <2> PICK s \in Services : s = arg
    BY <1>0, <1>8 DEF DestroyLock, MainInv, TypeOK
  <2>1. \A u \in Services : lock'[u] = IF u = s THEN Main ELSE lock[u]
    BY <1>0, <1>8 DEF DestroyLock, TypeOK
  <2>2. lock[s] = NULL /\ UNCHANGED <<threads, arg>> /\ pc = "lock" /\ pc' = "drop"
    BY <1>8 DEF DestroyLock
  <2>3. \A v \in Threads : v # NULL /\ v # Main
    BY ConstantsAssumption
  <2>4. \A v \in Threads : at[v] \in {"visit", "write"} => psc[v] \in Services
    BY InPassFacts DEF Running
  <2> QED
    BY <1>0, <2>1, <2>2, <2>3, <2>4 DEF LockInv
<1>9. CASE DestroyStop
  <2> PICK s \in Services : s = arg
    BY <1>0, <1>9 DEF DestroyStop, MainInv, TypeOK
  <2>1. \A u \in Services : lock'[u] = IF u = s THEN NULL ELSE lock[u]
    BY <1>0, <1>9 DEF DestroyStop, TypeOK
  <2>2. lock[s] = Main /\ UNCHANGED threads /\ pc' # "drop"
    BY <1>0, <1>9 DEF DestroyStop, StopThread, LockInv
  <2>3. \A v \in Threads : v # NULL /\ v # Main
    BY ConstantsAssumption
  <2>4. \A v \in Threads : at[v] \in {"visit", "write"} => psc[v] \in Services
    BY InPassFacts DEF Running
  <2>5. Main # NULL
    BY ConstantsAssumption
  <2> QED
    BY <1>0, <1>9, <2>1, <2>2, <2>3, <2>4, <2>5 DEF LockInv, DestroyStop
<1>10. CASE DestroyDrop
  BY <1>1, <1>10 DEF DestroyDrop
<1>11. CASE DestroyFree
  BY <1>0, <1>2, <1>11 DEF DestroyFree, MainInv
<1>12. CASE DestroyNext
  BY <1>2, <1>12 DEF DestroyNext, BeginDestroy
<1>13. CASE FreeContext \/ BindFails \/ Bind \/ NoAddress \/ Listen \/ ServerReturns
  BY <1>2, <1>13 DEF FreeContext, BindFails, Bind, NoAddress, Listen, ServerReturns
<1>14. ASSUME NEW s \in Services, NEW n \in Nodes, Disconnect(s, n) \/ Subscribe(s, n)
       PROVE  LockInv'
  BY <1>1, <1>14 DEF Disconnect, Subscribe
<1>15. ASSUME NEW s \in Services, NEW n \in Names, Register(s, n) PROVE LockInv'
  BY <1>1, <1>15 DEF Register
<1>16. ASSUME NEW s \in Services, NEW t \in Threads, Start(s, t) PROVE LockInv'
  <2>1. \A v \in Threads : at'[v] = IF v = t THEN "loop" ELSE at[v]
    BY <1>0, <1>16 DEF Start, TypeOK
  <2>2. \A v \in Threads : v # t => psc'[v] = psc[v]
    BY <1>0, <1>16 DEF Start, TypeOK
  <2> QED
    BY <1>1, <1>16, <2>1, <2>2 DEF Start
<1>17. ASSUME NEW s \in Services, StartFails(s) PROVE LockInv'
  BY <1>1, <1>17 DEF StartFails
<1>18. ASSUME NEW s \in Services, Stop(s) \/ Destroy(s) PROVE LockInv'
  BY <1>2, <1>18 DEF Stop, StopThread, Destroy, BeginDestroy, Free
<1>19. CASE JapiDestroy \/ StartServer \/ ServerFails \/ SeeShutdown
  BY <1>2, <1>19 DEF JapiDestroy, StartServer, ServerFails, SeeShutdown
<1>20. CASE Shutdown \/ UNCHANGED vars
  BY <1>1, <1>20 DEF Shutdown
<1> QED
  BY <1>3, <1>4, <1>5, <1>6, <1>7, <1>8, <1>9, <1>10, <1>11, <1>12, <1>13, <1>14, <1>15, <1>16,
     <1>17, <1>18, <1>19, <1>20 DEF Next, Finish, Operation, Work

LEMMA PassStep ==
  ASSUME IInv, [Next]_vars
  PROVE  PassInv'
<1> USE DEF service, lists, threads, main, server, vars, Stopping, Destroying
<1>0. TypeOK /\ PassInv /\ LockInv
  BY DEF IInv
<1>1. ASSUME UNCHANGED <<threads, subs>> PROVE PassInv'
  BY <1>0, <1>1 DEF PassInv, Listed
\* Lists change under the lock.
<1>2. ASSUME NEW s \in Services, UNCHANGED threads, lock[s] \notin Threads,
             \A u \in Services : u # s => subs'[u] = subs[u]
      PROVE  PassInv'
  <2> SUFFICES ASSUME NEW t \in Threads, at[t] \in {"visit", "write"}
               PROVE  subs'[psc[t]] = subs[psc[t]]
    BY <1>0, <1>2 DEF PassInv, Listed
  <2>1. psc[t] \in Services /\ lock[psc[t]] = t
    BY InPassFacts DEF Running
  <2> QED
    BY <1>2, <2>1
\* A thread moves on, the others stay.
<1>3. ASSUME NEW t \in Threads, UNCHANGED subs,
             \A v \in Threads : v # t => at'[v] = at[v] /\ psc'[v] = psc[v] /\ cur'[v] = cur[v] /\ nxt'[v] = nxt[v],
             at'[t] = "visit" => cur'[t] \in Listed(psc'[t]) \cup {NULL},
             at'[t] = "write" => /\ cur'[t] \in Listed(psc'[t])
                                 /\ nxt'[t] \in (Listed(psc'[t]) \ {cur'[t]}) \cup {NULL}
      PROVE  PassInv'
  BY <1>0, <1>3 DEF PassInv, Listed
<1>4. ASSUME NEW t \in Threads, Loop(t) \/ Leave(t) \/ Check(t) \/ Unlock(t)
      PROVE  PassInv'
  <2>1. \A v \in Threads : v # t => at'[v] = at[v] /\ psc'[v] = psc[v]
    BY <1>0, <1>4 DEF Loop, Leave, Check, Unlock, Goes, Ends, TypeOK
  <2>2. UNCHANGED <<subs, cur, nxt>> /\ at'[t] \notin {"visit", "write"}
    BY <1>0, <1>4 DEF Loop, Leave, Check, Unlock, Goes, Ends, TypeOK
  <2> QED
    BY <1>3, <2>1, <2>2
<1>5. ASSUME NEW t \in Threads, Lock(t) PROVE PassInv'
  <2> PICK s \in Services : s = psc[t]
    BY <1>5, InPassFacts DEF Lock, Running
  <2>1. First(s) \in Listed(s) \cup {NULL}
    BY <1>0, FollowingFacts
  <2>2. at'[t] = "visit" /\ cur'[t] = First(s) /\ psc'[t] = s
    BY <1>0, <1>5 DEF Lock, Goes, TypeOK
  <2>3. \A v \in Threads : v # t => at'[v] = at[v] /\ psc'[v] = psc[v] /\ cur'[v] = cur[v] /\ nxt'[v] = nxt[v]
    BY <1>0, <1>5 DEF Lock, Goes, TypeOK
  <2> QED
    BY <1>3, <1>5, <2>1, <2>2, <2>3 DEF Lock
<1>6. ASSUME NEW t \in Threads, Visit(t) PROVE PassInv'
  <2> PICK s \in Services : s = psc[t]
    BY <1>6, InPassFacts DEF Visit, Running
  <2>1. cur[t] \in Listed(s) /\ Following(s, cur[t]) \in (Listed(s) \ {cur[t]}) \cup {NULL}
    BY <1>0, <1>6, FollowingFacts DEF PassInv, Visit
  <2>2. at'[t] = "write" /\ cur'[t] = cur[t] /\ nxt'[t] = Following(s, cur[t]) /\ psc'[t] = s
    BY <1>0, <1>6 DEF Visit, Goes, TypeOK
  <2>3. \A v \in Threads : v # t => at'[v] = at[v] /\ psc'[v] = psc[v] /\ cur'[v] = cur[v] /\ nxt'[v] = nxt[v]
    BY <1>0, <1>6 DEF Visit, Goes, TypeOK
  <2> QED
    BY <1>3, <1>6, <2>1, <2>2, <2>3 DEF Visit
<1>7. ASSUME NEW t \in Threads, Write(t) PROVE PassInv'
  <2> PICK s \in Services : s = psc[t] /\ lock[s] = t
    BY <1>7, InPassFacts DEF Write, Running
  <2>1. cur[t] \in Listed(s) /\ nxt[t] \in (Listed(s) \ {cur[t]}) \cup {NULL}
    BY <1>0, <1>7 DEF PassInv, Write
  <2>2. at'[t] = "visit" /\ cur'[t] = nxt[t] /\ psc'[t] = s
    BY <1>0, <1>7 DEF Write, Goes, TypeOK
  <2>3. \A v \in Threads : v # t => at'[v] = at[v] /\ psc'[v] = psc[v] /\ cur'[v] = cur[v] /\ nxt'[v] = nxt[v]
    BY <1>0, <1>7 DEF Write, Goes, TypeOK
  <2>4. /\ Listed(s) \ {cur[t]} \subseteq ToSet(subs'[s])
        /\ \A u \in Services : u # s => subs'[u] = subs[u]
    BY <1>0, <1>7, RemoveClientFacts DEF Write, Listed
  <2>5. nxt[t] \in ToSet(subs'[s]) \cup {NULL}
    BY <2>1, <2>4
  <2>6. ASSUME NEW v \in Threads, v # t, at[v] \in {"visit", "write"}
        PROVE  psc[v] \in Services \ {s}
    <3>1. psc[v] \in Services /\ lock[psc[v]] = v
      BY <2>6, InPassFacts DEF Running
    <3> QED
      BY <2>6, <3>1
  <2> QED
    BY <1>0, <2>2, <2>3, <2>4, <2>5, <2>6 DEF PassInv, Listed
<1>8. CASE Join
  <2>1. \A v \in Threads : at'[v] = at[v] \/ at'[v] = "joined"
    BY <1>0, <1>8 DEF Join, TypeOK
  <2>2. UNCHANGED <<subs, psc, cur, nxt>>
    BY <1>8 DEF Join
  <2> QED
    BY <1>0, <2>1, <2>2 DEF PassInv, Listed
<1>9. CASE Stopped \/ DestroyLock \/ DestroyStop \/ DestroyFree \/ FreeContext
  BY <1>1, <1>9 DEF Stopped, DestroyLock, DestroyStop, DestroyFree, FreeContext
<1>10. CASE DestroyDrop
  <2> PICK s \in Services : s = arg /\ lock[s] = Main
    BY <1>0, <1>10 DEF DestroyDrop, IInv, MainInv, TypeOK, LockInv
  <2>1. \A u \in Services : u # s => subs'[u] = subs[u]
    BY <1>0, <1>10, RemoveClientFacts DEF DestroyDrop
  <2> QED
    BY <1>2, <1>10, <2>1, ConstantsAssumption DEF DestroyDrop
<1>11. CASE DestroyNext
  BY <1>1, <1>11 DEF DestroyNext
<1>12. CASE BindFails \/ Bind \/ NoAddress \/ Listen \/ ServerReturns
  BY <1>1, <1>12 DEF BindFails, Bind, NoAddress, Listen, ServerReturns
<1>13. ASSUME NEW s \in Services, NEW n \in Nodes, Disconnect(s, n) \/ Subscribe(s, n)
       PROVE  PassInv'
  <2>1. \A u \in Services : u # s => subs'[u] = subs[u]
    BY <1>0, <1>13, RemoveClientFacts, SubscribeFacts DEF Disconnect
  <2>2. lock[s] \notin Threads /\ UNCHANGED threads
    BY <1>13, ConstantsAssumption DEF Disconnect, Subscribe
  <2> QED
    BY <1>2, <2>1, <2>2
<1>14. ASSUME NEW s \in Services, NEW n \in Names, Register(s, n) PROVE PassInv'
  BY <1>1, <1>14 DEF Register
<1>15. ASSUME NEW s \in Services, NEW t \in Threads, Start(s, t) PROVE PassInv'
  <2>1. \A v \in Threads : v # t => at'[v] = at[v] /\ psc'[v] = psc[v]
    BY <1>0, <1>15 DEF Start, TypeOK
  <2>2. UNCHANGED <<subs, cur, nxt>> /\ at'[t] = "loop"
    BY <1>0, <1>15 DEF Start, TypeOK
  <2> QED
    BY <1>3, <2>1, <2>2
<1>16. ASSUME NEW s \in Services, StartFails(s) \/ Stop(s) \/ Destroy(s) PROVE PassInv'
  BY <1>1, <1>16 DEF StartFails, Stop, Destroy
<1>17. CASE JapiDestroy \/ StartServer \/ ServerFails \/ Shutdown \/ SeeShutdown
  BY <1>1, <1>17 DEF JapiDestroy, StartServer, ServerFails, Shutdown, SeeShutdown
<1>18. CASE UNCHANGED vars
  BY <1>1, <1>18
<1> QED
  BY <1>4, <1>5, <1>6, <1>7, <1>8, <1>9, <1>10, <1>11, <1>12, <1>13, <1>14, <1>15, <1>16, <1>17,
     <1>18 DEF Next, Finish, Operation, Work

\* What is behind the head comes first when the head is gone.
LEMMA FollowingHead ==
  ASSUME TypeOK, NEW s \in Services, subs[s] # <<>>
  PROVE  Following(s, Head(subs[s])) =
           IF Tail(subs[s]) = <<>> THEN NULL ELSE Head(Tail(subs[s]))
<1> DEFINE q == subs[s]
           behind == {i \in 2 .. Len(q) : q[i - 1] = Head(q)}
<1>1. q \in Seq(Nodes) /\ IsInjective(q) /\ q # <<>>
  BY DEF TypeOK
<1>2. Following(s, Head(q)) = IF behind = {} THEN NULL ELSE q[CHOOSE i \in behind : TRUE]
  BY DEF Following
<1> HIDE DEF q
<1>3. Len(q) \in Nat /\ Len(q) >= 1 /\ DOMAIN q = 1 .. Len(q) /\ Head(q) = q[1]
  BY <1>1
<1>4. \A i \in behind : i = 2 /\ 2 <= Len(q)
  <2> SUFFICES ASSUME NEW i \in 2 .. Len(q), q[i - 1] = q[1] PROVE i = 2
    BY <1>3
  <2>1. i - 1 \in DOMAIN q /\ 1 \in DOMAIN q
    BY <1>3
  <2>2. i - 1 = 1
    BY <1>1, <2>1 DEF IsInjective
  <2> QED
    BY <2>2
<1> DEFINE r == Tail(q)
<1>r. /\ r \in Seq(Nodes) /\ Len(r) = Len(q) - 1
      /\ \A k \in 1 .. Len(q) - 1 : r[k] = q[k + 1]
  BY <1>1
<1> HIDE DEF r
<1>s. r = <<>> <=> Len(q) = 1
  BY <1>3, <1>r
<1>5. CASE Len(q) = 1
  <2>1. r = <<>> /\ behind = {}
    BY <1>3, <1>4, <1>5, <1>s
  <2> QED
    BY <1>2, <2>1 DEF q, r
<1>6. CASE Len(q) >= 2
  <2>1. 2 \in behind
    BY <1>3, <1>6
  <2>2. (CHOOSE i \in behind : TRUE) = 2
    <3> HIDE DEF behind
    <3> QED
      BY <1>4, <2>1
  <2>3. r # <<>> /\ Head(r) = q[2]
    BY <1>3, <1>6, <1>r, <1>s
  <2> HIDE DEF behind
  <2> QED
    BY <1>2, <2>1, <2>2, <2>3 DEF q, r
<1> QED
  <2>1. Len(q) = 1 \/ Len(q) >= 2
    BY <1>3
  <2> HIDE DEF behind
  <2> QED
    BY <1>5, <1>6, <2>1

LEMMA DestroyStep ==
  ASSUME IInv, ~DestroyBusy, [Next]_vars
  PROVE  DestroyInv'
<1> USE DEF service, lists, threads, main, server, vars, Stopping, Destroying
<1>0. TypeOK /\ MainInv /\ ServiceInv /\ PassInv /\ DestroyInv
  BY DEF IInv
\* No step but a start gives a service a thread.
<1>1. ASSUME \A t \in Threads : Running(t)' => Running(t) /\ psc'[t] = psc[t],
             NEW s \in Services, Quiet(s), subs[s] = <<>> => subs'[s] = <<>>
      PROVE  Quiet(s)'
  BY <1>1 DEF Quiet, Takers
<1>2. ASSUME UNCHANGED <<arg, client, job>>,
             pc' \in Destroying => pc \in Destroying, pc' \in Stopping => pc \in Stopping,
             \A t \in Threads : Running(t)' => Running(t) /\ psc'[t] = psc[t],
             \A s \in Services : Quiet(s) => subs'[s] = subs[s]
      PROVE  DestroyInv'
  <2>1. \A s \in Services : Quiet(s) => Quiet(s)'
    BY <1>1, <1>2
  <2>2. pc \in Stopping \cup Destroying => arg \in Services
    BY <1>0 DEF MainInv, TypeOK
  <2>3. ASSUME pc' \in Destroying PROVE Quiet(arg)' /\ client' = First(arg)'
    BY <1>0, <1>2, <2>1, <2>2, <2>3 DEF DestroyInv, First
  <2>4. ASSUME pc' \in Stopping, job' # "stop" PROVE subs'[arg'] = <<>>
    <3>1. subs[arg] = <<>> /\ arg \in Services
      BY <1>0, <1>2, <2>2, <2>4 DEF DestroyInv
    <3> QED
      BY <1>2, <3>1 DEF Quiet
  <2>5. ASSUME job' = "destroy all" PROVE \A s \in Services : Quiet(s)'
    BY <1>0, <1>2, <2>1, <2>5 DEF DestroyInv
  <2> QED
    BY <2>3, <2>4, <2>5 DEF DestroyInv
<1>3. ASSUME pc' \notin Stopping \cup Destroying, job' # "destroy all" PROVE DestroyInv'
  BY <1>3 DEF DestroyInv
<1>4. ASSUME UNCHANGED <<threads, subs>>, NEW s \in Services, Quiet(s), BeginDestroy(s),
             job' = "destroy all" => job = "destroy all"
      PROVE  DestroyInv'
  <2>1. pc' = "lock" /\ arg' = s /\ client' = First(s)
    BY <1>4 DEF BeginDestroy
  <2>2. \A u \in Services : Quiet(u)' <=> Quiet(u)
    BY <1>4 DEF Quiet, Takers, Running
  <2>3. First(s)' = First(s)
    BY <1>4 DEF First
  <2> QED
    BY <1>0, <1>4, <2>1, <2>2, <2>3 DEF DestroyInv
<1>5. ASSUME NEW t \in Threads, Work(t) \/ Leave(t) PROVE DestroyInv'
  <2>1. UNCHANGED main
    BY <1>5, ThreadFrame
  <2>2. \A v \in Threads : Running(v)' => Running(v) /\ psc'[v] = psc[v]
    BY <1>0, <1>5 DEF Work, Loop, Leave, Check, Lock, Visit, Write, Unlock, Goes, Ends, Running, TypeOK
  <2>3. ASSUME NEW s \in Services, Quiet(s) PROVE subs'[s] = subs[s]
    <3>1. CASE Write(t)
      <4> PICK u \in Services : u = psc[t]
        BY <3>1, InPassFacts DEF Write, Running
      <4>1. t \in Takers(u) /\ cur[t] \in Listed(u)
        BY <1>0, <3>1 DEF Write, Takers, Running, PassInv
      <4>2. ~Quiet(u)
        BY <1>0, <4>1, FollowingFacts DEF Quiet
      <4>3. u # s
        BY <2>3, <4>2
      <4> QED
        BY <1>0, <3>1, <4>3, RemoveClientFacts DEF Write
    <3>2. CASE ~Write(t)
      BY <1>5, <3>2 DEF Work, Loop, Leave, Check, Lock, Visit, Unlock
    <3> QED
      BY <3>1, <3>2
  <2> QED
    BY <1>2, <2>1, <2>2, <2>3
<1>6. CASE Join
  <2>1. \A v \in Threads : at'[v] = at[v] \/ at'[v] = "joined"
    BY <1>0, <1>6 DEF Join, TypeOK
  <2> QED
    BY <1>2, <1>6, <2>1 DEF Join, Running
<1>7. CASE DestroyLock \/ FreeContext
  BY <1>2, <1>7 DEF DestroyLock, FreeContext, Running
<1>8. CASE DestroyDrop
  <2> PICK s \in Services : s = arg
    BY <1>0, <1>8 DEF DestroyDrop, MainInv, TypeOK
  <2>1. Quiet(s) /\ client = First(s) /\ client # NULL
    BY <1>0, <1>8 DEF DestroyDrop, DestroyInv
  <2>2. subs[s] # <<>> /\ client = Head(subs[s])
    BY <2>1 DEF First
  <2>3. Takers(s) = {}
    BY <2>1, <2>2 DEF Quiet
  <2>4. subs'[s] = Tail(subs[s]) /\ \A u \in Services : u # s => subs'[u] = subs[u]
    <3>1. subs[s] \in Seq(Nodes) /\ IsInjective(subs[s])
      BY <1>0 DEF TypeOK
    <3> QED
      BY <1>0, <1>8, <2>2, <3>1, RemoveHead, RemoveClientFacts DEF DestroyDrop, RemoveClient, TypeOK
  <2>5. client' = First(s)'
    BY <1>0, <1>8, <2>2, <2>4, FollowingHead DEF DestroyDrop, First
  <2>6. UNCHANGED <<threads, arg, pc, job>>
    BY <1>8 DEF DestroyDrop
  <2>7. \A u \in Services : Quiet(u) => Quiet(u)'
    <3> SUFFICES ASSUME NEW u \in Services, Quiet(u) PROVE Quiet(u)'
      OBVIOUS
    <3>1. Takers(u)' = Takers(u)
      BY <2>6 DEF Takers, Running
    <3> QED
      BY <2>3, <2>4, <3>1 DEF Quiet
  <2> QED
    BY <1>0, <1>8, <2>1, <2>5, <2>6, <2>7 DEF DestroyDrop, DestroyInv
<1>9. CASE DestroyStop
  <2> PICK s \in Services : s = arg
    BY <1>0, <1>9 DEF DestroyStop, MainInv, TypeOK
  <2>1. subs[s] = <<>>
    BY <1>0, <1>9, FollowingFacts DEF DestroyStop, DestroyInv
  <2>2. \A u \in Services : Quiet(u) => Quiet(u)'
    BY <1>9 DEF DestroyStop, Quiet, Takers, Running
  <2>3. pc' \in Stopping /\ arg' = s /\ subs' = subs /\ job' = job
    BY <1>9 DEF DestroyStop, StopThread
  <2> QED
    BY <1>0, <2>1, <2>2, <2>3 DEF DestroyInv
<1>10. CASE DestroyFree
  <2>1. pc' \notin Stopping \cup Destroying
    BY <1>0, <1>10 DEF DestroyFree, MainInv
  <2>2. \A u \in Services : Quiet(u) => Quiet(u)'
    BY <1>10 DEF DestroyFree, Quiet, Takers, Running
  <2>3. job' = "destroy all" => job = "destroy all"
    BY <1>10 DEF DestroyFree
  <2> QED
    BY <1>0, <2>1, <2>2, <2>3 DEF DestroyInv
<1>11. CASE DestroyNext
  <2> PICK s \in Services : s = Head(services)
    BY <1>0, <1>11 DEF DestroyNext, TypeOK
  <2>1. Quiet(s)
    BY <1>0, <1>11 DEF DestroyNext, MainInv, DestroyInv
  <2> QED
    BY <1>4, <1>11, <2>1 DEF DestroyNext
<1>12. ASSUME NEW s \in Services, Destroy(s) PROVE DestroyInv'
  BY <1>4, <1>12 DEF Destroy
<1>13. CASE JapiDestroy
  <2>1. \A s \in Services : Quiet(s)
    BY <1>0, <1>13 DEF JapiDestroy, ServiceInv, Quiet
  <2>2. \A s \in Services : Quiet(s)'
    BY <1>13, <2>1 DEF JapiDestroy, Quiet, Takers, Running
  <2> QED
    BY <1>13, <2>2 DEF JapiDestroy, DestroyInv
<1>14. ASSUME NEW s \in Services, Stop(s) PROVE DestroyInv'
  BY <1>14 DEF Stop, StopThread, DestroyInv
<1>15. CASE Stopped
  BY <1>0, <1>3, <1>15 DEF Stopped, MainInv
<1>16. CASE BindFails \/ Bind \/ NoAddress \/ Listen \/ ServerReturns
  BY <1>2, <1>16 DEF BindFails, Bind, NoAddress, Listen, ServerReturns, Running
<1>17. ASSUME NEW s \in Services, NEW n \in Nodes, Disconnect(s, n) \/ Subscribe(s, n)
       PROVE  DestroyInv'
  BY <1>0, <1>3, <1>17 DEF Disconnect, Subscribe, MainInv
<1>18. ASSUME NEW s \in Services, NEW n \in Names, Register(s, n) PROVE DestroyInv'
  BY <1>2, <1>18 DEF Register, Running
<1>19. ASSUME NEW s \in Services, NEW t \in Threads, Start(s, t) PROVE DestroyInv'
  BY <1>0, <1>3, <1>19 DEF Start, Free, MainInv
<1>20. ASSUME NEW s \in Services, StartFails(s) PROVE DestroyInv'
  BY <1>2, <1>20 DEF StartFails, Running
<1>21. CASE StartServer \/ ServerFails \/ Shutdown \/ SeeShutdown
  BY <1>2, <1>21 DEF StartServer, ServerFails, Shutdown, SeeShutdown, Running
<1>22. CASE UNCHANGED vars
  BY <1>2, <1>22 DEF Running
<1> QED
  BY <1>5, <1>6, <1>7, <1>8, <1>9, <1>10, <1>11, <1>12, <1>13, <1>14, <1>15, <1>16, <1>17, <1>18,
     <1>19, <1>20, <1>21, <1>22 DEF Next, Finish, Operation

LEMMA SocketStep ==
  ASSUME IInv, [Next]_vars
  PROVE  SocketInv'
<1> USE DEF service, lists, threads, main, server, vars, Stopping, Destroying
<1>0. TypeOK /\ MainInv /\ SocketInv
  BY DEF IInv
<1>1. ASSUME UNCHANGED <<sockets, failed>>, Serving' <=> Serving PROVE SocketInv'
  BY <1>0, <1>1 DEF SocketInv
<1>2. ASSUME NEW t \in Threads, Work(t) \/ Leave(t) PROVE SocketInv'
  BY <1>1, <1>2, ThreadFrame DEF Serving
<1>3. CASE Join \/ DestroyLock \/ DestroyDrop \/ FreeContext
  BY <1>1, <1>3 DEF Join, DestroyLock, DestroyDrop, FreeContext, Serving
<1>4. CASE Stopped
  BY <1>0, <1>1, <1>4 DEF Stopped, MainInv, Serving
<1>5. CASE DestroyStop
  BY <1>1, <1>5 DEF DestroyStop, StopThread, Serving
<1>6. CASE DestroyFree
  BY <1>0, <1>1, <1>6 DEF DestroyFree, MainInv, Serving
<1>7. CASE DestroyNext \/ JapiDestroy \/ StartServer \/ Shutdown \/ SeeShutdown
  BY <1>1, <1>7 DEF DestroyNext, BeginDestroy, JapiDestroy, StartServer, Shutdown, SeeShutdown, Serving
<1>8. CASE BindFails \/ NoAddress \/ Listen
  BY <1>1, <1>8 DEF BindFails, NoAddress, Listen, Serving
<1>9. CASE Bind
  <2>1. ~Serving /\ Serving' /\ sockets' = sockets + 1 /\ failed' = failed
    BY <1>0, <1>9, ConstantsAssumption DEF Bind, MainInv, Serving
  <2> QED
    BY <1>0, <2>1 DEF SocketInv, TypeOK
<1>10. CASE ServerReturns
  <2>1. Serving /\ ~Serving' /\ sockets' = sockets - 1 /\ failed' = failed
    BY <1>0, <1>10, ConstantsAssumption DEF ServerReturns, MainInv, Serving
  <2> QED
    BY <1>0, <2>1 DEF SocketInv, TypeOK
<1>11. CASE ServerFails
  <2>1. ~Serving' /\ failed'
    BY <1>0, <1>11, ConstantsAssumption DEF ServerFails, MainInv, Serving
  <2> QED
    BY <2>1 DEF SocketInv
<1>12. ASSUME NEW s \in Services, NEW n \in Nodes, Disconnect(s, n) \/ Subscribe(s, n)
       PROVE  SocketInv'
  BY <1>1, <1>12 DEF Disconnect, Subscribe, Serving
<1>13. ASSUME NEW s \in Services, NEW n \in Names, Register(s, n) PROVE SocketInv'
  BY <1>1, <1>13 DEF Register, Serving
<1>14. ASSUME NEW s \in Services, NEW t \in Threads, Start(s, t) PROVE SocketInv'
  BY <1>1, <1>14 DEF Start, Serving
<1>15. ASSUME NEW s \in Services, StartFails(s) PROVE SocketInv'
  BY <1>1, <1>15 DEF StartFails, Serving
<1>16. ASSUME NEW s \in Services, Stop(s) \/ Destroy(s) PROVE SocketInv'
  <2>1. home = "idle"
    BY <1>0, <1>16, ConstantsAssumption DEF Stop, Destroy, Free, MainInv
  <2>2. pc' \in Stopping \cup Destroying
    BY <1>16 DEF Stop, StopThread, Destroy, BeginDestroy
  <2> QED
    BY <1>1, <1>16, <2>1, <2>2 DEF Stop, Destroy, Free, Serving
<1>17. CASE UNCHANGED vars
  BY <1>1, <1>17 DEF Serving
<1> QED
  BY <1>2, <1>3, <1>4, <1>5, <1>6, <1>7, <1>8, <1>9, <1>10, <1>11, <1>12, <1>13, <1>14, <1>15,
     <1>16, <1>17 DEF Next, Finish, Operation

----------------------------------------------------------------------------
(* The invariant and what follows from it.                                 *)

LEMMA InitInv ==
  ASSUME Init
  PROVE  IInv
<1> USE ConstantsAssumption DEF Init, Stopping, Destroying
<1>1. TypeOK
  <2>1. \A s \in Services : subs[s] \in Seq(Nodes) /\ IsInjective(subs[s])
    BY DEF IsInjective
  <2>2. services \in Seq(Services) /\ DOMAIN services = {}
    OBVIOUS
  <2>3. /\ heap \in [Services -> {"none", "live", "freed"}]
        /\ subs \in [Services -> Seq(Nodes)]
    OBVIOUS
  <2>4. /\ name \in [Services -> Names \cup {NULL}]
        /\ enabled \in [Services -> BOOLEAN]
        /\ thread_id \in [Services -> Threads \cup {NULL}]
        /\ lock \in [Services -> Threads \cup {Main, NULL}]
        /\ at \in [Threads -> {"unborn", "loop", "check", "lock", "visit", "write", "ended", "joined"}]
        /\ psc \in [Threads -> Services \cup {NULL}]
        /\ cur \in [Threads -> Nodes \cup {NULL}]
        /\ nxt \in [Threads -> Nodes \cup {NULL}]
    OBVIOUS
  <2>5. /\ pc = "idle" /\ arg = NULL /\ client = NULL
        /\ sockets \in Nat /\ addrs \in 0 .. Addresses
    OBVIOUS
  <2>6. failed \in BOOLEAN /\ shutdown \in BOOLEAN
    BY Zenon
  <2> HIDE DEF Init
  <2> QED
    BY <2>1, <2>2, <2>3, <2>4, <2>5, <2>6 DEF TypeOK
<1>2. MainInv /\ LockInv /\ PassInv /\ DestroyInv
  BY DEF MainInv, LockInv, PassInv, DestroyInv
<1>3. ServiceInv
  BY DEF ServiceInv, ToSet
<1>4. ThreadInv
  BY DEF ThreadInv
<1>5. SocketInv
  BY DEF SocketInv, Serving
<1> QED
  BY <1>1, <1>2, <1>3, <1>4, <1>5 DEF IInv

\* The invariant is inductive as long as services are started and destroyed
\* as they should be.
LEMMA Inductive ==
  ASSUME ~DestroyBusy, ~StartTwice
  PROVE  Spec => []IInv
<1>1. Init => IInv
  BY InitInv
<1>2. IInv /\ [Next]_vars => IInv'
  <2> SUFFICES ASSUME IInv, [Next]_vars PROVE IInv'
    OBVIOUS
  <2>1. TypeOK' /\ MainInv' /\ ServiceInv' /\ ThreadInv'
    BY TypeStep, MainStep, ServiceStep, ThreadStep DEF IInv
  <2>2. LockInv' /\ PassInv' /\ DestroyInv' /\ SocketInv'
    BY LockStep, PassStep, DestroyStep, SocketStep
  <2> QED
    BY <2>1, <2>2 DEF IInv
<1> QED
  BY <1>1, <1>2, PTL DEF Spec

\* The variables keep their types, a service is in its context once, a client
\* in a list once, and no two services have one name (japi_pushsrv_register,
\* japi_pushsrv_subscribe).
THEOREM TypeCorrect ==
  ASSUME ~DestroyBusy, ~StartTwice
  PROVE  Spec => []TypeOK
<1>1. IInv => TypeOK
  BY DEF IInv
<1> QED
  BY <1>1, Inductive, PTL

\* No thread uses a service, nor a pass or japi_pushsrv_destroy a list
\* element, that was freed.
THEOREM NothingUsedAfterFree ==
  ASSUME ~DestroyBusy, ~StartTwice
  PROVE  Spec => []NoUseAfterFree
<1>1. ASSUME IInv PROVE NoUseAfterFree
  <2>0. TypeOK /\ MainInv /\ ServiceInv /\ PassInv /\ DestroyInv
    BY <1>1 DEF IInv
  <2>1. ASSUME NEW t \in Threads
        PROVE  /\ Running(t) => heap[psc[t]] = "live"
               /\ at[t] \in {"visit", "write"} => cur[t] \in Listed(psc[t]) \cup {NULL}
               /\ at[t] = "write" => nxt[t] \in Listed(psc[t]) \cup {NULL}
    BY <1>1, <2>0, InPassFacts DEF PassInv
  <2>2. ASSUME pc \in {"lock", "drop"} PROVE client \in Listed(arg) \cup {NULL}
    <3>1. arg \in Services /\ client = First(arg)
      BY <2>0, <2>2 DEF MainInv, DestroyInv, TypeOK, Destroying
    <3> QED
      BY <2>0, <3>1, FollowingFacts
  <2>3. arg # NULL => heap[arg] = "live"
    BY <2>0 DEF ServiceInv
  <2>4. ASSUME NEW i \in DOMAIN services PROVE heap[services[i]] = "live"
    BY <2>0 DEF ServiceInv, TypeOK, ToSet
  <2> QED
    BY <2>1, <2>2, <2>3, <2>4 DEF NoUseAfterFree
<1> QED
  BY <1>1, Inductive, PTL

\* When japi_pushsrv_stop has returned, the routine does not run any more and
\* no thread holds the lock of the service.
THEOREM StopFinal ==
  ASSUME ~DestroyBusy, ~StartTwice
  PROVE  Spec => []StopIsFinal
<1>1. ASSUME IInv PROVE StopIsFinal
  <2> SUFFICES ASSUME NEW s \in Services, ~enabled[s], ~(pc = "join" /\ arg = s)
               PROVE  Takers(s) = {} /\ lock[s] \in {NULL, Main}
    BY DEF StopIsFinal
  <2>1. ASSUME NEW t \in Threads, psc[t] = s, Running(t) PROVE FALSE
    BY <1>1, <2>1 DEF IInv, ThreadInv, Owned, Running
  <2>2. ASSUME NEW t \in Threads, lock[s] = t PROVE FALSE
    BY <1>1, <2>1, <2>2 DEF IInv, LockInv, Running
  <2>3. lock[s] \in Threads \cup {Main, NULL}
    BY <1>1 DEF IInv, TypeOK
  <2> QED
    BY <2>1, <2>2, <2>3 DEF Takers
<1> QED
  BY <1>1, Inductive, PTL

\* When japi_destroy has returned, no service lives, no list element is left,
\* every thread was joined, and a server that did not fail closed its socket.
THEOREM LeavesNothing ==
  ASSUME ~DestroyBusy, ~StartTwice
  PROVE  Spec => []NothingLeft
<1>1. ASSUME IInv PROVE NothingLeft
  <2> SUFFICES ASSUME pc = "over"
               PROVE  /\ failed \/ sockets = 0
                      /\ \A s \in Services : heap[s] # "live" /\ subs[s] = <<>>
                      /\ \A t \in Threads : at[t] \in {"unborn", "joined"}
    BY DEF NothingLeft
  <2>0. TypeOK /\ MainInv /\ ServiceInv /\ ThreadInv /\ SocketInv
    BY <1>1 DEF IInv
  <2>1. arg = NULL /\ home = "idle" /\ services = <<>>
    BY <2>0 DEF MainInv, ServiceInv, Stopping, Destroying
  <2>2. \A s \in Services : heap[s] # "live" /\ subs[s] = <<>>
    BY <2>0, <2>1, ConstantsAssumption DEF ServiceInv, ToSet
  <2>3. \A t \in Threads : at[t] \in {"unborn", "joined"}
    BY <2>0, <2>2 DEF ThreadInv, Owned
  <2>4. failed \/ sockets = 0
    BY <2>0, <2>1 DEF SocketInv, Serving
  <2> QED
    BY <2>2, <2>3, <2>4
<1> QED
  BY <1>1, Inductive, PTL

=============================================================================
