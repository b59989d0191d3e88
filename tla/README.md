# A verification development of libjapi

libjapi is a C library that serves newline-delimited JSON requests over TCP and
pushes messages to subscribed clients. This directory holds TLA+ models of it,
the TLC configurations that check them on small instances, and proofs, checked
by TLAPS, of theorems that hold for all instances. Paths are relative to the
repository.

## 1. Inventory

### Threads

One *server thread* runs `japi_start_server`: everything requests do, it does.
Each started push service has a *push thread* that runs a user routine, which
calls `japi_pushsrv_sendmsg` now and then. The *main thread* of the application
registers, starts, stops and destroys services, starts the server, and so is the
server thread while it serves. `japi_shutdown` may be called from anywhere.
Nothing is persisted.

### Components

| component | source | state | operations | model |
|---|---|---|---|---|
| push service lists | `src/japi_pushsrv.c` 49-278, 443-509 | `psc->clients` (singly linked, malloc'd), `psc->lock` | add, remove, remove from all, subscribe, unsubscribe, sendmsg | `JapiPushsrvHeap` (pointers), `JapiPushsrv` (sequences), `PubSub` (abstractly) |
| server loop | `src/japi.c` 197-207, 365-625 | `ctx->clients`, `num_clients`, `max_clients`, `shutdown`, per client `crl_buffer`; the loop's `client`, `following_client`, `fdrd` | select, scan, answer, accept, add, remove, clean up | `JapiServer` |
| line reader | `src/creadline.c` | the bytes behind the last newline (`creadline_buf_t`), the growing `linebuf` | `creadline_r`, `creadline` | `Creadline` |
| dispatch | `src/japi.c` 40-195, 213-330, 627-660 | `ctx->requests`, flags | process message, register, look up, list, init | `JapiDispatch` |
| full writes | `src/rw_n.c` | position in the buffer | `write_n`, `read_n` (no caller) | `JapiConnection` |
| service lifecycle | `src/japi_pushsrv.c` 280-441, 511-586 | `ctx->push_services`, `thread_id`, `enabled` | register, start, stop, destroy, list | `JapiLifecycle` |
| TCP set-up | `src/networking.c` | the listening socket | listen on a port | `JapiLifecycle` |
| JSON access | `src/japi_utils.c` | none | getters, message to string | `JapiDispatch` |

### Interactions

- The server loop calls the line reader for each readable client, hands every
  line to dispatch, and writes the response with `write_n`.
- Dispatch calls subscribe and unsubscribe with the client's descriptor; both
  work on a service's list.
- `japi_remove_client` takes the descriptor off the list of every service before
  it closes it. The kernel hands a closed descriptor out again at once.
- Push threads share the lists with the server thread (the lock of the service),
  and the sockets (no lock at all).
- The application shares `ctx->push_services` and the services themselves with
  push threads; `enabled` is read without a lock, and destroy reads the head of
  the list before it takes it.

### What is hard here, and what correctness means

- *Lists shared by two kinds of thread.* Elements are freed by both. A pass must
  never hold a freed element; an element must belong to an open connection, and
  to one that asked for it, although descriptors are reused. Unsubscribe walks,
  relinks and frees without the lock, pointer by pointer.
- *Blocking.* `write_n` under the lock of a service and `read` in the middle of a
  line block a thread for as long as a peer likes, and a client that always has
  the beginning of another line in its buffer keeps the server from `select`.
  Progress depends on peers.
- *Streams.* Requests arrive in arbitrary pieces and several at a time, and
  responses leave in pieces, several writers to a socket. Each request must be
  answered once, no byte lost, no buffer overrun.
- *A scan that frees what it scans.*
- *Names.* Handlers are found without regard to case, reserved names refused
  with regard to it, and the descriptor added to requests without.
- *Counting.* The client limit, and `num_clients` of 16 bits.
- *Lifecycle.* Stop joins a thread that may wait for a lock; destroy frees what
  a thread may use; a server may fail half-way.

`PROJECT.json` lists each of these hazards at its line with the properties aimed
at it. Those without a property say why.

## 2. The modules

### JapiPushsrv: subscriber lists and their threads

| model | code |
|---|---|
| `subs[s]`, a sequence of elements of `Nodes` | `psc->clients`, head first |
| `nsock[n]` | `client->socket` of the list element at address `n`, `NULL` for free memory |
| `sock[c]`, `peer[c]` | the descriptor of connection `c`; what its far end does |
| `pc`, `client`, `service`, `answer`, `todo` | where the server thread is in a request or a disconnect, and its local variables |
| `push[s]`, `cur[s]`, `nxt[s]` | where the push thread of `s` is in `japi_pushsrv_sendmsg`; `client`, `following_client` |
| `said[c][s]` | history: the last thing a client heard about a service |

The lock of a service is held by its push thread exactly while `push[s]` is
`"visit"`, `"write"` or `"drop"` (a write has failed and the client is being
removed); the server's own critical sections (`AddClient`, one round of `Purge`)
are single steps guarded by `LockFree`. `pc = "read"` is a `creadline_r` that
waits for the rest of a line (`HalfLine`, `LineEnds`).

Here an element leaves a list in one step. Under the lock that is what removing
amounts to. For an unsubscribe request, which holds no lock, it is an assumption
(`Unlink` spares the elements of a pass), and the next module says what it rests
on.

A response and a push are single writes here, which succeed, fail or block.

### JapiPushsrvHeap: the same threads on the memory

| model | code |
|---|---|
| `head[s]`, `next[n]` | `psc->clients`, `client->next` |
| `search[t]` | the call of `japi_pushsrv_remove_client` thread `t` is in: its arguments, `prev`, `client`, and, once the client was found, the `client->next` it read |
| `subs` | history: the list as it would be if an element left it when it is unlinked |

Each read and each write of a pointer is a step: `Begin` reads the head,
`Advance` goes on, `Match` finds the client and reads what is behind it,
`Unchain` writes that to where `prev` says and frees the element, `NotFound`
runs into the end. All three callers run these steps: the purge and the failed
write with the lock, unsubscribe without it (`Unlocked`). Reading freed memory
yields anything (`NextOf`, `SocketOf`).

With `Races = TRUE` nothing else restrains the threads, as in the code. TLC then
finds, besides `PassPointersListed` (the run `PushsrvUnlocked`), each of these
violated, with the constants of that run:

- `ListsLinked`, in 16 states: the search and a pass remove the same element,
  which is freed twice;
- `AnswerTruthful`, in 20 states, and `SubscribersConnected`, in 28: a removal
  is written to a `prev` that has been freed, the element it was to take off
  stays in the list, and the client is told that it is unsubscribed, or closed.

With `Races = FALSE`, a search without the lock frees no element a pass points
to, nor a pass one that this search points to (the guard of `Unchain`). Nothing
in the code sees to that; it is an assumption about when unsubscribe requests
come, and everything claimed for runs with unsubscribe requests rests on it.
Whoever holds the lock is never kept off by a thread without a search of that
kind: without unsubscribe requests the guard is true, and the theorems of
section 5 assume nothing about it then.

Under the assumption, `ListsLinked` says that the memory holds the lists, and
`IsSequences` that each step is one of `JapiPushsrv` or changes nothing there.

### PubSub: what the lists are for

Connections open and close, subscribe, are released or dropped from a service,
and are pushed to. There are no descriptors, elements, locks or threads. Only a
subscriber is pushed to or told that it is subscribed, only a connection that is
no subscriber is told that its subscription has ended, and only a connection
that is subscribed to nothing closes. `JapiPushsrv` implements it (`IsPubSub`)
under this mapping, and `JapiPushsrvHeap` through it:

| PubSub | JapiPushsrv |
|---|---|
| `open`, `closed` | the connections with a descriptor; those that had one |
| `subscribers[s]` | the open connections whose descriptor an element of `subs[s]` holds |
| `heard` | `said` |

The mapping goes through descriptors, and these are reused: a purge left out, or
one that removes the wrong element, subscribes somebody who never asked, or
pushes to nobody. Adding a list element is `Subscribe`, a response `Confirm` or
`Release`, an unlinking (of an unsubscribe, a round of the purge, or a failed
write) `Drop`, a write of a pass `Push`; what is left is stuttering.

### JapiServer: the loop, the line reader and the client list

| model | code |
|---|---|
| `clients`, `num_clients`, `max_clients`, `shutdown` | the fields of `ctx`; `num_clients` counts modulo `2^CountWidth` |
| `buf[c]` | `crl_buffer` of the client |
| `line` | `linebuf` of the `creadline_r` call under way |
| `pc`, `ready`, `cur`, `following` | where the loop is; `fdrd`, `client`, `following_client` |
| `wire`, `backlog`, `peer` | what the kernel holds |
| `sent`, `half`, `asked`, `answered` | history of a client since its last pause, to state what it is owed |

Bytes are tokens: a piece of a request, a piece that spoils the line it is in,
a newline. `read` returns any non-empty prefix of what has come. An empty line
and a line that does not parse get no response, as in the code. A line longer
than `MaxLine` stands for one beyond `CREADLINE_MAX_LINE_SIZE`. Clients read
their responses here: the blocking write is the subject of `JapiPushsrv`.

A client may send for ever, in bursts of `MaxSent` tokens and the newline that
ends the line it is in. Between two bursts it pauses until the server has caught
up with it (`Settle`). This is an assumption about clients, as the do-while of
`src/japi.c:550-596` goes on as long as the buffer of the client holds bytes: one
that always has sent the beginning of another line keeps the server from the
other clients and from the shutdown flag. Nothing in the repository promises
otherwise; `PROJECT.json` lists it as a hazard without a property.

### Creadline: the line reader byte by byte

| model | code |
|---|---|
| `buffer` | `buffer->buf` up to `buffer->nbytes`; survives a call |
| `linebuf`, `size`, `nl_pos` | the local variables; empty between calls |
| `call` | where the loop is: at the space test (`"room"`), at `read` (`"read"`), behind it (`"split"`) |
| `ret` | what the last call returned: a line, the end of the stream, an error |
| `wire`, `eof` | what the socket holds; whether the peer has closed its end |

Bytes are newline, carriage return, NUL and others, because these are what the
code tells apart. `Strnpos` and `Strncpy` do what the C functions do with a NUL:
stop there, or fill up with more of them. A failing `malloc` or `realloc`, an
interrupted and a failing `read` are actions.

### JapiDispatch: registry and requests

`requests` is the list of handlers, head first; `DispatchInit` is what
`japi_init` leaves there. A name is a word and a spelling, so that `SameName` is
`strcasecmp` and `Reserved` is `strncmp` with `"japi_"`. A request text is
described by what the code asks of it: whether it is JSON and an object, whether
it has a name and of which type (`HasName`), and its arguments. `Outcomes` is what
`japi_process_message` makes of it: silence, a response (with the name, the
echoed arguments, the handler called, and whether that was given the
descriptor), or the end of the process.

### JapiConnection: one connection, end to end

Composes the two with `write_n`. The server thread waits in `select`, calls
`creadline_r`, processes the line, writes the response and goes on until the
client's buffer is empty (`pc`). What the text of a line means is chosen when it
is processed; only emptiness is taken from its bytes. A message is `Parts`
pieces, and `write` takes any number of them; `todo` is what `write_n` has left,
`out` what the client got. Push services write to the same socket, without a
lock in common with the server; `RemoveClient` waits for their passes, as the
purge does. `sent` and `lines` are history.

### JapiLifecycle: services, threads and the server, from init to destroy

| model | code |
|---|---|
| `heap[s]`, `name[s]`, `services` | a service object, its name, `ctx->push_services` |
| `enabled[s]`, `thread_id[s]`, `lock[s]`, `subs[s]` | its fields |
| `at[t]`, `psc[t]`, `cur[t]`, `nxt[t]` | where thread `t` is in the routine and in `japi_pushsrv_sendmsg`, and its locals |
| `pc`, `home`, `arg`, `client`, `job` | where the main thread is, where it returns to, its locals |
| `sockets`, `addrs` | listening sockets open; addresses `getaddrinfo` has left |
| `failed`, `shutdown` | has the server returned with its socket open; `ctx->shutdown` |

Start, stop, destroy and registration may be called outside the server or, while
it serves, from handlers. The routine is `push_counter` of the demo
(`src/doxydir/demo.cpp`): a message at a time while `psc->enabled`, or until it
has had enough. (`push_temperature` beside it sends a whole round of messages
between two tests of `enabled`, which only makes a stop wait longer.) `japi_destroy` destroys service after service. `Quiet` says when a
destroy is safe: see `DestroyBusy` in section 4.

### MC modules, proofs, slips

`MCJapiPushsrv`, `MCJapiPushsrvHeap` and `MCJapiServer` add symmetry sets,
`MCJapiConnection` the names. Values and bounds are in the `.cfg` files. Runs of liveness properties
use no symmetry.

| proofs | about |
|---|---|
| `ListLemmas` | sequences: the first element, removal, concatenation; no state |
| `JapiPushsrvProofs`, `JapiPushsrvRefinement` | `JapiPushsrv`, and that it implements `PubSub` |
| `JapiPushsrvHeapProofs` | `JapiPushsrvHeap`, that it implements `JapiPushsrv`, and what it has from there |
| `JapiServerProofs` | `JapiServer` |
| `JapiConnectionProofs`, `JapiConnectionFraming` | `JapiConnection` with `Creadline` and `JapiDispatch` |
| `JapiLifecycleProofs` | `JapiLifecycle` |

Operators called `..._Slip` stand before the definition they deviate from. Each
is a plausible slip of the code (a lock not waited for, a loop that ends early,
a purge left out) for which some property must fail; no specification uses them.

## 3. The runs

| run | question | states | what it shows |
|---|---|---|---|
| PushsrvSubscribe | Is the locking right, unsubscribe apart? | 568 thousand | `TypeOK`, `PassPointersListed`, `SubscribersConnected`, `NoForeignPush` hold; the lists implement `PubSub` |
| PushsrvUnsubscribe | What does unsubscribe do to lists that passes and purges walk, one pointer at a time? | 150 thousand | with `Races = FALSE`, `ListsLinked`, `PassPointersListed`, `SubscribersConnected`, `AnswerTruthful` hold; the memory implements the sequences and `PubSub` |
| PushsrvFair | Is everybody served if peers behave in the end? | 99 thousand | `GoneAreClosed`, `SubscribersServed`, if peers read, end their lines and pause |
| ServerScan | Does the loop lose, repeat or strand a request, or use a freed client? | 681 thousand | the six invariants hold |
| ServerFair | Are requests answered, and does shutdown end? | 212 thousand | `Answered`, `ShutdownStops`, if clients finish their lines and pause between bursts |
| Connection | Do bytes and messages survive arbitrary reads and writes, and does every name reach the right handler? | 952 thousand | `BuffersFit`, `FramingExact`, `EachInOrder`, `RegistrySound`, `SocketToOwn` |
| Lifecycle | Can services be started, stopped and destroyed while threads are in the middle of a pass? | 206 thousand | `NoUseAfterFree`, `StopIsFinal`, `NothingLeft`, `StopReturns`, `DestroyReturns` |
| PushsrvUnlocked | Does the lock protect a pass from unsubscribe? | violation | a pass at an element that was freed, with `Races = TRUE` |
| PushsrvTwice | Does removing a client remove it from the services? | violation | a subscription left behind on a closed descriptor |
| PushsrvStalled | Are pushes independent of the server? | violation | a subscriber that does not read stops the server |
| ServerStalled | Does a valid request result in a response? | violation | half a line of another client prevents it |
| LifecycleBusy | May a service with subscribers and a running thread be destroyed? | violation | destroy at an element that a pass has freed |

The five violations are the findings of `PROJECT.json`, with the text they
contradict. `SubscribersConnected` is violated in `PushsrvTwice` and holds in
the other runs; the difference is `Resubscribe`, whether a client subscribes to
a service it is subscribed to.

Differences between code and documents that were met and have no run:

- `src/japi.c:130` says that absent arguments become an empty JSON object, and
  line 133 adds `NULL`, the JSON null. A subscribe request without arguments
  then has the descriptor added to null, and json-c ends the process
  (`Abandon`).
- An object without a name, or whose name is no string, may get a response
  without `japi_response`, which `doxydir/3_communication_concepts.md:63` says
  every response begins with (`NoName`).
- Echoed arguments are shared with the request, and a subscribe echoes a
  `socket` its client did not send (`Echo`), against line 77 of the same text.
- With a NUL byte in the stream a line may be cut short, and what follows it in
  the same block be lost, against `include/creadline.h:65`; `FramingExact`
  excludes it, `BuffersFit` does not.
- `src/japi_utils.c:223` has the newline put behind a message so that one `write`
  sends both "at once". `write_n` goes on after a partial write, and nothing
  keeps another thread from writing to the same socket in between: in
  `JapiConnection`, `out` may hold a push in the middle of a response.
  `EachInOrder` says what remains: each writer's parts, taken alone, are whole
  messages in order.
- `japi_shutdown` ends the server only, not "all JAPI threads" (`ChangeLog:32`).

### Bounds

- `PushsrvSubscribe`: 2 connections, 2 descriptors, 2 services, 4 elements. Each
  client can be in each list, each list can hold both, each service has its
  thread, a descriptor can be closed and reused, and an address too.
- `PushsrvUnsubscribe`: 3 connections on 2 descriptors, so a third connection
  always inherits a descriptor; 1 service, 2 elements, which is a first one and
  one behind it: a search with and without `prev`, at the end and before it. With
  3 connections, descriptors and elements TLC finds no more (1.1 million states,
  five minutes), and the theorems hold for any number.
- `PushsrvFair`, `PushsrvStalled`, `PushsrvTwice`, `PushsrvUnlocked`: 2
  connections, 1 service. Their scenarios need two actors and one list.
- `ServerScan`: 2 clients, bursts of 2 tokens each and the newline that ends
  them, lines of up to 2 tokens, which makes "too long" happen; limits 0 and 1; a
  counter of 1 bit, which wraps with two clients. A burst can hold a request and
  an empty line, or a line and the beginning of the next, in one read. Two
  complete requests in one read need `MaxSent = 3`; with that the run passes too
  (9.9 million states, four minutes), and `NothingLost` is proved for any.
- `ServerFair`, `ServerStalled`: the same without limits and spoilt lines.
- `Connection`: 4 bytes in blocks of 2 and a maximum of 4. The line buffer
  grows, a line is too long, the rest of one line is the next, a NUL stands
  before and behind a newline, two requests come in one block. Messages have 2
  parts, which is enough for a partial write, and the push service sends 1.
  Registration tries a name twice in two spellings, names of the library in
  both spellings, and the fallback.
- `Lifecycle`: 2 services and names (one in the list behind the other, a name
  refused, a name reused), 2 threads (both running, or one after the other for
  one service), 2 elements (a list that changes around the current one), up to 2
  addresses (none, one that cannot be bound and one that can). `MaxSockets = 0`: a server can be started again after one that
  returned, and not after one that failed and left its socket open.
- `LifecycleBusy`: the same with `DestroyBusy = TRUE` and at most 1 address.

### Fairness

`ThreadFairness`: the server thread and each push thread keep running. Strong
fairness, because what they wait for comes and goes: a push routine sleeps
between messages with the lock free, so a mutex that is contended is obtained in
the end; a blocked `write` can go on every time the peer reads. It says nothing
of what the server thread turns to next: that depends on clients, and
`FairSpec` adds two assumptions about them. `PeersRead`: a peer that stopped
reading reads again or leaves. `PeersPause`: clients end the lines they begin, so
that no `read` blocks for ever, and pause now and then, so that the loop over
the lines of one client ends and `select` is called again; it then reports a
departed peer in every round, and a round visits all it reports.
`PushsrvStalled` shows what happens without the first, `ServerStalled` without
the second.
`ServerSpec` has weak fairness of the one server thread, which is disabled only
in a blocking `read` and once it has returned. `ServerError` (a failing `select`
or `accept`) may happen but is never due: otherwise every liveness property would
hold because an idle server fails in the end. `PoliteSpec` adds that clients
finish the line they began or hang up, and `ServerStalled` shows what happens
without that. That clients pause is in the actions here (`Send`, `Settle`): it is
not required that they ever go on. The cleanup after `japi_shutdown` takes each
client off the services and may wait for a lock held in a blocked write; that is
in `JapiPushsrv` (`Purge`, `PeersRead`), not in `ShutdownStops`.

`JapiLifecycle`: what the main thread has begun (`Finish`) and each push thread
(`Work`) go on, strongly, for the same reason. Writes return, that is, peers
read. That a routine leaves by itself, a server fails or is told to shut down,
and every call of the application may happen and is never due.

Deadlock is checked in the runs of `JapiPushsrv`. In those of `JapiPushsrvHeap`
it is not: with `Races = FALSE` two threads may each point to the element the
other is about to free, and then neither goes on. That is no deadlock of the
code, which knows no such guard, but the end of what the assumption covers. The
other models may stop: the server returns, a connection ends, all is destroyed.

## 4. Abstractions to know about

- In `JapiPushsrv`, services are registered and running from the start and live
  for ever; in `JapiLifecycle` they come and go, and a client is one list
  element. What unsubscribe does without the lock is left to `JapiPushsrvHeap`.
- `Races = FALSE`: see `JapiPushsrvHeap` in section 2. `Unlink` in `JapiPushsrv`
  has the same assumption. After a race, with `Races = TRUE`, the model follows
  what the threads read (anything) and write (links of freed elements, which
  malloc may hand out again); what else a corrupted heap may do is not followed.
- `malloc` and `free` of a list element go with the step that links or unlinks
  it. Between the two nothing of it is visible to another thread, except to one
  that holds a stale pointer, which is the race above.
- `malloc` failing for a list element counts as a request answered "other"; for
  a client it is `AddFails`; in `creadline_r` it is an error.
- Reads and writes of one pointer are atomic; the unlocked tests of the list's
  head and of `enabled` are modelled as reading the current value.
- A reset connection and a closed one are both `"gone"` or `"closed"`: data not
  read yet may be read or be lost, and writes may still succeed.
- `DestroyBusy = FALSE`: a service is destroyed when it has no subscribers, or
  no thread. Otherwise `japi_pushsrv_destroy` reads the head of the list, a pass
  that holds the lock frees that element, and destroy goes on with it
  (`LifecycleBusy`). After that the model has no meaning beyond the violation.
- `StartTwice = FALSE`: a service is not started when it is started.
  `japi_pushsrv_start` does not test that: with `StartTwice = TRUE`, TLC finds
  `StopIsFinal`, `NoUseAfterFree` and `NothingLeft` violated, because
  `thread_id` is overwritten. No document says that a service may be started
  twice. A stop from the service's own routine is not modelled.
- What handlers put into a response, `japi_request_no`, and error codes for
  `NULL` arguments are left out.

Not modelled: `creadline()`, which is `creadline_r` with a static buffer, and
`read_n`, both without a caller; the two entry points of `networking.c` for one
address family, which differ from the third in a constant; `FD_SETSIZE`
(undefined behaviour beyond a constant of the platform); the lifetime of strings
that callers pass in. json-c, the C library and the tests are external.

## 5. What is proved

Every safety property of section 3 that holds, for every value of the
constants. The assumptions on constants are those named in the modules (`NULL`
is no element of the sets, a block is not empty and not larger than the maximum,
a limit fits the counter, and the like). Theorems with further hypotheses say so
below; each hypothesis leaves out a behaviour that a violation run, or section
4, shows to break the property.

### Subscriber lists (`JapiPushsrvHeap`, by way of `JapiPushsrv`)

The theorems about the memory assume `Careful`: either `Races = FALSE`, or nobody
sends unsubscribe requests. The last four also assume `~Resubscribe`.

- `MemoryHoldsLists`: `HeapSpec => []ListsLinked`. `ListsLinked` contains `TypeOK`,
  and that `NoSharing` (an address is in one list at one place) and `FreeIsBlank`
  (an element is in a list if and only if it is allocated), so this is absence of
  double links, dangling links and leaks in memory. The invariant is `HInv`:
  `Place` says that a search stands at some place of its list, with the element
  before in `prev`, and has passed only other descriptors; `Role`, what it is for
  and that its caller is still there; `PassInv`, that the pointers of a pass are
  neighbours in its list. What makes it inductive is `OthersKeepOff`: an element
  that is freed is pointed to by no other thread, because of the lock (for the
  purge and the failed write) or the assumption (for unsubscribe).
- `MemoryIsSequences`: `HeapSpec => IsSequences`. `Unchain` and `NotFound` map to the
  one step in which `JapiPushsrv` removes an element, the reads before them to
  stutters (`RemoveRefines`). The search has passed no match, so the element it
  found is the first match of the list as it is now, whatever a pass took off
  meanwhile.
- `MemoryPassSafe`, `MemorySubscribersSafe`, `MemoryAnswersTrue`,
  `MemoryImplementsPubSub`, `MemoryPushesInvited`: what is proved of the sequences,
  of the memory, by way of `MemoryIsSequences`.

The facts about the sequences, which have the assumption about `Unlink` built in:

- `TypeCorrect`: `Spec => [](TypeOK /\ Busy)`. `Busy`: at each place of the server
  thread, the client it is busy with has an open descriptor.
- `PassSafe`: `Spec => []PassPointersListed`. The invariant is strengthened to
  `PassInv`: during a write the saved element is the successor of the current
  one, so that removing the current one keeps the saved one listed. `SameLists`
  and `LockFree` show that nobody else who takes the lock changes the list
  meanwhile.
- `SubscribersSafe` and `AnswersTrue`: `[]SubscribersConnected` and
  `[]AnswerTruthful`. `ConnInv` strengthens both: two open connections have
  different descriptors, a list has each descriptor at most once (`ListedOnce`), a
  client about to be added is `Absent`, and a client being purged is absent from
  every list that is not on the `todo` list. `DropInv`: the client a pass is about
  to remove could not be written to.
- `ImplementsPubSub`: `Spec => IsPubSub`. Initial states map to one initial state,
  and each action to the step of `PubSub` named in section 2 or to a stutter; there
  is a lemma per action. With `Resubscribe` a subscription may outlive its
  connection (`PushsrvTwice`), and there is nothing to implement.
- `PushesInvited`: `Spec => NoForeignPush`, an action property. `HeardInv`: whoever
  is in a list and has heard nothing of it, is being told.

### The server loop (`JapiServer`), without further hypotheses

- `TypeCorrect`, `PointersSafe`, `NothingHeldBack`, `VisitsReady` and `Counted`
  come from one invariant, `IInv`. `PointerInv`: during a visit, `client` is in
  the list and `following_client` is what is behind it, so that removing the one
  does not free the other; nothing else is removed during a scan. `BufferInv`:
  only the client whose line was just taken has bytes buffered. `ReadyInv`: what
  is ahead of the scan and was reported readable still is. `Counted` rests on
  arithmetic modulo `2^CountWidth` (`CountUp`, `CountDown`).
- `EachRequestOnce`: `Spec => []NothingLost`. `Accounts` relates what a client
  has completed to what was answered, is being answered, and ends in the bytes
  not taken yet; `TokenAccounts` is the step that adds a byte to them,
  `LineAccounts` the step that takes a line off; a pause ends when all of these
  are nothing. `NothingLost` speaks of clients
  in the list, the invariant also of the backlog, and of how the line a client
  is in the middle of stands.

### A connection (`JapiConnection`), without further hypotheses

- `BuffersSafe`: `[]BuffersFit`. The strengthening `LineBuffer` adds the two
  facts that the code relies on and does not test. The size is never less than a
  block, so that one doubling always makes room for one (hence `Grow` need not
  loop). The newline a call stops at lies in the block read last, or in what the
  client's buffer held, so that the rest is shorter than a block and fits that
  buffer again.
- `LinesExact`: `[]FramingExact`. `Framing` says that what was sent is, one
  behind the other, what was used up, the line buffer, the client's buffer and
  the socket; that the line buffer is empty between calls and the client's
  buffer during one; and that a newline is found as soon as it is in the line
  buffer, and is the first (`NextLine`: then the lines of what was used up are
  the old ones and this one). `ReadParts`, `SplitParts` and `SendParts` are what
  the steps do to the four places. Once a call has failed, nothing is claimed;
  that the client is removed then, and no further line taken, is part of the
  invariant. It was necessary to say what the lines of a stream are by the
  places of its newlines (`LinesAre`) instead of by a recursion over it.
- `WritesKept`: `[]EachInOrder`. `OrderInv` adds the types of the parts.
  `WritePartStep`: moving a part from `todo` to `out` leaves their concatenation
  alone, and puts only parts of others into that of another writer.
- `RegistryKept`, `SocketGoesHome`: `[]RegistrySound` and `[]SocketToOwn`.
  `OwnNames`: no two places have the same name, the library's handlers stand
  under their names, and nothing else does. Uniqueness compares names without
  regard to case and the reserved prefix is compared with regard to it; the
  proof goes through because one of the library's names in another spelling is a
  duplicate.
- `TypeCorrect`: `[]TypeOK`, from `TypeInv`: a response answers a line, and each
  line at most once.

### The lifecycle (`JapiLifecycle`), if `~DestroyBusy` and `~StartTwice`

`TypeCorrect`, `NothingUsedAfterFree`, `StopFinal` and `LeavesNothing`, from one
invariant. `MainInv` and `ServiceInv`: what the main thread is stopping or
destroying, and that it left the list before it is freed. `ThreadInv`: a thread
that was not joined belongs to a service that lives and is enabled, or is being
waited for. `LockInv`: who holds a lock is in its critical section, and the other
way round. `PassInv` as above. `DestroyInv`: a service being destroyed stays
quiet, and `client` is the head of its list. `SocketInv`: a server that has not
failed has a socket while it serves, and only then. `LifecycleBusy` shows what
happens with `DestroyBusy`, and section 4 says it for `StartTwice`.

### Only model-checked

Liveness (`GoneAreClosed`, `SubscribersServed`, `Answered`, `ShutdownStops`,
`StopReturns`, `DestroyReturns`): fairness and `ENABLED` are out of the prover's
reach. What happens with `Races = TRUE` is left to TLC as well: there are only
counterexamples to find.

## 6. Plan

Done: the components of section 1, their compositions, the refinement, and a
theorem for each safety property. What is left:

1. Safety parts of the liveness properties, as far as they help a reader: that
   the server thread waits for a lock only while a push thread is in a write.
2. A model of the server in which a client may keep ahead of it for good, and a
   property that says which clients are served then.
3. The hazards of `PROJECT.json` without a property, where a model of them would
   be faithful: a server started again after a shutdown, and services whose
   names differ in spelling.
