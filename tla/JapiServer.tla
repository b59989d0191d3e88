------------------------------ MODULE JapiServer ------------------------------
(***************************************************************************)
(* japi_start_server (src/japi.c): one thread that waits in select() for   *)
(* the listening socket and all clients, then visits every client in its   *)
(* list that has something to read, then accepts at most one connection.   *)
(* A visit reads lines with creadline_r (src/creadline.c), which blocks    *)
(* until a line is complete, and answers each, until the client's line     *)
(* buffer is empty.                                                        *)
(*                                                                         *)
(* A connection carries tokens: "q" is a stretch of bytes of a request,    *)
(* "j" a stretch that makes the line it is in unparseable, "nl" a newline. *)
(* read() returns any non-empty prefix of what has arrived, so a line may  *)
(* reach the server in pieces and several lines in one piece.              *)
(*                                                                         *)
(* A client may send for ever, but pauses after a while until the server   *)
(* has caught up with it. One that keeps ahead of the server for good is   *)
(* not modelled: the loop over its lines would not end.                    *)
(***************************************************************************)
EXTENDS Naturals, FiniteSets, Sequences, SequencesExt

CONSTANTS
  Conns,      \* the connections clients open, each used once
  Listener,   \* the listening socket
  Limits,     \* values of ctx->max_clients to check, 0 for unlimited
  CountWidth, \* bits of ctx->num_clients (16 in the code)
  Tokens,     \* the kinds of bytes clients send
  MaxLine,    \* tokens creadline_r can hold before it gives up
  MaxSent,    \* tokens a client sends before it finishes its line and pauses
  NULL

ASSUME ConnsAssumption ==
  /\ NULL \notin Conns /\ Listener \notin Conns /\ NULL # Listener
  /\ IsFiniteSet(Conns)
ASSUME TokensAssumption == "nl" \in Tokens /\ Tokens \subseteq {"q", "j", "nl"}
ASSUME NumbersAssumption ==
  /\ CountWidth \in Nat /\ MaxLine \in Nat /\ MaxSent \in Nat
  /\ \A m \in Limits : m \in Nat /\ m < 2 ^ CountWidth

VARIABLES
  peer,        \* "new", "waiting" (in the backlog), "open", "closed" by the
               \* peer, "dropped" by the server, "leaked"
  wire,        \* what arrived on a connection and has not been read
  sent,        \* tokens sent since the last pause
  half,        \* the line a client is typing: "empty", "good" or "bad"
  asked,       \* requests a client has sent completely since then
  answered,    \* responses written to it since then
  backlog,     \* connections waiting for accept()
  shutdown,    \* ctx->shutdown
  max_clients, \* ctx->max_clients
  clients,     \* ctx->clients, head first
  num_clients, \* ctx->num_clients
  buf,         \* crl_buffer of each client
  pc,          \* where the server thread is
  ready,       \* fdrd after select()
  cur,         \* `client` in the scan
  following,   \* `following_client`
  line         \* linebuf of the creadline_r call under way

env    == <<peer, wire, sent, half, asked, answered, backlog, shutdown>>
ctx    == <<max_clients, clients, num_clients, buf>>
local  == <<pc, ready, cur, following, line>>
vars   == <<env, ctx, local>>

----------------------------------------------------------------------------
(* Lists and lines.                                                        *)

Linked == ToSet(clients)

\* client->next, NULL at the end of the list.
NextOf(c) ==
  IF \E i \in 1 .. Len(clients) - 1 : clients[i] = c
  THEN clients[1 + CHOOSE i \in 1 .. Len(clients) - 1 : clients[i] = c]
  ELSE NULL

\* The places of a newline, and the first of them.
Newlines(s)     == {i \in DOMAIN s : s[i] = "nl"}
FirstNewline(s) == CHOOSE i \in Newlines(s) : \A j \in Newlines(s) : i <= j

\* Bytes of c the server has not made a line of yet.
Unread(c) == (IF cur = c /\ pc = "line" THEN line ELSE <<>>) \o buf[c] \o wire[c]

\* A line that json_tokener_parse accepts and that gets a response.
IsRequest(s) == s # <<>> /\ \A i \in DOMAIN s : s[i] = "q"

----------------------------------------------------------------------------
(* The peers, and the thread that calls japi_shutdown.                     *)

\* japi_start_server has not returned.
Running == pc \notin {"stopped", "failed"}

Connect(c) ==
  /\ Running
  /\ peer[c] = "new"
  /\ peer' = [peer EXCEPT ![c] = "waiting"]
  /\ backlog' = Append(backlog, c)
  /\ UNCHANGED <<wire, sent, half, asked, answered, shutdown, ctx, local>>

\* The client sends another piece. After MaxSent of them it may still finish
\* the line it is in.
Send(c, t) ==
  /\ Running
  /\ peer[c] \in {"waiting", "open"}
  /\ sent[c] < MaxSent \/ (half[c] # "empty" /\ t = "nl")
  /\ sent' = [sent EXCEPT ![c] = @ + 1]
  /\ wire' = [wire EXCEPT ![c] = Append(@, t)]
  /\ half' = [half EXCEPT ![c] = CASE t = "nl" -> "empty"
                                   [] t = "j" -> "bad"
                                   [] t = "q" -> IF @ = "bad" THEN "bad" ELSE "good"]
  /\ asked' = IF t = "nl" /\ half[c] = "good" THEN [asked EXCEPT ![c] = @ + 1] ELSE asked
  /\ UNCHANGED <<peer, answered, backlog, shutdown, ctx, local>>

\* The end of a pause: the server has taken and answered everything.
Settle(c) ==
  /\ Running
  /\ peer[c] = "open"
  /\ sent[c] # 0
  /\ half[c] = "empty"
  /\ Unread(c) = <<>>
  /\ asked[c] = answered[c]
  /\ sent' = [sent EXCEPT ![c] = 0]
  /\ asked' = [asked EXCEPT ![c] = 0]
  /\ answered' = [answered EXCEPT ![c] = 0]
  /\ UNCHANGED <<peer, wire, half, backlog, shutdown, ctx, local>>

Hangup(c) ==
  /\ Running
  /\ peer[c] \in {"waiting", "open"}
  /\ peer' = [peer EXCEPT ![c] = "closed"]
  /\ UNCHANGED <<wire, sent, half, asked, answered, backlog, shutdown, ctx, local>>

\* japi_shutdown: from a push service thread or a signal handler.
Shutdown ==
  /\ Running
  /\ ~shutdown
  /\ shutdown' = TRUE
  /\ UNCHANGED <<peer, wire, sent, half, asked, answered, backlog, ctx, local>>

----------------------------------------------------------------------------
(* select() and the scan.                                                  *)

Readable == {c \in Linked : wire[c] # <<>> \/ peer[c] = "closed"}
              \cup {l \in {Listener} : backlog # <<>>}

\* The flag is looked at after select(), whatever it returned.
Select ==
  /\ pc = "select"
  /\ ~shutdown
  /\ Readable # {}
  /\ ready' = Readable
  /\ cur' = IF clients = <<>> THEN NULL ELSE Head(clients)
  /\ pc' = "scan"
  /\ UNCHANGED <<env, ctx, following, line>>

\* 200 ms without an event: round again.
SelectTimeout ==
  /\ pc = "select"
  /\ ~shutdown
  /\ Readable = {}
  /\ UNCHANGED vars

\* select() fails: return -1 at once, clients stay as they are.
SelectError ==
  /\ pc = "select"
  /\ pc' = "failed"
  /\ UNCHANGED <<env, ctx, ready, cur, following, line>>

\* The flag is only looked at when a round had nothing to do.
SelectShutdown_Slip ==
  /\ pc = "select"
  /\ shutdown
  /\ Readable = {}
  /\ pc' = "cleanup"
  /\ UNCHANGED <<env, ctx, ready, cur, following, line>>

SelectShutdown ==
  /\ pc = "select"
  /\ shutdown
  /\ pc' = "cleanup"
  /\ UNCHANGED <<env, ctx, ready, cur, following, line>>

\* A client with nothing to read is passed over.
Skip ==
  /\ pc = "scan"
  /\ cur # NULL
  /\ cur \notin ready
  /\ cur' = NextOf(cur)
  /\ UNCHANGED <<env, ctx, pc, ready, following, line>>

\* creadline_r begins with what its last call left in the buffer.
Restore(c) ==
  /\ line' = buf[c]
  /\ buf' = [buf EXCEPT ![c] = <<>>]
  /\ pc' = "line"

\* Every client is visited, readable or not.
Visit_Slip ==
  /\ pc = "scan"
  /\ cur # NULL
  /\ following' = NextOf(cur)
  /\ Restore(cur)
  /\ UNCHANGED <<env, max_clients, clients, num_clients, ready, cur>>

Visit ==
  /\ pc = "scan"
  /\ cur # NULL
  /\ cur \in ready
  /\ following' = NextOf(cur)
  /\ Restore(cur)
  /\ UNCHANGED <<env, max_clients, clients, num_clients, ready, cur>>

\* The end of the do-while loop: another line while the buffer holds
\* something, else on to the next client.
Again ==
  /\ pc = "again"
  /\ buf[cur] # <<>>
  /\ Restore(cur)
  /\ UNCHANGED <<env, max_clients, clients, num_clients, ready, cur, following>>

Leave ==
  /\ cur' = following
  /\ following' = NULL
  /\ line' = <<>>
  /\ pc' = "scan"

\* One call of creadline_r per visit.
Done_Slip ==
  /\ pc = "again"
  /\ Leave
  /\ UNCHANGED <<env, ctx, ready>>

Done ==
  /\ pc = "again"
  /\ buf[cur] = <<>>
  /\ Leave
  /\ UNCHANGED <<env, ctx, ready>>

----------------------------------------------------------------------------
(* creadline_r and what is done with a line.                               *)

\* No newline yet: read() takes some of what has arrived. It blocks while
\* nothing has.
Read ==
  /\ pc = "line"
  /\ Newlines(line) = {}
  /\ Len(line) < MaxLine
  /\ \E n \in 1 .. Len(wire[cur]) :
       /\ line' = line \o SubSeq(wire[cur], 1, n)
       /\ wire' = [wire EXCEPT ![cur] = SubSeq(@, n + 1, Len(@))]
  /\ UNCHANGED <<peer, sent, half, asked, answered, backlog, shutdown, ctx,
                 pc, ready, cur, following>>

\* The bytes after the newline are dropped instead of kept.
SplitLine_Slip ==
  /\ pc = "line"
  /\ Newlines(line) # {}
  /\ line' = SubSeq(line, 1, FirstNewline(line) - 1)
  /\ pc' = IF IsRequest(line') THEN "reply" ELSE "again"
  /\ UNCHANGED <<env, ctx, ready, cur, following>>

\* The line goes to the caller, the rest to the buffer. An empty line or one
\* that does not parse gets no response.
SplitLine ==
  /\ pc = "line"
  /\ Newlines(line) # {}
  /\ line' = SubSeq(line, 1, FirstNewline(line) - 1)
  /\ buf' = [buf EXCEPT ![cur] = SubSeq(line, FirstNewline(line) + 1, Len(line))]
  /\ pc' = IF IsRequest(line') THEN "reply" ELSE "again"
  /\ UNCHANGED <<env, max_clients, clients, num_clients, ready, cur, following>>

Reply ==
  /\ pc = "reply"
  /\ peer[cur] \in {"open", "closed"}
  /\ answered' = [answered EXCEPT ![cur] = @ + 1]
  /\ pc' = "again"
  /\ UNCHANGED <<peer, wire, sent, half, asked, backlog, shutdown, ctx,
                 ready, cur, following, line>>

----------------------------------------------------------------------------
(* Removing and adding clients.                                            *)

\* japi_remove_client: off the list, closed, freed, uncounted.
Unlink(c) ==
  /\ clients' = RemoveFirst(clients, c)
  /\ num_clients' = (num_clients + 2 ^ CountWidth - 1) % 2 ^ CountWidth
  /\ buf' = [buf EXCEPT ![c] = <<>>]
  /\ peer' = [peer EXCEPT ![c] = "dropped"]
  /\ wire' = [wire EXCEPT ![c] = <<>>]

\* The do-while loop goes on with the client that was freed.
DropClient_Slip ==
  /\ pc = "line"
  /\ Newlines(line) = {}
  /\ wire[cur] = <<>> /\ peer[cur] = "closed"
  /\ Unlink(cur)
  /\ pc' = "again"
  /\ UNCHANGED <<sent, half, asked, answered, backlog, shutdown, max_clients, ready,
                 cur, following, line>>

\* creadline_r reports end of file or an error - the peer has closed or reset
\* the connection, a line is too long - or the response cannot be written:
\* the client is removed and the scan goes on with the one saved before.
DropClient ==
  /\ \/ /\ pc = "line"
        /\ Newlines(line) = {}
        /\ peer[cur] = "closed" \/ Len(line) >= MaxLine
     \/ /\ pc = "reply"
        /\ peer[cur] = "closed"
  /\ Unlink(cur)
  /\ Leave
  /\ UNCHANGED <<sent, half, asked, answered, backlog, shutdown, max_clients, ready>>

\* The scan is over; the listening socket had nothing.
NoAccept ==
  /\ pc = "scan"
  /\ cur = NULL
  /\ Listener \notin ready
  /\ pc' = "select"
  /\ ready' = {}
  /\ UNCHANGED <<env, ctx, cur, following, line>>

Accepting ==
  /\ pc = "scan"
  /\ cur = NULL
  /\ Listener \in ready

Accepted ==
  /\ backlog' = Tail(backlog)
  /\ pc' = "select"
  /\ ready' = {}

HasRoom_Slip == max_clients = 0 \/ num_clients <= max_clients

HasRoom == max_clients = 0 \/ num_clients < max_clients

\* The counter does not wrap.
AddClient_Slip ==
  /\ Accepting
  /\ HasRoom
  /\ Accepted
  /\ peer' = [peer EXCEPT ![Head(backlog)] = IF @ = "waiting" THEN "open" ELSE @]
  /\ clients' = <<Head(backlog)>> \o clients
  /\ num_clients' = num_clients + 1
  /\ UNCHANGED <<wire, sent, half, asked, answered, shutdown, max_clients, buf,
                 cur, following, line>>

\* japi_add_client: a new head, counted in CountWidth bits, buffer empty.
AddClient ==
  /\ Accepting
  /\ HasRoom
  /\ Accepted
  /\ peer' = [peer EXCEPT ![Head(backlog)] = IF @ = "waiting" THEN "open" ELSE @]
  /\ clients' = <<Head(backlog)>> \o clients
  /\ num_clients' = (num_clients + 1) % 2 ^ CountWidth
  /\ UNCHANGED <<wire, sent, half, asked, answered, shutdown, max_clients, buf,
                 cur, following, line>>

\* It has no memory: the connection is neither served nor closed.
AddFails ==
  /\ Accepting
  /\ HasRoom
  /\ Accepted
  /\ peer' = [peer EXCEPT ![Head(backlog)] = "leaked"]
  /\ UNCHANGED <<wire, sent, half, asked, answered, shutdown, ctx, cur, following, line>>

Refuse ==
  /\ Accepting
  /\ ~HasRoom
  /\ Accepted
  /\ peer' = [peer EXCEPT ![Head(backlog)] = "dropped"]
  /\ wire' = [wire EXCEPT ![Head(backlog)] = <<>>]
  /\ UNCHANGED <<sent, half, asked, answered, shutdown, ctx, cur, following, line>>

\* accept() fails: return -1 at once, as in SelectError.
AcceptError ==
  /\ Accepting
  /\ pc' = "failed"
  /\ UNCHANGED <<env, ctx, ready, cur, following, line>>

\* japi_remove_all_clients, from the head on, then the listening socket.
Cleanup ==
  /\ pc = "cleanup"
  /\ clients # <<>>
  /\ Unlink(Head(clients))
  /\ UNCHANGED <<sent, half, asked, answered, backlog, shutdown, max_clients, local>>

Stop ==
  /\ pc = "cleanup"
  /\ clients = <<>>
  /\ pc' = "stopped"
  /\ backlog' = <<>>
  /\ peer' = [c \in Conns |-> IF c \in ToSet(backlog) THEN "dropped" ELSE peer[c]]
  /\ wire' = [c \in Conns |-> IF c \in ToSet(backlog) THEN <<>> ELSE wire[c]]
  /\ UNCHANGED <<sent, half, asked, answered, shutdown, ctx, ready, cur, following, line>>

----------------------------------------------------------------------------

Init ==
  /\ peer = [c \in Conns |-> "new"]
  /\ wire = [c \in Conns |-> <<>>]
  /\ sent = [c \in Conns |-> 0]
  /\ half = [c \in Conns |-> "empty"]
  /\ asked = [c \in Conns |-> 0]
  /\ answered = [c \in Conns |-> 0]
  /\ backlog = <<>>
  /\ shutdown = FALSE
  /\ max_clients \in Limits
  /\ clients = <<>>
  /\ num_clients = 0
  /\ buf = [c \in Conns |-> <<>>]
  /\ pc = "select"
  /\ ready = {}
  /\ cur = NULL
  /\ following = NULL
  /\ line = <<>>

ServerNext ==
  \/ Select \/ SelectTimeout \/ SelectShutdown
  \/ Skip \/ Visit \/ Read \/ SplitLine \/ Reply \/ Again \/ Done \/ DropClient
  \/ NoAccept \/ AddClient \/ AddFails \/ Refuse
  \/ Cleanup \/ Stop

\* System calls that fail for reasons of their own.
ServerError == SelectError \/ AcceptError

PeerNext(c) ==
  \/ Connect(c)
  \/ \E t \in Tokens : Send(c, t)
  \/ Settle(c)
  \/ Hangup(c)

Next ==
  \/ ServerNext
  \/ ServerError
  \/ Shutdown
  \/ \E c \in Conns : PeerNext(c)

Spec == Init /\ [][Next]_vars

\* The server thread runs whenever it is not blocked in read(). It does not
\* have to run into an error.
ServerSpec == Spec /\ WF_vars(ServerNext)

\* Clients that have begun a line finish it or hang up.
FinishLine(c) == half[c] # "empty" /\ (Send(c, "nl") \/ Hangup(c))
PoliteSpec    == ServerSpec /\ \A c \in Conns : WF_vars(FinishLine(c))

----------------------------------------------------------------------------
(* Properties.                                                             *)

TypeOK ==
  /\ peer \in [Conns -> {"new", "waiting", "open", "closed", "dropped", "leaked"}]
  /\ wire \in [Conns -> Seq(Tokens)]
  /\ sent \in [Conns -> Nat]
  /\ half \in [Conns -> {"empty", "good", "bad"}]
  /\ asked \in [Conns -> Nat]
  /\ answered \in [Conns -> Nat]
  /\ backlog \in Seq(Conns)
  /\ shutdown \in BOOLEAN
  /\ max_clients \in Limits
  /\ clients \in Seq(Conns)
  /\ num_clients \in 0 .. 2 ^ CountWidth - 1
  /\ buf \in [Conns -> Seq(Tokens)]
  /\ pc \in {"select", "scan", "line", "reply", "again", "cleanup", "stopped", "failed"}
  /\ ready \subseteq Conns \cup {Listener}
  /\ cur \in Conns \cup {NULL}
  /\ following \in Conns \cup {NULL}
  /\ line \in Seq(Tokens)

\* The requests in a stretch of bytes: newlines that end a non-empty run of
\* "q" from the start of a line.
RequestEnds(s) ==
  {i \in Newlines(s) : \E k \in 1 .. i - 1 :
     (k = 1 \/ s[k - 1] = "nl") /\ IsRequest(SubSeq(s, k, i - 1))}

\* However the bytes of a client were cut up by the network and by read(),
\* each request it completed is answered once or still to be found in what
\* the server has not taken lines from: none is lost, none answered twice.
NothingLost ==
  \A c \in Linked :
    asked[c] = answered[c] + Cardinality(RequestEnds(Unread(c)))
                 + (IF pc = "reply" /\ cur = c THEN 1 ELSE 0)

\* When the server goes to wait in select(), no client has bytes left in its
\* line buffer: select() would not report them, and a request among them
\* would wait for the client's next one.
BuffersEmptyAtSelect ==
  pc = "select" => \A c \in Linked : buf[c] = <<>>

\* The first read() of a visit never blocks: the server can only be held up
\* in the middle of a line.
FirstReadReady ==
  pc = "line" /\ line = <<>> => wire[cur] # <<>> \/ peer[cur] = "closed"

\* The scan's two pointers are NULL or clients still in the list, although
\* the scan frees clients: the one it is at stays in the list until the scan
\* has moved on.
ScanPointersLinked ==
  {cur, following} \subseteq Linked \cup {NULL}

\* num_clients is the length of the list, up to its width; a limit holds.
ClientCount ==
  /\ num_clients = Len(clients) % 2 ^ CountWidth
  /\ max_clients # 0 => Len(clients) <= max_clients

\* A request that reached the server complete is answered, unless its client
\* is dropped or the server ends, if clients finish their lines and let the
\* server catch up now and then. There are at most half as many requests as
\* tokens between two pauses.
Answered ==
  \A c \in Conns, k \in 1 .. (MaxSent + 1) \div 2 :
    (c \in Linked /\ asked[c] >= k)
      ~> (answered[c] >= k \/ c \notin Linked \/ ~Running)

\* japi_shutdown ends the server, if clients do so.
ShutdownStops == shutdown ~> ~Running
=============================================================================
