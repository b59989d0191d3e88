--------------------------- MODULE JapiConnection ---------------------------
(***************************************************************************)
(* One connection from end to end: the bytes of its client, the server     *)
(* thread that reads lines (Creadline), processes them (JapiDispatch) and  *)
(* writes each response with write_n until the line buffer is empty, and   *)
(* push threads that write to the same socket, under locks the server does *)
(* not take. A message is written in as many parts as write() likes.       *)
(***************************************************************************)
EXTENDS Creadline, JapiDispatch

CONSTANTS
  Pushers, \* push services the client may subscribe to
  Parts,   \* pieces of a message that one write() does not divide
  MaxSent, \* bound: bytes the client sends
  MaxPush  \* bound: messages each service sends it

ASSUME BoundsAssumption ==
  Parts \in Nat \ {0} /\ MaxSent \in Nat /\ MaxPush \in Nat
ASSUME PushersAssumption == "server" \notin Pushers

VARIABLES
  pc,         \* where the server thread is with this client
  sent,       \* what the client has sent
  lines,      \* what creadline_r has returned
  last,       \* what came of the request being answered
  replies,    \* responses begun
  subscribed, \* services whose lists the client is in
  pushed,     \* messages each service has begun to send it
  todo,       \* what a writer's write_n has left of its message
  out         \* what was written to the client

history == <<sent, lines>>
writers == <<pushed, todo, out>>
vars == <<stream, crl, registry, pc, history, last, replies, subscribed, writers>>

Writers == {"server"} \cup Pushers

\* Message number i of writer w, in its parts.
Message(w, i) == [k \in 1 .. Parts |-> [from |-> w, id |-> i, part |-> k]]

----------------------------------------------------------------------------
(* The application before it starts the server, and the client.            *)

Setup ==
  /\ pc = "setup"
  /\ (\E n \in UserNames : RegisterRequest(n)) \/ (\E b \in BOOLEAN : IncludeArgs(b))
  /\ UNCHANGED <<stream, crl, pc, history, last, replies, subscribed, writers>>

Accept ==
  /\ pc = "setup"
  /\ pc' = "select"
  /\ UNCHANGED <<stream, crl, registry, history, last, replies, subscribed, writers>>

Send(b) ==
  /\ pc \notin {"setup", "gone", "aborted"}
  /\ ~eof
  /\ Len(sent) < MaxSent
  /\ wire' = Append(wire, b)
  /\ sent' = Append(sent, b)
  /\ UNCHANGED <<eof, crl, registry, pc, lines, last, replies, subscribed, writers>>

Hangup ==
  /\ pc \notin {"setup", "gone", "aborted"}
  /\ ~eof
  /\ eof' = TRUE
  /\ UNCHANGED <<wire, crl, registry, pc, history, last, replies, subscribed, writers>>

----------------------------------------------------------------------------
(* The server thread.                                                      *)

Select ==
  /\ pc = "select"
  /\ wire # <<>> \/ eof
  /\ pc' = "visit"
  /\ UNCHANGED <<stream, crl, registry, history, last, replies, subscribed, writers>>

\* creadline_r, from its call to its return.
Call ==
  /\ pc = "visit"
  /\ Begin \/ BeginFails
  /\ pc' = "creadline"
  /\ UNCHANGED <<registry, history, last, replies, subscribed, writers>>

Creadline_r ==
  /\ pc = "creadline"
  /\ CrlStep
  /\ lines' = IF ret'.kind = "line" THEN Append(lines, ret'.line) ELSE lines
  /\ UNCHANGED <<registry, pc, sent, last, replies, subscribed, writers>>

\* The client is removed from every list, when no pass holds its lock, and its
\* socket is closed.
RemoveClient ==
  /\ \A p \in Pushers : todo[p] = <<>>
  /\ pc' = "gone"
  /\ subscribed' = {}
  /\ todo' = [todo EXCEPT !["server"] = <<>>]
  /\ last' = Silence

\* The request is a string of C: what is behind a NUL byte is not in it.
Request(l) ==
  LET nul == SelectInSeq(l, LAMBDA b : b = "nul")
  IN  IF nul = 0 THEN l ELSE SubSeq(l, 1, nul - 1)

\* The do-while: to the next line, or back to select().
Again == IF buffer # <<>> THEN "visit" ELSE "select"

\* An empty line, or one that gets no response.
NoResponse ==
  /\ pc = "creadline" /\ call = "none" /\ ret.kind = "line"
  /\ \/ ret.line = <<>>
     \/ Request(ret.line) = <<>>
     \/ \E t \in RequestTexts : Silence \in Outcomes(t)
  /\ pc' = Again
  /\ UNCHANGED <<stream, crl, registry, history, last, replies, subscribed, writers>>

\* What the handler does to the subscriptions, which it may refuse. A service
\* that writes to this client has its lock taken, which only adding waits for.
Subscribe(o) ==
  subscribed' \in
    {subscribed} \cup
    (IF ~o.socket THEN {}
     ELSE IF o.called = "japi_pushsrv_subscribe"
          THEN {subscribed \cup {p} : p \in {q \in Pushers : todo[q] = <<>>}}
          ELSE {subscribed \ {p} : p \in Pushers})

\* A response begins to be written.
Respond ==
  /\ pc = "creadline" /\ call = "none" /\ ret.kind = "line"
  /\ Request(ret.line) # <<>>
  /\ \E t \in RequestTexts : \E o \in Outcomes(t) :
       /\ o.end = "response"
       /\ last' = o
       /\ Subscribe(o)
  /\ pc' = "write"
  /\ replies' = replies + 1
  /\ todo' = [todo EXCEPT !["server"] = Message("server", replies')]
  /\ UNCHANGED <<stream, crl, registry, history, pushed, out>>

Abandon ==
  /\ pc = "creadline" /\ call = "none" /\ ret.kind = "line"
  /\ Request(ret.line) # <<>>
  /\ \E t \in RequestTexts : Abort \in Outcomes(t)
  /\ pc' = "aborted"
  /\ UNCHANGED <<stream, crl, registry, history, last, replies, subscribed, writers>>

NoMoreLines ==
  /\ pc = "creadline" /\ call = "none" /\ ret.kind \in {"eof", "error"}
  /\ RemoveClient
  /\ UNCHANGED <<stream, crl, registry, history, replies, pushed, out>>

----------------------------------------------------------------------------
(* Writing.                                                                *)

\* After a part was taken, all of the message is sent again.
WritePart_Slip(w) ==
  /\ todo[w] # <<>>
  /\ \E n \in 1 .. Len(todo[w]) :
       /\ out' = out \o SubSeq(todo[w], 1, n)
       /\ todo' = [todo EXCEPT ![w] = IF n = Len(@) THEN <<>> ELSE Message(w, @[1].id)]

\* One round of write_n: write() takes some of what is left.
WritePart(w) ==
  /\ todo[w] # <<>>
  /\ \E n \in 1 .. Len(todo[w]) :
       /\ out' = out \o SubSeq(todo[w], 1, n)
       /\ todo' = [todo EXCEPT ![w] = SubSeq(@, n + 1, Len(@))]

Write ==
  /\ pc = "write"
  /\ WritePart("server")
  /\ pc' = IF todo'["server"] = <<>> THEN Again ELSE "write"
  /\ last' = IF todo'["server"] = <<>> THEN Silence ELSE last
  /\ UNCHANGED <<stream, crl, registry, history, replies, subscribed, pushed>>

\* The loop goes on with a client that could not be written to.
WriteFails_Slip ==
  /\ pc = "write"
  /\ eof
  /\ pc' = Again
  /\ UNCHANGED <<stream, crl, registry, history, last, replies, subscribed, writers>>

\* write() fails when the client is gone.
WriteFails ==
  /\ pc = "write"
  /\ eof
  /\ RemoveClient
  /\ UNCHANGED <<stream, crl, registry, history, replies, pushed, out>>

\* japi_pushsrv_sendmsg, as far as this client is concerned.
Push(p) ==
  /\ pc # "aborted"
  /\ p \in subscribed
  /\ todo[p] = <<>>
  /\ pushed[p] < MaxPush
  /\ pushed' = [pushed EXCEPT ![p] = @ + 1]
  /\ todo' = [todo EXCEPT ![p] = Message(p, pushed'[p])]
  /\ UNCHANGED <<stream, crl, registry, pc, history, last, replies, subscribed, out>>

PushWrite(p) ==
  /\ pc # "aborted"
  /\ WritePart(p)
  /\ UNCHANGED <<stream, crl, registry, pc, history, last, replies, subscribed, pushed>>

PushFails(p) ==
  /\ pc # "aborted"
  /\ todo[p] # <<>>
  /\ eof
  /\ todo' = [todo EXCEPT ![p] = <<>>]
  /\ subscribed' = subscribed \ {p}
  /\ UNCHANGED <<stream, crl, registry, pc, history, last, replies, pushed, out>>

----------------------------------------------------------------------------

Init ==
  /\ wire = <<>>
  /\ eof = FALSE
  /\ CrlInit
  /\ DispatchInit
  /\ pc = "setup"
  /\ sent = <<>>
  /\ lines = <<>>
  /\ last = Silence
  /\ replies = 0
  /\ subscribed = {}
  /\ pushed = [p \in Pushers |-> 0]
  /\ todo = [w \in Writers |-> <<>>]
  /\ out = <<>>

Next ==
  \/ Setup \/ Accept \/ Hangup \/ (\E b \in Bytes : Send(b))
  \/ Select \/ Call \/ Creadline_r \/ NoResponse \/ Respond \/ Abandon \/ NoMoreLines
  \/ Write \/ WriteFails
  \/ \E p \in Pushers : Push(p) \/ PushWrite(p) \/ PushFails(p)

Spec == Init /\ [][Next]_vars

----------------------------------------------------------------------------
(* Properties.                                                             *)

\* The types of the variables, and where a call of creadline_r can be.
TypeOK ==
  /\ CrlTypeOK
  /\ pc \in {"setup", "select", "visit", "creadline", "write", "gone", "aborted"}
  /\ call # "none" => pc = "creadline"
  /\ sent \in Seq(Bytes) /\ Len(sent) <= MaxSent
  /\ lines \in Seq(Seq(Bytes))
  /\ last.end \in {"silent", "response"}
  /\ replies \in 0 .. Len(lines)
  /\ subscribed \subseteq Pushers
  /\ pushed \in [Pushers -> 0 .. MaxPush]
  /\ \A w \in Writers : Len(todo[w]) <= Parts /\ \A k \in DOMAIN todo[w] : todo[w][k].from = w
  /\ todo["server"] # <<>> <=> pc = "write"

\* ls are the lines of s, which ends with a newline: cut[k] is the place of
\* the newline of line k. The definition creadline_r is held against.
Body(l) == IF l # <<>> /\ Last(l) = "cr" THEN Front(l) ELSE l
IsCut(s, n, cut) ==
  /\ cut[0] = 0 /\ cut[n] = Len(s)
  /\ \A k \in 1 .. n :
       /\ cut[k - 1] < cut[k] /\ s[cut[k]] = "nl"
       /\ \A j \in cut[k - 1] + 1 .. cut[k] - 1 : s[j] # "nl"
LinesAre(s, ls) ==
  \E cut \in [0 .. Len(ls) -> 0 .. Len(s)] :
    /\ IsCut(s, Len(ls), cut)
    /\ \A k \in 1 .. Len(ls) : ls[k] = Body(SubSeq(s, cut[k - 1] + 1, cut[k] - 1))

\* creadline_r neither loses, repeats, changes nor invents a byte, however the
\* stream is cut: what it returned are exactly the lines of what was used up,
\* and the rest of what was sent is in the line buffer, the client's buffer
\* or the socket. (A NUL byte voids this.)
FramingExact ==
  LET rest == linebuf \o buffer \o wire
      used == SubSeq(sent, 1, Len(sent) - Len(rest))
  IN  Nuls(sent) = {} /\ pc # "gone" /\ ret.kind # "error" /\ ret.kind # "eof" =>
        sent = used \o rest /\ LinesAre(used, lines)

\* A descriptor is given to the library's own two handlers and to no other,
\* and these always get one: neither the spelling of a name nor what the
\* application registered makes japi_process_message and the registry
\* disagree.
SocketToOwn ==
  last.end = "response" => (last.socket <=> last.called \in Subscriptions)

\* q holds every part of the first n messages of writer w once, and in order,
\* among parts of others.
Sooner(m, k) == m.id < k.id \/ (m.id = k.id /\ m.part < k.part)
HoldsInOrder(q, w, n) ==
  /\ \A i, j \in DOMAIN q : i < j /\ q[i].from = w /\ q[j].from = w => Sooner(q[i], q[j])
  /\ {m \in ToSet(q) : m.from = w} = [from : {w}, id : 1 .. n, part : 1 .. Parts]

\* write_n: what a client has got from one writer, and what that writer has
\* still to write, are the writer's messages whole, once and in order, however
\* write() divides them and whoever else writes to the socket between.
EachInOrder ==
  ~eof /\ pc # "gone" =>
    \A w \in Writers :
      HoldsInOrder(out \o todo[w], w, IF w = "server" THEN replies ELSE pushed[w])

=============================================================================
