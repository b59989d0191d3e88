------------------------ MODULE JapiConnectionProofs ------------------------
(***************************************************************************)
(* What JapiConnection guarantees for every block size, every maximum,     *)
(* every set of names and services, and whatever bytes come: no copy and   *)
(* no read() of creadline_r goes beyond its memory, the registry keeps the *)
(* library's own names to its own handlers, only these get a descriptor,   *)
(* and what is written to the client are whole messages in their order.    *)
(***************************************************************************)
EXTENDS JapiConnection, ListLemmas

\* What a string of bytes is, in terms of its places.
LEMMA StrncpyFacts ==
  ASSUME NEW s \in Seq(Bytes)
  PROVE  Strncpy(s) \in Seq(Bytes) /\ Len(Strncpy(s)) = Len(s)
<1>1. "nul" \in Bytes
  BY BytesAssumption
<1>2. Len(s) \in Nat /\ DOMAIN s = 1 .. Len(s) /\ \A i \in 1 .. Len(s) : s[i] \in Bytes
  OBVIOUS
<1> DEFINE t == [i \in 1 .. Len(s) |-> IF \E j \in Nuls(s) : j < i THEN "nul" ELSE s[i]]
<1>3. t \in [1 .. Len(s) -> Bytes]
  BY <1>1, <1>2
<1>4. t \in Seq(Bytes) /\ Len(t) = Len(s)
  BY <1>2, <1>3
<1> QED
  BY <1>2, <1>4 DEF Strncpy

\* strnpos returns the place of a newline, or nothing.
LEMMA StrnposFacts ==
  ASSUME NEW s \in Seq(Bytes), Strnpos(s) # 0
  PROVE  Strnpos(s) \in 1 .. Len(s) /\ s[Strnpos(s)] = "nl"
<1> DEFINE at == {i \in DOMAIN s : s[i] = "nl" /\ \A j \in Nuls(s) : j > i}
<1>1. at # {}
  BY DEF Strnpos
<1>2. Len(s) \in Nat /\ at \in SUBSET (1 .. Len(s))
  OBVIOUS
<1>3. \E i \in at : \A j \in at : i <= j
  BY <1>1, <1>2, LeastFacts
<1>4. Strnpos(s) = CHOOSE i \in at : \A j \in at : i <= j
  BY <1>1 DEF Strnpos
<1>5. Strnpos(s) \in at
  BY <1>3, <1>4
<1> QED
  BY <1>2, <1>5

\* A part of a string of bytes is one.
LEMMA SubSeqFacts ==
  ASSUME NEW s \in Seq(Bytes), NEW m \in Nat \ {0}, NEW n \in Nat, n <= Len(s)
  PROVE  /\ SubSeq(s, m, n) \in Seq(Bytes)
         /\ Len(SubSeq(s, m, n)) = IF m <= n THEN n - m + 1 ELSE 0
<1>1. Len(s) \in Nat /\ DOMAIN s = 1 .. Len(s) /\ \A i \in 1 .. Len(s) : s[i] \in Bytes
  OBVIOUS
<1>2. CASE m <= n
  <2>1. SubSeq(s, m, n) = [i \in 1 .. n - m + 1 |-> s[i + m - 1]]
    BY <1>1, <1>2
  <2>2. \A i \in 1 .. n - m + 1 : i + m - 1 \in 1 .. Len(s)
    BY <1>1, <1>2
  <2> QED
    BY <1>1, <1>2, <2>1, <2>2
<1>3. CASE ~(m <= n)
  BY <1>1, <1>3
<1> QED
  BY <1>2, <1>3

----------------------------------------------------------------------------
(* The invariant.                                                          *)

\* During a call the line buffer has its size, the search of the last block
\* has left no newline further back than that block, and what the client's
\* buffer keeps is shorter than a block.
LineBuffer ==
  /\ wire \in Seq(Bytes) /\ buffer \in Seq(Bytes) /\ linebuf \in Seq(Bytes)
  /\ size \in Nat /\ nl_pos \in Nat
  /\ call \in {"none", "room", "read", "split"}
  /\ Len(buffer) < Block
  /\ call # "none" => Len(linebuf) <= size /\ Block <= size /\ size <= MaxSize
  /\ call = "read" => Len(linebuf) + Block <= size
  /\ call = "split" =>
       /\ nl_pos \in 1 .. Len(linebuf)
       /\ linebuf[nl_pos] = "nl"
       /\ Len(linebuf) - nl_pos < Block

USE SizesAssumption

LEMMA LineBufferInit == Init => LineBuffer
  BY DEF Init, CrlInit, LineBuffer

\* Outside of creadline_r only the client changes the bytes, and it adds to
\* those in the socket.
LEMMA LineBufferElsewhere ==
  ASSUME LineBuffer, UNCHANGED crl, UNCHANGED wire \/ \E b \in Bytes : wire' = Append(wire, b)
  PROVE  LineBuffer'
<1>1. wire' \in Seq(Bytes)
  BY DEF LineBuffer
<1> QED
  BY <1>1 DEF LineBuffer, crl

\* The return of a call.
LEMMA LineBufferReturn ==
  ASSUME LineBuffer, NEW r, Return(r), UNCHANGED wire,
         buffer' \in Seq(Bytes), Len(buffer') < Block
  PROVE  LineBuffer'
  BY DEF LineBuffer, Return

LEMMA LineBufferBegin ==
  ASSUME LineBuffer, Begin
  PROVE  LineBuffer'
<1>1. linebuf' \in Seq(Bytes) /\ Len(linebuf') = Len(buffer) /\ Len(buffer) \in Nat
  BY StrncpyFacts DEF LineBuffer, Begin
<1>2. nl_pos' = Strnpos(linebuf')
  BY DEF Begin
<1>3. CASE Strnpos(linebuf') = 0
  BY <1>1, <1>2, <1>3 DEF LineBuffer, Begin, stream
<1>4. CASE Strnpos(linebuf') # 0
  <2>1. nl_pos' \in 1 .. Len(linebuf') /\ linebuf'[nl_pos'] = "nl"
    BY <1>1, <1>2, <1>4, StrnposFacts
  <2> QED
    BY <1>1, <1>2, <1>4, <2>1 DEF LineBuffer, Begin, stream
<1> QED
  BY <1>3, <1>4

LEMMA LineBufferRead ==
  ASSUME LineBuffer, Read
  PROVE  LineBuffer'
<1> USE DEF LineBuffer
<1>1. PICK n \in 1 .. Block :
        /\ n <= Len(wire)
        /\ linebuf' = linebuf \o SubSeq(wire, 1, n)
        /\ nl_pos' = IF Strnpos(SubSeq(wire, 1, n)) = 0 THEN 0
                     ELSE Len(linebuf) + Strnpos(SubSeq(wire, 1, n))
        /\ wire' = SubSeq(wire, n + 1, Len(wire))
  BY DEF Read
<1> DEFINE new == SubSeq(wire, 1, n)
<1>2. new \in Seq(Bytes) /\ Len(new) = n
  BY <1>1, SubSeqFacts
<1>3. wire' \in Seq(Bytes)
  BY <1>1, SubSeqFacts
<1>4. Strnpos(new) # 0 => Strnpos(new) \in 1 .. n /\ new[Strnpos(new)] = "nl"
  BY <1>2, StrnposFacts
<1>5. nl_pos' = IF Strnpos(new) = 0 THEN 0 ELSE Len(linebuf) + Strnpos(new)
  BY <1>1
<1>6. linebuf' = linebuf \o new
  BY <1>1
<1> HIDE DEF new
<1>7. /\ linebuf' \in Seq(Bytes)
      /\ Len(linebuf') = Len(linebuf) + n
      /\ \A i \in 1 .. n : linebuf'[i + Len(linebuf)] = new[i]
  <2>1. linebuf \in Seq(Bytes) /\ new \in Seq(Bytes)
    BY <1>2
  <2>2. /\ linebuf \o new \in Seq(Bytes) /\ Len(linebuf \o new) = Len(linebuf) + Len(new)
        /\ \A i \in 1 .. Len(new) : (linebuf \o new)[i + Len(linebuf)] = new[i]
    BY ONLY <2>1, ConcatFacts
  <2> QED
    BY <1>2, <1>6, <2>2
<1>8. Len(linebuf) \in Nat /\ n \in Nat /\ n <= Block /\ size' = size /\ buffer' = buffer
  BY DEF Read
<1>9. Len(linebuf) + Block <= size /\ size <= MaxSize /\ call = "read"
  BY DEF Read
<1>10. call' = IF nl_pos' = 0 THEN "room" ELSE "split"
  BY DEF Read
<1>11. CASE Strnpos(new) = 0
  BY <1>5, <1>3, <1>7, <1>8, <1>9, <1>10, <1>11
<1>12. CASE Strnpos(new) # 0
  <2>1. nl_pos' \in 1 .. Len(linebuf') /\ linebuf'[nl_pos'] = "nl" /\ nl_pos' > Len(linebuf)
    BY <1>12, <1>4, <1>5, <1>7, <1>8
  <2>2. call' = "split"
    BY <2>1, <1>8, <1>10
  <2> QED
    BY <2>1, <2>2, <1>3, <1>7, <1>8, <1>9
<1> QED
  BY <1>11, <1>12

\* What is behind the newline comes from the last block, the newline too.
LEMMA LineBufferSplit ==
  ASSUME LineBuffer, Split
  PROVE  LineBuffer'
<1> USE DEF LineBuffer
<1> DEFINE rest == SubSeq(linebuf, nl_pos + 1, Len(linebuf))
<1>1. /\ linebuf \in Seq(Bytes) /\ Len(linebuf) \in Nat
      /\ nl_pos \in 1 .. Len(linebuf) /\ Len(linebuf) - nl_pos < Block
  BY DEF Split
<1>2. rest \in Seq(Bytes) /\ Len(rest) < Block
  BY <1>1, SubSeqFacts
<1>3. buffer' = Strncpy(rest)
  BY DEF Split, Rest
<1> HIDE DEF rest
<1>4. buffer' \in Seq(Bytes) /\ Len(buffer') < Block
  BY <1>2, <1>3, StrncpyFacts
<1>5. Return(Line(BeforeNewline)) /\ UNCHANGED wire
  BY DEF Split, stream
<1> QED
  BY <1>4, <1>5, LineBufferReturn

\* One step of creadline_r.
LEMMA LineBufferCall ==
  ASSUME LineBuffer, Begin \/ BeginFails \/ CrlStep
  PROVE  LineBuffer'
<1>1. CASE Begin
  BY <1>1, LineBufferBegin
<1>2. CASE BeginFails
  BY <1>2, LineBufferReturn DEF BeginFails, LineBuffer, stream
<1>3. CASE Room
  BY <1>3 DEF Room, Fits, LineBuffer, stream
<1>4. CASE Grow
  BY <1>4 DEF Grow, Fits, LineBuffer, stream
<1>5. CASE GrowFails
  BY <1>5, LineBufferReturn DEF GrowFails, LineBuffer, stream
<1>6. CASE Read
  BY <1>6, LineBufferRead
<1>7. CASE ReadInterrupted
  BY <1>7 DEF ReadInterrupted, LineBuffer, stream
<1>8. CASE ReadEnds
  BY <1>8, LineBufferReturn DEF ReadEnds, LineBuffer, stream
<1>9. CASE ReadFails
  BY <1>9, LineBufferReturn DEF ReadFails, LineBuffer, stream
<1>10. CASE Split
  BY <1>10, LineBufferSplit
<1> QED
  BY <1>1, <1>2, <1>3, <1>4, <1>5, <1>6, <1>7, <1>8, <1>9, <1>10 DEF CrlStep

\* One step of the connection.
LEMMA LineBufferNext ==
  ASSUME LineBuffer, [Next]_vars
  PROVE  LineBuffer'
<1>1. CASE Call
  BY <1>1, LineBufferCall DEF Call
<1>2. CASE Creadline_r
  BY <1>2, LineBufferCall DEF Creadline_r
<1>3. ASSUME NEW b \in Bytes, Send(b)
      PROVE  LineBuffer'
  BY <1>3, LineBufferElsewhere DEF Send
<1>4. CASE Setup \/ Accept \/ Hangup \/ Select \/ NoResponse \/ Respond \/ Abandon
             \/ NoMoreLines
  BY <1>4, LineBufferElsewhere
  DEF Setup, Accept, Hangup, Select, NoResponse, Respond, Abandon, NoMoreLines, stream
<1>5. CASE Write \/ WriteFails \/ \E p \in Pushers : Push(p) \/ PushWrite(p) \/ PushFails(p)
  BY <1>5, LineBufferElsewhere DEF Write, WriteFails, Push, PushWrite, PushFails, stream
<1>6. CASE UNCHANGED vars
  BY <1>6, LineBufferElsewhere DEF vars, stream
<1> QED
  BY <1>1, <1>2, <1>3, <1>4, <1>5, <1>6 DEF Next

\* Every byte creadline_r reads or copies has room: the line buffer stays
\* within its size and its size within the maximum, a read() of a block fits
\* behind what is there, and the rest of a line fits the client's one block.
THEOREM BuffersSafe == Spec => []BuffersFit
<1>1. Init => LineBuffer
  BY LineBufferInit
<1>2. LineBuffer /\ [Next]_vars => LineBuffer'
  BY LineBufferNext
<1>3. LineBuffer => BuffersFit
  BY DEF LineBuffer, BuffersFit
<1> QED
  BY <1>1, <1>2, <1>3, PTL DEF Spec

----------------------------------------------------------------------------
(* The registry of requests.                                               *)

\* No two places have one name, the library's handlers are under their own
\* names and nothing else is under those.
Entries == [name : UserNames \cup {Lower(w) : w \in ToSet(Builtins)},
            func : {"app"} \cup ToSet(Builtins)]
OwnNames ==
  /\ requests \in Seq(Entries)
  /\ \A i, j \in DOMAIN requests : SameName(requests[i].name, requests[j].name) => i = j
  /\ \A i \in DOMAIN requests :
       \/ requests[i].func = "app"
       \/ requests[i].func \in ToSet(Builtins) /\ requests[i].name.word = requests[i].func
  /\ \A w \in ToSet(Builtins) :
       \E i \in DOMAIN requests : requests[i].name.word = w /\ requests[i].func = w

LEMMA BuiltinsAre ==
  /\ ToSet(Builtins) = {"japi_request_not_found_handler", "japi_pushsrv_subscribe",
                        "japi_pushsrv_unsubscribe", "japi_pushsrv_list", "japi_cmd_list"}
  /\ Len(Builtins) = 5 /\ Builtins \in Seq(ToSet(Builtins))
  /\ \A i, j \in 1 .. 5 : Builtins[i] = Builtins[j] => i = j
  /\ \A w \in ToSet(Builtins) : \E i \in 1 .. 5 : Builtins[i] = w
<1>1. /\ Len(Builtins) = 5 /\ DOMAIN Builtins = 1 .. 5
      /\ Builtins[1] = "japi_request_not_found_handler"
      /\ Builtins[2] = "japi_pushsrv_subscribe"
      /\ Builtins[3] = "japi_pushsrv_unsubscribe"
      /\ Builtins[4] = "japi_pushsrv_list"
      /\ Builtins[5] = "japi_cmd_list"
  BY DEF Builtins
<1>2. \A i \in 1 .. 5 : i = 1 \/ i = 2 \/ i = 3 \/ i = 4 \/ i = 5
  OBVIOUS
<1>3. ToSet(Builtins) = {Builtins[i] : i \in 1 .. 5}
  BY <1>1 DEF ToSet
<1>4. \A i, j \in 1 .. 5 : Builtins[i] = Builtins[j] => i = j
  BY <1>1, <1>2
<1>5. Builtins \in Seq(ToSet(Builtins))
  BY <1>1, <1>3 DEF Builtins
<1>6. ToSet(Builtins) = {"japi_request_not_found_handler", "japi_pushsrv_subscribe",
                         "japi_pushsrv_unsubscribe", "japi_pushsrv_list", "japi_cmd_list"}
  BY <1>1, <1>2, <1>3
<1> QED
  BY <1>1, <1>3, <1>4, <1>5, <1>6

\* The handler found is the one at the only place of the name.
LEMMA HandlerFacts ==
  ASSUME OwnNames, NEW n
  PROVE  /\ \A i \in DOMAIN requests : SameName(n, requests[i].name) => Handler(n) = requests[i].func
         /\ Handler(n) = "none" <=> \A i \in DOMAIN requests : ~SameName(n, requests[i].name)
         /\ Handler(n) \in ToSet(Builtins) <=> n.word \in ToSet(Builtins)
         /\ n.word \in ToSet(Builtins) => Handler(n) = n.word
<1>1. ASSUME NEW i \in DOMAIN requests, SameName(n, requests[i].name)
      PROVE  Handler(n) = requests[i].func
  <2>1. Places(n) = {i}
    BY <1>1 DEF Places, SameName, OwnNames
  <2>2. \A j \in Places(n) : i <= j
    <3>1. i \in Nat
      BY <1>1 DEF OwnNames
    <3> QED
      BY <2>1, <3>1
  <2>3. (CHOOSE k \in Places(n) : \A j \in Places(n) : k <= j) = i
    BY <2>1, <2>2
  <2> QED
    BY <2>1, <2>3 DEF Handler
<1>2. "none" \notin ToSet(Builtins) /\ "app" \notin ToSet(Builtins)
  BY BuiltinsAre
<1>3. ASSUME \A i \in DOMAIN requests : ~SameName(n, requests[i].name)
      PROVE  Handler(n) = "none"
  BY <1>3 DEF Places, Handler
<1>4. ASSUME NEW i \in DOMAIN requests, SameName(n, requests[i].name)
      PROVE  /\ Handler(n) # "none"
             /\ Handler(n) \in ToSet(Builtins) => n.word = Handler(n)
  BY <1>1, <1>2, <1>4 DEF OwnNames, SameName
<1>5. ASSUME n.word \in ToSet(Builtins) PROVE Handler(n) = n.word
  BY <1>1, <1>5 DEF OwnNames, SameName
<1> QED
  BY <1>1, <1>2, <1>3, <1>4, <1>5

LEMMA OwnNamesInit ==
  ASSUME DispatchInit
  PROVE  OwnNames
<1>1. \A i \in 1 .. 5 : 6 - i \in 1 .. 5 /\ 6 - (6 - i) = i
  OBVIOUS
<1>2. /\ requests = [i \in 1 .. 5 |-> [name |-> Lower(Builtins[6 - i]), func |-> Builtins[6 - i]]]
      /\ \A i \in 1 .. 5 : Builtins[i] \in ToSet(Builtins)
  BY BuiltinsAre DEF DispatchInit
<1>3. /\ DOMAIN requests = 1 .. 5
      /\ \A i \in 1 .. 5 : requests[i].func = Builtins[6 - i] /\ requests[i].name.word = Builtins[6 - i]
  BY <1>2 DEF Lower
<1>4. ASSUME NEW i \in 1 .. 5, NEW j \in 1 .. 5, Builtins[6 - i] = Builtins[6 - j] PROVE i = j
  <2>1. 6 - i \in 1 .. 5 /\ 6 - j \in 1 .. 5
    BY <1>1
  <2>2. 6 - i = 6 - j
    BY <1>4, <2>1, BuiltinsAre
  <2> QED
    BY <2>2
<1>5. ASSUME NEW w \in ToSet(Builtins)
      PROVE  \E i \in DOMAIN requests : requests[i].name.word = w /\ requests[i].func = w
  <2>1. PICK j \in 1 .. 5 : Builtins[j] = w
    BY BuiltinsAre
  <2>2. 6 - j \in 1 .. 5 /\ requests[6 - j].name.word = w /\ requests[6 - j].func = w
    BY <1>1, <1>3, <2>1
  <2> QED
    BY <1>3, <2>2
<1>6. requests \in Seq(Entries)
  <2>1. \A i \in 1 .. 5 : [name |-> Lower(Builtins[6 - i]), func |-> Builtins[6 - i]] \in Entries
    BY <1>1, <1>2 DEF Entries
  <2> QED
    BY <1>2, <2>1
<1> QED
  BY <1>1, <1>2, <1>3, <1>4, <1>5, <1>6, SMTT(30) DEF OwnNames, SameName

LEMMA OwnNamesRegister ==
  ASSUME OwnNames, NEW n \in UserNames, RegisterRequest(n)
  PROVE  OwnNames'
<1> DEFINE e == [name |-> n, func |-> "app"]
           N == Len(requests)
<1>1. e \in Entries /\ requests \in Seq(Entries)
  BY DEF Entries, OwnNames
<1>2. e.name = n /\ e.func = "app" /\ requests' = <<e>> \o requests
  BY DEF RegisterRequest
<1>3. \A i \in DOMAIN requests : ~SameName(n, requests[i].name)
  BY HandlerFacts DEF RegisterRequest
<1>4. N \in Nat /\ DOMAIN requests = 1 .. N
  BY <1>1
<1> HIDE DEF e, N
<1>5. /\ requests' \in Seq(Entries) /\ Len(requests') = Len(requests) + 1 /\ requests'[1] = e
      /\ \A j \in 1 .. Len(requests) : requests'[j + 1] = requests[j]
  BY <1>1, <1>2, NewHeadFacts
<1>6. DOMAIN requests' = 1 .. N + 1
  BY <1>5 DEF N
<1>7. \A j \in 1 .. N : j + 1 \in 1 .. N + 1 /\ requests'[j + 1] = requests[j]
  BY <1>4, <1>5 DEF N
<1>8. \A i \in 1 .. N + 1 : i = 1 \/ (i - 1 \in 1 .. N /\ requests'[i] = requests[i - 1] /\ i = (i - 1) + 1)
  <2> SUFFICES ASSUME NEW i \in 1 .. N + 1, i # 1
               PROVE  i - 1 \in 1 .. N /\ requests'[i] = requests[i - 1] /\ i = (i - 1) + 1
    OBVIOUS
  <2>1. i - 1 \in 1 .. N /\ i = (i - 1) + 1
    BY <1>4
  <2> QED
    BY <1>7, <2>1
<1>9. ASSUME NEW i \in 1 .. N + 1, NEW j \in 1 .. N + 1,
             SameName(requests'[i].name, requests'[j].name)
      PROVE  i = j
  <2>1. CASE i = 1 /\ j = 1
    BY <2>1
  <2>2. CASE i = 1 /\ j # 1
    BY <1>2, <1>3, <1>4, <1>5, <1>8, <1>9, <2>2
  <2>3. CASE i # 1 /\ j = 1
    BY <1>2, <1>3, <1>4, <1>5, <1>8, <1>9, <2>3, ZenonT(60) DEF SameName
  <2>4. CASE i # 1 /\ j # 1
    <3>1. i - 1 = j - 1
      BY <1>4, <1>8, <1>9, <2>4, SMTT(30) DEF OwnNames
    <3> QED
      BY <1>8, <2>4, <3>1
  <2> QED
    BY <2>1, <2>2, <2>3, <2>4
<1>10. ASSUME NEW i \in 1 .. N + 1
       PROVE  \/ requests'[i].func = "app"
              \/ requests'[i].func \in ToSet(Builtins) /\ requests'[i].name.word = requests'[i].func
  <2>1. CASE i = 1
    BY <1>2, <1>5, <2>1
  <2>2. CASE i # 1
    <3>1. PICK k \in DOMAIN requests : requests'[i] = requests[k]
      BY <1>4, <1>8, <2>2
    <3> QED
      BY <3>1 DEF OwnNames
  <2> QED
    BY <2>1, <2>2
<1>11. ASSUME NEW w \in ToSet(Builtins)
       PROVE  \E i \in 1 .. N + 1 : requests'[i].name.word = w /\ requests'[i].func = w
  BY <1>4, <1>7 DEF OwnNames
<1> QED
  BY <1>5, <1>6, <1>9, <1>10, <1>11 DEF OwnNames

LEMMA OwnNamesNext ==
  ASSUME OwnNames, [Next]_vars
  PROVE  OwnNames'
<1>1. ASSUME UNCHANGED requests PROVE OwnNames'
  BY <1>1 DEF OwnNames
<1>2. CASE Setup
  <2>1. CASE \E n \in UserNames : RegisterRequest(n)
    BY <2>1, OwnNamesRegister
  <2>2. CASE \E b \in BOOLEAN : IncludeArgs(b)
    BY <1>1, <2>2 DEF IncludeArgs
  <2> QED
    BY <1>2, <2>1, <2>2 DEF Setup
<1>3. ASSUME ~Setup, Next PROVE UNCHANGED requests
  BY <1>3 DEF Next, Accept, Hangup, Send, Select, Call, Creadline_r, NoResponse, Respond, Abandon,
     NoMoreLines, Write, WriteFails, Push, PushWrite, PushFails, registry
<1> QED
  BY <1>1, <1>2, <1>3 DEF vars, registry

LEMMA OwnNamesAlways == Spec => []OwnNames
<1>1. Init => OwnNames
  BY OwnNamesInit DEF Init
<1>2. OwnNames /\ [Next]_vars => OwnNames'
  BY OwnNamesNext
<1> QED
  BY <1>1, <1>2, PTL DEF Spec

\* Whatever the application registers, each name has one handler and the
\* library's handlers answer to their names in any spelling.
THEOREM RegistryKept == Spec => []RegistrySound
<1>1. ASSUME OwnNames PROVE RegistrySound
  <2>1. \A w \in ToSet(Builtins) : Upper(w).word = w
    BY DEF Upper
  <2>2. \A w \in ToSet(Builtins) : Handler(Upper(w)) = w
    BY <1>1, <2>1, HandlerFacts
  <2> QED
    BY <1>1, <2>2 DEF RegistrySound, OwnNames
<1> QED
  BY <1>1, OwnNamesAlways, PTL

----------------------------------------------------------------------------
(* Who is given the descriptor of the client.                              *)

\* A name needs the descriptor just when the handler called is one of the two
\* that are about subscriptions: the fallbacks never are.
LEMMA SocketFacts ==
  ASSUME OwnNames, NEW n
  PROVE  NeedsSocket(n) <=> Called(n) \in Subscriptions
<1>1. NeedsSocket(n) <=> n.word \in Subscriptions
  BY DEF NeedsSocket, SameName, Lower
<1>2. Subscriptions \subseteq ToSet(Builtins)
      /\ "request_not_found_handler" \notin ToSet(Builtins)
      /\ "japi_request_not_found_handler" \in ToSet(Builtins) \ Subscriptions
      /\ "none" \notin ToSet(Builtins)
  BY BuiltinsAre DEF Subscriptions
<1>3. CASE Handler(n) # "none"
  <2>1. Called(n) = Handler(n)
    BY <1>3 DEF Called
  <2>2. Handler(n) \in ToSet(Builtins) => Handler(n) = n.word
    BY HandlerFacts
  <2>3. n.word \in ToSet(Builtins) => Handler(n) = n.word
    BY HandlerFacts
  <2> QED
    BY <1>1, <1>2, <2>1, <2>2, <2>3
<1>4. CASE Handler(n) = "none"
  <2>1. n.word \notin ToSet(Builtins)
    BY <1>2, <1>4, HandlerFacts
  <2>2. /\ Lower("request_not_found_handler").word = "request_not_found_handler"
        /\ Lower("japi_request_not_found_handler").word = "japi_request_not_found_handler"
    BY DEF Lower
  <2>3. Handler(Lower("request_not_found_handler")) \notin ToSet(Builtins)
    BY <1>2, <2>2, HandlerFacts
  <2>4. Handler(Lower("japi_request_not_found_handler")) = "japi_request_not_found_handler"
    BY <1>2, <2>2, HandlerFacts
  <2>5. Called(n) \notin Subscriptions
    BY <1>2, <1>4, <2>3, <2>4 DEF Called
  <2> QED
    BY <1>1, <1>2, <2>1, <2>5
<1> QED
  BY <1>3, <1>4

\* A response is about a handler that was called with what it needs.
LEMMA OutcomeFacts ==
  ASSUME OwnNames, NEW t, NEW o \in Outcomes(t), o.end = "response"
  PROVE  o.socket <=> o.called \in Subscriptions
<1>1. "none" \notin Subscriptions
  BY DEF Subscriptions
<1>2. Silence.end # "response" /\ Abort.end # "response"
  BY DEF Silence, Abort
<1>3. NoName.socket = FALSE /\ NoName.called = "none"
  BY DEF NoName, Silence
<1>4. CASE o = NoName
  BY <1>1, <1>3, <1>4
<1>5. CASE o = Named(t)
  <2>1. \/ NeedsSocket(t.name) /\ o = Response(t, TRUE)
        \/ ~NeedsSocket(t.name) /\ o = Response(t, FALSE)
    BY <1>2, <1>5 DEF Named
  <2>2. ASSUME NEW b \in BOOLEAN PROVE Response(t, b).called = Called(t.name) /\ Response(t, b).socket = b
    BY DEF Response
  <2>3. o.called = Called(t.name) /\ (o.socket = TRUE \/ o.socket = FALSE)
        /\ (o.socket = TRUE <=> NeedsSocket(t.name))
    BY <2>1, <2>2
  <2> QED
    BY <2>3, SocketFacts
<1> QED
  BY <1>2, <1>4, <1>5 DEF Outcomes

\* The descriptor of a client goes to the two handlers that are about its
\* subscriptions and to nobody else.
THEOREM SocketGoesHome == Spec => []SocketToOwn
<1>1. Init => SocketToOwn
  BY DEF Init, SocketToOwn, Silence
<1>2. ASSUME OwnNames, SocketToOwn, [Next]_vars PROVE SocketToOwn'
  <2>1. ASSUME UNCHANGED last PROVE SocketToOwn'
    BY <1>2, <2>1 DEF SocketToOwn
  <2>2. ASSUME last' = Silence PROVE SocketToOwn'
    BY <2>2 DEF SocketToOwn, Silence
  <2>3. CASE Respond
    <3>1. \E t \in RequestTexts : \E o \in Outcomes(t) : o.end = "response" /\ last' = o
      BY <2>3 DEF Respond
    <3> QED
      BY <1>2, <3>1, OutcomeFacts DEF SocketToOwn
  <2>4. CASE NoMoreLines \/ WriteFails \/ Write
    BY <2>1, <2>2, <2>4 DEF NoMoreLines, WriteFails, Write, RemoveClient
  <2>5. CASE UNCHANGED vars
    BY <2>1, <2>5 DEF vars
  <2>6. ASSUME Next, ~Respond, ~NoMoreLines, ~WriteFails, ~Write PROVE UNCHANGED last
    BY <2>6 DEF Next, Setup, Accept, Hangup, Send, Select, Call, Creadline_r, NoResponse, Abandon,
       Push, PushWrite, PushFails
  <2> QED
    BY <1>2, <2>1, <2>3, <2>4, <2>5, <2>6
<1> QED
  BY <1>1, <1>2, OwnNamesAlways, PTL DEF Spec

----------------------------------------------------------------------------
(* The types of the variables.                                             *)

\* A line that was returned and is being looked at has not been answered, and
\* a call under way has returned nothing.
CallInv ==
  /\ ret \in [kind : {"none", "line", "eof", "error"}, line : Seq(Bytes)]
  /\ pc \in {"setup", "select", "visit", "creadline", "write", "gone", "aborted"}
  /\ call # "none" => pc = "creadline" /\ ret = NoLine
  /\ lines \in Seq(Seq(Bytes)) /\ replies \in 0 .. Len(lines)
  /\ pc = "creadline" /\ ret.kind = "line" => replies < Len(lines)

\* Each writer has parts of its own message left, the server while it writes.
Pieces == [from : Writers, id : Nat, part : 1 .. Parts]
WriteInv ==
  /\ todo \in [Writers -> Seq(Pieces)]
  /\ \A w \in Writers : Len(todo[w]) <= Parts /\ \A k \in DOMAIN todo[w] : todo[w][k].from = w
  /\ todo["server"] # <<>> <=> pc = "write"
  /\ subscribed \subseteq Pushers /\ pushed \in [Pushers -> 0 .. MaxPush]

PeerInv ==
  /\ eof \in BOOLEAN
  /\ sent \in Seq(Bytes) /\ Len(sent) <= MaxSent
  /\ last.end \in {"silent", "response"}

TypeInv == LineBuffer /\ CallInv /\ WriteInv /\ PeerInv

USE BoundsAssumption

\* What creadline_r returns is a line that was read, the end or an error.
LEMMA BeforeNewlineFacts ==
  ASSUME LineBuffer, call = "split"
  PROVE  BeforeNewline \in Seq(Bytes)
<1>1. linebuf \in Seq(Bytes) /\ nl_pos \in 1 .. Len(linebuf) /\ Len(linebuf) \in Nat
  BY DEF LineBuffer
<1> DEFINE n == IF nl_pos > 1 /\ linebuf[nl_pos - 1] = "cr" THEN nl_pos - 2 ELSE nl_pos - 1
<1>2. n \in Nat /\ n <= Len(linebuf)
  BY <1>1
<1>3. BeforeNewline = SubSeq(linebuf, 1, n)
  BY DEF BeforeNewline
<1> HIDE DEF n
<1> QED
  BY <1>1, <1>2, <1>3, SubSeqFacts

LEMMA MessageFacts ==
  ASSUME NEW w \in Writers, NEW i \in Nat
  PROVE  /\ Message(w, i) \in Seq(Pieces) /\ Len(Message(w, i)) = Parts /\ Message(w, i) # <<>>
         /\ \A k \in DOMAIN Message(w, i) : Message(w, i)[k].from = w
<1>1. Message(w, i) = [k \in 1 .. Parts |-> [from |-> w, id |-> i, part |-> k]]
  BY DEF Message
<1>2. \A k \in 1 .. Parts : [from |-> w, id |-> i, part |-> k] \in Pieces
  BY DEF Pieces
<1>3. Message(w, i) \in [1 .. Parts -> Pieces]
  BY <1>1, <1>2
<1>4. Message(w, i) \in Seq(Pieces) /\ Len(Message(w, i)) = Parts
  BY <1>3
<1>5. DOMAIN Message(w, i) = 1 .. Parts /\ \A k \in 1 .. Parts : Message(w, i)[k].from = w
  BY <1>1
<1> QED
  BY <1>4, <1>5

\* What write() leaves of a message.
LEMMA LeftFacts ==
  ASSUME NEW s, s \in Seq(Pieces), NEW n \in 1 .. Len(s), Len(s) <= Parts, NEW w,
         \A k \in DOMAIN s : s[k].from = w
  PROVE  /\ SubSeq(s, n + 1, Len(s)) \in Seq(Pieces) /\ Len(SubSeq(s, n + 1, Len(s))) <= Parts
         /\ \A k \in DOMAIN SubSeq(s, n + 1, Len(s)) : SubSeq(s, n + 1, Len(s))[k].from = w
<1>1. Len(s) \in Nat /\ DOMAIN s = 1 .. Len(s) /\ \A k \in 1 .. Len(s) : s[k] \in Pieces
  OBVIOUS
<1>2. n + 1 \in Int /\ Len(s) \in Int /\ \A k \in n + 1 .. Len(s) : s[k] \in Pieces
  BY <1>1
<1> DEFINE u == SubSeq(s, n + 1, Len(s))
<1>3. /\ u \in Seq(Pieces) /\ Len(u) = (IF n + 1 <= Len(s) THEN Len(s) - (n + 1) + 1 ELSE 0)
      /\ \A k \in 1 .. Len(s) - (n + 1) + 1 : u[k] = s[n + 1 + k - 1]
  BY <1>2, SubSeqProperties
<1> HIDE DEF u
<1>4. Len(u) = Len(s) - n /\ DOMAIN u = 1 .. Len(s) - n
  <2>0. \A L \in Nat : \A m \in 1 .. L : (IF m + 1 <= L THEN L - (m + 1) + 1 ELSE 0) = L - m
    OBVIOUS
  <2>1. (IF n + 1 <= Len(s) THEN Len(s) - (n + 1) + 1 ELSE 0) = Len(s) - n
    BY ONLY <1>1, <2>0, n \in 1 .. Len(s)
  <2>2. Len(u) = Len(s) - n
    BY ONLY <1>3, <2>1
  <2>3. DOMAIN u = 1 .. Len(u)
    BY ONLY <1>3
  <2> QED
    BY ONLY <2>2, <2>3
<1>5. ASSUME NEW k \in 1 .. Len(s) - n PROVE u[k] = s[n + k] /\ n + k \in 1 .. Len(s)
  <2>1. k \in 1 .. Len(s) - (n + 1) + 1 /\ n + 1 + k - 1 = n + k /\ n + k \in 1 .. Len(s)
    BY <1>1
  <2> QED
    BY <1>3, <2>1
<1>6. \A k \in DOMAIN u : u[k].from = w
  BY <1>1, <1>4, <1>5
<1>7. u \in Seq(Pieces) /\ Len(u) <= Parts
  <2>1. Len(s) - n <= Parts
    BY <1>1
  <2> QED
    BY ONLY <1>3, <1>4, <2>1
<1> QED
  BY <1>6, <1>7 DEF u

LEMMA CallStep ==
  ASSUME TypeInv, [Next]_vars
  PROVE  CallInv'
<1> USE DEF vars, stream, crl, registry, history, writers
<1>0. CallInv /\ LineBuffer
  BY DEF TypeInv
<1>1. ASSUME UNCHANGED <<ret, pc, call, lines, replies>> PROVE CallInv'
  BY <1>0, <1>1 DEF CallInv
<1>2. ASSUME UNCHANGED <<ret, call, lines, replies>>, pc # "creadline" \/ call = "none",
             pc' \in {"select", "visit", "gone", "aborted", "write"}
      PROVE  CallInv'
  BY <1>0, <1>2 DEF CallInv
<1>3. CASE Setup \/ Hangup \/ (\E b \in Bytes : Send(b)) \/ UNCHANGED vars
             \/ (\E p \in Pushers : Push(p) \/ PushWrite(p) \/ PushFails(p))
  BY <1>1, <1>3 DEF Setup, Hangup, Send, Push, PushWrite, PushFails
<1>4. CASE Accept \/ Select \/ NoResponse \/ Abandon \/ NoMoreLines \/ Write \/ WriteFails
  BY <1>1, <1>2, <1>4 DEF Accept, Select, NoResponse, Abandon, NoMoreLines, Write, WriteFails,
     RemoveClient, Again
<1>5. CASE Call
  <2>1. /\ pc' = "creadline" /\ UNCHANGED <<lines, replies>>
        /\ ret' = NoLine \/ (ret' = Error /\ call' = "none")
    BY <1>5 DEF Call, Begin, BeginFails, Return
  <2>2. NoLine.kind # "line" /\ Error.kind # "line"
        /\ {NoLine, Error} \subseteq [kind : {"none", "line", "eof", "error"}, line : Seq(Bytes)]
    BY DEF NoLine, Error
  <2> QED
    BY <1>0, <2>1, <2>2 DEF CallInv
<1>6. CASE Creadline_r
  <2>1. /\ pc = "creadline" /\ pc' = pc /\ replies' = replies
        /\ lines' = IF ret'.kind = "line" THEN Append(lines, ret'.line) ELSE lines
        /\ CrlStep
    BY <1>6 DEF Creadline_r
  <2>2. call # "none" /\ ret = NoLine
    BY <1>0, <2>1 DEF CallInv, CrlStep, Room, Grow, GrowFails, Read, ReadInterrupted, ReadEnds,
       ReadFails, Split
  <2>3. /\ NoLine.kind # "line" /\ Error.kind # "line" /\ EndOfFile.kind # "line"
        /\ {NoLine, Error, EndOfFile} \subseteq
             [kind : {"none", "line", "eof", "error"}, line : Seq(Bytes)]
    BY DEF NoLine, Error, EndOfFile
  <2>4. CASE Split
    <3>1. BeforeNewline \in Seq(Bytes) /\ ret' = Line(BeforeNewline) /\ call' = "none"
      BY <1>0, <2>4, BeforeNewlineFacts DEF Split, Return
    <3>2. ret' \in [kind : {"none", "line", "eof", "error"}, line : Seq(Bytes)]
          /\ ret'.kind = "line" /\ ret'.line \in Seq(Bytes)
      BY <3>1 DEF Line
    <3>3. lines' = Append(lines, ret'.line) /\ lines \in Seq(Seq(Bytes)) /\ replies \in 0 .. Len(lines)
      BY <1>0, <2>1, <3>2 DEF CallInv
    <3>4. lines' \in Seq(Seq(Bytes)) /\ Len(lines') = Len(lines) + 1
      BY <3>2, <3>3, AppendProperties
    <3>5. replies' \in 0 .. Len(lines') /\ replies' < Len(lines')
      BY <2>1, <3>3, <3>4
    <3> QED
      BY <2>1, <3>1, <3>2, <3>4, <3>5 DEF CallInv
  <2>5. CASE ~Split
    <3>1. ret' = NoLine \/ (ret' \in {Error, EndOfFile} /\ call' = "none")
      BY <2>1, <2>2, <2>5 DEF CrlStep, Room, Grow, GrowFails, Read, ReadInterrupted, ReadEnds,
         ReadFails, Return
    <3> QED
      BY <1>0, <2>1, <2>3, <3>1 DEF CallInv
  <2> QED
    BY <2>4, <2>5
<1>7. CASE Respond
  <2>1. /\ UNCHANGED <<ret, call, lines>> /\ replies' = replies + 1 /\ pc' = "write"
        /\ call = "none" /\ replies < Len(lines)
    BY <1>0, <1>7 DEF Respond, CallInv
  <2>2. replies' \in 0 .. Len(lines')
    BY <1>0, <2>1 DEF CallInv
  <2> QED
    BY <1>0, <2>1, <2>2 DEF CallInv
<1> QED
  BY <1>3, <1>4, <1>5, <1>6, <1>7 DEF Next

LEMMA WriteStep ==
  ASSUME TypeInv, [Next]_vars
  PROVE  WriteInv'
<1> USE DEF vars, stream, crl, registry, history, writers
<1>0. CallInv /\ WriteInv
  BY DEF TypeInv
<1>1. "server" \in Writers /\ Pushers \subseteq Writers /\ "server" \notin Pushers
  BY PushersAssumption DEF Writers
<1>2. ASSUME UNCHANGED <<todo, pushed>>, subscribed' \subseteq Pushers, pc # "write", pc' # "write"
      PROVE  WriteInv'
  BY <1>0, <1>2 DEF WriteInv
\* One writer has something else left.
<1>3. ASSUME NEW w \in Writers, NEW s, s \in Seq(Pieces), Len(s) <= Parts,
             \A k \in DOMAIN s : s[k].from = w, todo' = [todo EXCEPT ![w] = s],
             subscribed' \subseteq Pushers, pushed' \in [Pushers -> 0 .. MaxPush],
             IF w = "server" THEN s # <<>> <=> pc' = "write" ELSE pc' = pc
      PROVE  WriteInv'
  <2>1. todo' \in [Writers -> Seq(Pieces)]
        /\ \A v \in Writers : todo'[v] = IF v = w THEN s ELSE todo[v]
    BY <1>0, <1>3 DEF WriteInv
  <2>2. \A v \in Writers : Len(todo'[v]) <= Parts /\ \A k \in DOMAIN todo'[v] : todo'[v][k].from = v
    BY <1>0, <1>3, <2>1 DEF WriteInv
  <2>3. todo'["server"] # <<>> <=> pc' = "write"
    BY <1>0, <1>1, <1>3, <2>1 DEF WriteInv
  <2> QED
    BY <1>3, <2>1, <2>2, <2>3 DEF WriteInv
<1>4. <<>> \in Seq(Pieces) /\ Len(<<>>) <= Parts /\ \A w : \A k \in DOMAIN <<>> : <<>>[k].from = w
  OBVIOUS
<1>5. ASSUME UNCHANGED <<todo, pushed, subscribed, pc>> PROVE WriteInv'
  BY <1>0, <1>5 DEF WriteInv
<1>6. CASE Setup \/ Hangup \/ (\E b \in Bytes : Send(b)) \/ Creadline_r \/ UNCHANGED vars
  BY <1>5, <1>6 DEF Setup, Hangup, Send, Creadline_r
<1>7. CASE Accept \/ Select \/ Call \/ NoResponse \/ Abandon
  <2>1. subscribed \subseteq Pushers
    BY <1>0 DEF WriteInv
  <2> QED
    BY <1>2, <1>7, <2>1 DEF Accept, Select, Call, NoResponse, Abandon, Again
<1>8. ASSUME RemoveClient, UNCHANGED pushed PROVE WriteInv'
  <2>1. /\ todo' = [todo EXCEPT !["server"] = <<>>] /\ subscribed' = {} /\ pc' = "gone"
        /\ pushed' \in [Pushers -> 0 .. MaxPush]
    BY <1>0, <1>8 DEF RemoveClient, WriteInv
  <2> QED
    BY <1>1, <1>3, <1>4, <2>1
<1>9. CASE NoMoreLines \/ WriteFails
  BY <1>8, <1>9 DEF NoMoreLines, WriteFails
<1>10. CASE Respond
  <2>1. /\ todo' = [todo EXCEPT !["server"] = Message("server", replies')] /\ pc' = "write"
        /\ replies' \in Nat /\ pushed' \in [Pushers -> 0 .. MaxPush]
    BY <1>0, <1>10 DEF Respond, CallInv, WriteInv
  <2>2. subscribed' \subseteq Pushers
    <3>1. PICK o : Subscribe(o)
      BY <1>10 DEF Respond
    <3> QED
      BY <1>0, <3>1 DEF Subscribe, WriteInv
  <2>3. /\ Message("server", replies') \in Seq(Pieces) /\ Len(Message("server", replies')) <= Parts
        /\ Message("server", replies') # <<>>
        /\ \A k \in DOMAIN Message("server", replies') : Message("server", replies')[k].from = "server"
    BY <1>1, <2>1, MessageFacts
  <2> QED
    BY <1>1, <1>3, <2>1, <2>2, <2>3
\* What is left after a write.
<1>11. ASSUME NEW w \in Writers, WritePart(w)
       PROVE  \E s : /\ s \in Seq(Pieces) /\ Len(s) <= Parts /\ \A k \in DOMAIN s : s[k].from = w
                     /\ todo' = [todo EXCEPT ![w] = s] /\ todo'[w] = s
  <2>1. PICK n \in 1 .. Len(todo[w]) :
          todo' = [todo EXCEPT ![w] = SubSeq(todo[w], n + 1, Len(todo[w]))]
    BY <1>11 DEF WritePart
  <2>2. todo[w] \in Seq(Pieces) /\ Len(todo[w]) <= Parts /\ \A k \in DOMAIN todo[w] : todo[w][k].from = w
    BY <1>0 DEF WriteInv
  <2>3. todo'[w] = SubSeq(todo[w], n + 1, Len(todo[w]))
    BY <1>0, <2>1 DEF WriteInv
  <2>4. /\ SubSeq(todo[w], n + 1, Len(todo[w])) \in Seq(Pieces)
        /\ Len(SubSeq(todo[w], n + 1, Len(todo[w]))) <= Parts
        /\ \A k \in DOMAIN SubSeq(todo[w], n + 1, Len(todo[w])) :
             SubSeq(todo[w], n + 1, Len(todo[w]))[k].from = w
    BY ONLY <2>2, n \in 1 .. Len(todo[w]), LeftFacts
  <2> QED
    BY <2>1, <2>3, <2>4
<1>12. CASE Write
  <2>1. PICK s : /\ s \in Seq(Pieces) /\ Len(s) <= Parts /\ \A k \in DOMAIN s : s[k].from = "server"
                 /\ todo' = [todo EXCEPT !["server"] = s] /\ todo'["server"] = s
    BY <1>1, <1>11, <1>12 DEF Write
  <2>2. /\ s # <<>> <=> pc' = "write"
        /\ subscribed' \subseteq Pushers /\ pushed' \in [Pushers -> 0 .. MaxPush]
    BY <1>0, <1>12, <2>1 DEF Write, Again, WriteInv
  <2> QED
    BY <1>1, <1>3, <2>1, <2>2
<1>13. ASSUME NEW p \in Pushers, Push(p) PROVE WriteInv'
  <2>1. /\ pushed[p] \in 0 .. MaxPush /\ pushed[p] < MaxPush
        /\ pushed' = [pushed EXCEPT ![p] = pushed[p] + 1]
        /\ todo' = [todo EXCEPT ![p] = Message(p, pushed'[p])]
        /\ pc' = pc /\ subscribed' \subseteq Pushers
    BY <1>0, <1>13 DEF Push, WriteInv
  <2>2. pushed' \in [Pushers -> 0 .. MaxPush] /\ pushed'[p] \in Nat
    BY <1>0, <2>1 DEF WriteInv
  <2>3. /\ Message(p, pushed'[p]) \in Seq(Pieces) /\ Len(Message(p, pushed'[p])) <= Parts
        /\ \A k \in DOMAIN Message(p, pushed'[p]) : Message(p, pushed'[p])[k].from = p
    BY <1>1, <2>2, MessageFacts
  <2> QED
    BY <1>1, <1>3, <2>1, <2>2, <2>3
<1>14. ASSUME NEW p \in Pushers, PushWrite(p) PROVE WriteInv'
  <2>1. PICK s : /\ s \in Seq(Pieces) /\ Len(s) <= Parts /\ \A k \in DOMAIN s : s[k].from = p
                 /\ todo' = [todo EXCEPT ![p] = s]
    BY <1>1, <1>11, <1>14 DEF PushWrite
  <2>2. pc' = pc /\ subscribed' \subseteq Pushers /\ pushed' \in [Pushers -> 0 .. MaxPush]
    BY <1>0, <1>14 DEF PushWrite, WriteInv
  <2> QED
    BY <1>1, <1>3, <2>1, <2>2
<1>15. ASSUME NEW p \in Pushers, PushFails(p) PROVE WriteInv'
  <2>1. /\ todo' = [todo EXCEPT ![p] = <<>>] /\ pc' = pc
        /\ subscribed' \subseteq Pushers /\ pushed' \in [Pushers -> 0 .. MaxPush]
    BY <1>0, <1>15 DEF PushFails, WriteInv
  <2> QED
    BY <1>1, <1>3, <1>4, <2>1
<1> QED
  BY <1>6, <1>7, <1>9, <1>10, <1>12, <1>13, <1>14, <1>15 DEF Next

LEMMA PeerStep ==
  ASSUME TypeInv, [Next]_vars
  PROVE  PeerInv'
<1> USE DEF vars, stream, crl, registry, history, writers
<1>0. PeerInv
  BY DEF TypeInv
<1>1. ASSUME UNCHANGED <<eof, sent>>, last' = last \/ last' = Silence \/ last'.end = "response"
      PROVE  PeerInv'
  BY <1>0, <1>1 DEF PeerInv, Silence
<1>2. ASSUME NEW b \in Bytes, Send(b) PROVE PeerInv'
  <2>1. sent \in Seq(Bytes) /\ Len(sent) < MaxSent /\ sent' = Append(sent, b) /\ UNCHANGED <<eof, last>>
    BY <1>0, <1>2 DEF Send, PeerInv
  <2>2. sent' \in Seq(Bytes) /\ Len(sent') = Len(sent) + 1 /\ Len(sent) \in Nat
    BY <2>1, AppendProperties
  <2>3. Len(sent') <= MaxSent
    BY <2>1, <2>2
  <2> QED
    BY <1>0, <2>1, <2>2, <2>3 DEF PeerInv
<1>3. CASE Hangup
  BY <1>0, <1>3 DEF Hangup, PeerInv
<1>4. CASE Setup \/ Accept \/ Select \/ Call \/ NoResponse \/ Abandon \/ UNCHANGED vars
             \/ (\E p \in Pushers : Push(p) \/ PushWrite(p) \/ PushFails(p))
  BY <1>1, <1>4 DEF Setup, Accept, Select, Call, Begin, BeginFails, NoResponse, Abandon, Push,
     PushWrite, PushFails
<1>5. CASE Creadline_r
  BY <1>1, <1>5 DEF Creadline_r, CrlStep, Room, Grow, GrowFails, Read, ReadInterrupted, ReadEnds,
     ReadFails, Split
<1>6. CASE Respond \/ NoMoreLines \/ Write \/ WriteFails
  BY <1>1, <1>6 DEF Respond, NoMoreLines, Write, WriteFails, RemoveClient
<1> QED
  BY <1>2, <1>3, <1>4, <1>5, <1>6 DEF Next

LEMMA TypesAlways == Spec => []TypeInv
<1>1. ASSUME Init PROVE TypeInv
  <2>1. LineBuffer
    BY <1>1, LineBufferInit
  <2>2. CallInv
    BY <1>1 DEF Init, CrlInit, CallInv, NoLine
  <2>3. WriteInv
    <3>1. todo = [w \in Writers |-> <<>>] /\ "server" \in Writers
      BY <1>1 DEF Init, Writers
    <3>2. /\ todo \in [Writers -> Seq(Pieces)] /\ todo["server"] = <<>>
          /\ \A w \in Writers : Len(todo[w]) <= Parts /\ \A k \in DOMAIN todo[w] : todo[w][k].from = w
      BY <3>1
    <3>3. pushed \in [Pushers -> 0 .. MaxPush] /\ subscribed \subseteq Pushers /\ pc # "write"
      BY <1>1 DEF Init
    <3> QED
      BY <3>2, <3>3 DEF WriteInv
  <2>4. PeerInv
    <3>1. eof \in BOOLEAN
      BY <1>1, Zenon DEF Init
    <3>2. sent \in Seq(Bytes) /\ Len(sent) <= MaxSent /\ last.end = "silent"
      BY <1>1 DEF Init, Silence
    <3> QED
      BY <3>1, <3>2 DEF PeerInv
  <2> QED
    BY <2>1, <2>2, <2>3, <2>4 DEF TypeInv
<1>2. TypeInv /\ [Next]_vars => TypeInv'
  BY LineBufferNext, CallStep, WriteStep, PeerStep DEF TypeInv
<1> QED
  BY <1>1, <1>2, PTL DEF Spec

\* The variables keep their types whatever bytes come and however read() and
\* write() divide them; a response answers a line, each line at most once.
THEOREM TypeCorrect == Spec => []TypeOK
<1>1. ASSUME TypeInv PROVE TypeOK
  BY <1>1 DEF TypeInv, LineBuffer, CallInv, WriteInv, PeerInv, TypeOK, CrlTypeOK
<1> QED
  BY <1>1, TypesAlways, PTL

----------------------------------------------------------------------------
(* What the client gets.                                                   *)

\* The members of a sequence by place, and by being a part of a message.
LEMMA HoldsIs ==
  ASSUME NEW q, q \in Seq(Pieces), NEW w \in Writers, NEW n \in Nat
  PROVE  HoldsInOrder(q, w, n) <=>
           /\ \A i, j \in 1 .. Len(q) : i < j /\ q[i].from = w /\ q[j].from = w => Sooner(q[i], q[j])
           /\ \A i \in 1 .. Len(q) : q[i].from = w => q[i].id \in 1 .. n
           /\ \A id \in 1 .. n, part \in 1 .. Parts :
                \E i \in 1 .. Len(q) : q[i] = [from |-> w, id |-> id, part |-> part]
<1>1. DOMAIN q = 1 .. Len(q) /\ \A i \in 1 .. Len(q) : q[i] \in Pieces
  OBVIOUS
<1> DEFINE S == {m \in ToSet(q) : m.from = w}
           T == [from : {w}, id : 1 .. n, part : 1 .. Parts]
<1>2. \A m : m \in S <=> \E i \in 1 .. Len(q) : q[i] = m /\ q[i].from = w
  BY <1>1 DEF ToSet
<1>3. \A m : m \in T <=> /\ m = [from |-> m.from, id |-> m.id, part |-> m.part]
                         /\ m.from = w /\ m.id \in 1 .. n /\ m.part \in 1 .. Parts
  OBVIOUS
<1>4. \A m \in Pieces : m = [from |-> m.from, id |-> m.id, part |-> m.part] /\ m.part \in 1 .. Parts
  BY DEF Pieces
<1>5. S \subseteq T <=> \A i \in 1 .. Len(q) : q[i].from = w => q[i].id \in 1 .. n
  <2> HIDE DEF S, T
  <2> QED
    BY <1>1, <1>2, <1>3, <1>4
<1>6. T \subseteq S <=> \A id \in 1 .. n, part \in 1 .. Parts :
                          \E i \in 1 .. Len(q) : q[i] = [from |-> w, id |-> id, part |-> part]
  <2>1. \A id \in 1 .. n, part \in 1 .. Parts : [from |-> w, id |-> id, part |-> part] \in T
    OBVIOUS
  <2>2. \A id, part : [from |-> w, id |-> id, part |-> part].from = w
    OBVIOUS
  <2> HIDE DEF S, T
  <2>3. ASSUME T \subseteq S, NEW id \in 1 .. n, NEW part \in 1 .. Parts
        PROVE  \E i \in 1 .. Len(q) : q[i] = [from |-> w, id |-> id, part |-> part]
    BY <1>2, <2>1, <2>3
  <2>4. ASSUME \A id \in 1 .. n, part \in 1 .. Parts :
                 \E i \in 1 .. Len(q) : q[i] = [from |-> w, id |-> id, part |-> part],
               NEW m \in T
        PROVE  m \in S
    <3>1. m = [from |-> w, id |-> m.id, part |-> m.part] /\ m.id \in 1 .. n /\ m.part \in 1 .. Parts /\ m.from = w
      BY <1>3, <2>4
    <3>2. PICK i \in 1 .. Len(q) : q[i] = m
      BY <2>4, <3>1
    <3> QED
      BY <1>2, <3>1, <3>2
  <2> QED
    BY <2>3, <2>4
<1>7. HoldsInOrder(q, w, n) <=>
        /\ \A i, j \in 1 .. Len(q) : i < j /\ q[i].from = w /\ q[j].from = w => Sooner(q[i], q[j])
        /\ S = T
  BY <1>1 DEF HoldsInOrder
<1> HIDE DEF S, T
<1> QED
  BY <1>5, <1>6, <1>7

\* Places in three parts one after the other.
LEMMA ThreeParts ==
  ASSUME NEW a \in Seq(Pieces), NEW b \in Seq(Pieces), NEW c \in Seq(Pieces)
  PROVE  /\ (a \o b) \o c \in Seq(Pieces) /\ Len((a \o b) \o c) = Len(a) + Len(b) + Len(c)
         /\ \A i \in 1 .. Len(a) : ((a \o b) \o c)[i] = a[i]
         /\ \A i \in 1 .. Len(b) : ((a \o b) \o c)[i + Len(a)] = b[i]
         /\ \A i \in 1 .. Len(c) : ((a \o b) \o c)[i + Len(a) + Len(b)] = c[i]
<1> DEFINE ab == a \o b
<1>1. /\ ab \in Seq(Pieces) /\ Len(ab) = Len(a) + Len(b)
      /\ \A i \in 1 .. Len(a) : ab[i] = a[i]
      /\ \A i \in 1 .. Len(b) : ab[i + Len(a)] = b[i]
  BY ConcatFacts
<1>2. Len(a) \in Nat /\ Len(b) \in Nat /\ Len(c) \in Nat
  OBVIOUS
<1> HIDE DEF ab
<1>8. ab \in Seq(Pieces) /\ c \in Seq(Pieces)
  BY <1>1
<1>3. /\ ab \o c \in Seq(Pieces) /\ Len(ab \o c) = Len(ab) + Len(c)
      /\ \A i \in 1 .. Len(ab) : (ab \o c)[i] = ab[i]
      /\ \A i \in 1 .. Len(c) : (ab \o c)[i + Len(ab)] = c[i]
  BY ONLY <1>8, ConcatFacts
<1> DEFINE r == ab \o c
<1>4. /\ r \in Seq(Pieces) /\ Len(r) = Len(a) + Len(b) + Len(c)
      /\ \A i \in 1 .. Len(a) + Len(b) : r[i] = ab[i]
      /\ \A i \in 1 .. Len(c) : r[i + (Len(a) + Len(b))] = c[i]
  BY <1>1, <1>3
<1> HIDE DEF r
<1>5. \A i \in 1 .. Len(a) : r[i] = a[i]
  <2>1. \A i \in 1 .. Len(a) : i \in 1 .. Len(a) + Len(b)
    BY <1>2
  <2> QED
    BY <1>1, <1>4, <2>1
<1>6. \A i \in 1 .. Len(b) : r[i + Len(a)] = b[i]
  <2>1. \A i \in 1 .. Len(b) : i + Len(a) \in 1 .. Len(a) + Len(b)
    BY <1>2
  <2> QED
    BY <1>1, <1>4, <2>1
<1>7. \A i \in 1 .. Len(c) : r[i + Len(a) + Len(b)] = c[i]
  <2>1. \A i \in 1 .. Len(c) : i + Len(a) + Len(b) = i + (Len(a) + Len(b))
    BY <1>2
  <2> QED
    BY <1>4, <2>1
<1> QED
  BY <1>4, <1>5, <1>6, <1>7 DEF r, ab

\* Parts of other writers come between.
LEMMA OthersBetween ==
  ASSUME NEW a \in Seq(Pieces), NEW b \in Seq(Pieces), NEW c \in Seq(Pieces),
         NEW w \in Writers, NEW n \in Nat, \A k \in 1 .. Len(b) : b[k].from # w,
         HoldsInOrder(a \o c, w, n)
  PROVE  HoldsInOrder((a \o b) \o c, w, n)
<1> DEFINE q == a \o c
           r == (a \o b) \o c
           A == Len(a)
           B == Len(b)
           C == Len(c)
<1>1. A \in Nat /\ B \in Nat /\ C \in Nat
  OBVIOUS
<1>2. /\ q \in Seq(Pieces) /\ Len(q) = A + C
      /\ \A i \in 1 .. A : q[i] = a[i]
      /\ \A i \in 1 .. C : q[i + A] = c[i]
  BY ConcatFacts
<1>3. /\ r \in Seq(Pieces) /\ Len(r) = A + B + C
      /\ \A i \in 1 .. A : r[i] = a[i]
      /\ \A i \in 1 .. B : r[i + A] = b[i]
      /\ \A i \in 1 .. C : r[i + A + B] = c[i]
  BY ThreeParts
<1>12. HoldsInOrder(q, w, n)
  OBVIOUS
<1> HIDE DEF q
<1>4. /\ \A i, j \in 1 .. Len(q) : i < j /\ q[i].from = w /\ q[j].from = w => Sooner(q[i], q[j])
      /\ \A i \in 1 .. Len(q) : q[i].from = w => q[i].id \in 1 .. n
      /\ \A id \in 1 .. n, part \in 1 .. Parts :
           \E i \in 1 .. Len(q) : q[i] = [from |-> w, id |-> id, part |-> part]
  <2>1. q \in Seq(Pieces)
    BY <1>2
  <2> QED
    BY ONLY <2>1, <1>12, w \in Writers, n \in Nat, HoldsIs
<1>5. \A k \in 1 .. B : b[k].from # w
  OBVIOUS
<1> HIDE DEF r, A, B, C
\* Where a part of w in r is in q, and the other way round.
<1> DEFINE P(i) == IF i <= A THEN i ELSE i - B
<1>6. ASSUME NEW i \in 1 .. A + B + C, r[i].from = w
      PROVE  (i <= A \/ i > A + B) /\ P(i) \in 1 .. A + C /\ r[i] = q[P(i)]
  <2>1. CASE i <= A
    <3>1. i \in 1 .. A /\ i \in 1 .. A + C
      BY <1>1, <2>1
    <3> QED
      BY <1>2, <1>3, <2>1, <3>1
  <2>2. CASE i > A /\ i <= A + B
    <3>1. i - A \in 1 .. B /\ (i - A) + A = i
      BY <1>1, <2>2
    <3> QED
      BY <1>3, <1>5, <1>6, <3>1
  <2>3. CASE i > A + B
    <3> DEFINE k == i - A - B
    <3>1. k \in 1 .. C /\ k + A + B = i /\ k + A = i - B /\ i - B \in 1 .. A + C /\ ~(i <= A)
      BY <1>1, <2>3
    <3> HIDE DEF k
    <3>2. r[i] = c[k] /\ q[i - B] = c[k]
      BY <1>2, <1>3, <3>1
    <3> QED
      BY <2>3, <3>1, <3>2
  <2> QED
    BY <1>1, <2>1, <2>2, <2>3
<1>7. ASSUME NEW i \in 1 .. A + B + C, NEW j \in 1 .. A + B + C, i < j, r[i].from = w, r[j].from = w
      PROVE  Sooner(r[i], r[j])
  <2>1. /\ (i <= A \/ i > A + B) /\ P(i) \in 1 .. A + C /\ r[i] = q[P(i)]
        /\ (j <= A \/ j > A + B) /\ P(j) \in 1 .. A + C /\ r[j] = q[P(j)]
    BY <1>6, <1>7
  <2>2. P(i) < P(j)
    BY <1>1, <1>7, <2>1
  <2> QED
    BY <1>2, <1>4, <1>7, <2>1, <2>2
<1>8. ASSUME NEW i \in 1 .. A + B + C, r[i].from = w PROVE r[i].id \in 1 .. n
  BY <1>2, <1>4, <1>6, <1>8
<1>9. ASSUME NEW i \in 1 .. A + C PROVE \E j \in 1 .. A + B + C : r[j] = q[i]
  <2>1. CASE i <= A
    <3>1. i \in 1 .. A /\ i \in 1 .. A + B + C
      BY <1>1, <2>1
    <3> QED
      BY <1>2, <1>3, <3>1
  <2>2. CASE i > A
    <3> DEFINE k == i - A
    <3>1. k \in 1 .. C /\ k + A = i /\ k + A + B \in 1 .. A + B + C
      BY <1>1, <2>2
    <3> HIDE DEF k
    <3> QED
      BY <1>2, <1>3, <3>1
  <2> QED
    BY <1>1, <2>1, <2>2
<1>10. /\ \A i, j \in 1 .. Len(r) : i < j /\ r[i].from = w /\ r[j].from = w => Sooner(r[i], r[j])
       /\ \A i \in 1 .. Len(r) : r[i].from = w => r[i].id \in 1 .. n
       /\ \A id \in 1 .. n, part \in 1 .. Parts :
            \E i \in 1 .. Len(r) : r[i] = [from |-> w, id |-> id, part |-> part]
  <2>1. \A id \in 1 .. n, part \in 1 .. Parts :
            \E i \in 1 .. Len(r) : r[i] = [from |-> w, id |-> id, part |-> part]
    BY <1>2, <1>3, <1>4, <1>9
  <2> QED
    BY <1>3, <1>7, <1>8, <2>1
<1>11. HoldsInOrder(r, w, n)
  BY <1>3, <1>10, HoldsIs
<1> QED
  BY <1>11 DEF r

\* The next message begins.
LEMMA NextMessage ==
  ASSUME NEW a \in Seq(Pieces), NEW w \in Writers, NEW n \in Nat, HoldsInOrder(a, w, n)
  PROVE  HoldsInOrder(a \o Message(w, n + 1), w, n + 1)
<1> DEFINE m == Message(w, n + 1)
           r == a \o m
           A == Len(a)
<1>1. A \in Nat /\ n + 1 \in Nat
  OBVIOUS
<1>2. /\ m \in Seq(Pieces) /\ Len(m) = Parts
      /\ \A k \in 1 .. Parts : m[k] = [from |-> w, id |-> n + 1, part |-> k]
  BY <1>1, MessageFacts DEF Message
<1>3. /\ \A i, j \in 1 .. A : i < j /\ a[i].from = w /\ a[j].from = w => Sooner(a[i], a[j])
      /\ \A i \in 1 .. A : a[i].from = w => a[i].id \in 1 .. n
      /\ \A id \in 1 .. n, part \in 1 .. Parts :
           \E i \in 1 .. A : a[i] = [from |-> w, id |-> id, part |-> part]
  BY HoldsIs
<1> HIDE DEF m
<1>10. a \in Seq(Pieces) /\ m \in Seq(Pieces)
  BY <1>2
<1>11. /\ a \o m \in Seq(Pieces) /\ Len(a \o m) = Len(a) + Len(m)
       /\ \A i \in 1 .. Len(a) : (a \o m)[i] = a[i]
       /\ \A i \in 1 .. Len(m) : (a \o m)[i + Len(a)] = m[i]
  BY ONLY <1>10, ConcatFacts
<1>4. /\ r \in Seq(Pieces) /\ Len(r) = A + Parts
      /\ \A i \in 1 .. A : r[i] = a[i]
      /\ \A i \in 1 .. Parts : r[i + A] = m[i]
  BY <1>2, <1>11
<1> HIDE DEF r, A
<1>5. ASSUME NEW i \in 1 .. A + Parts
      PROVE  i \in 1 .. A \/ (i - A \in 1 .. Parts /\ r[i].id = n + 1 /\ r[i].part = i - A)
  <2>1. i \in 1 .. A \/ (i - A \in 1 .. Parts /\ (i - A) + A = i)
    BY <1>1
  <2>2. CASE i - A \in 1 .. Parts /\ (i - A) + A = i
    <3>1. r[i] = m[i - A]
      BY <1>4, <2>2
    <3>2. r[i] = [from |-> w, id |-> n + 1, part |-> i - A]
      BY <1>2, <2>2, <3>1
    <3> QED
      BY ONLY <2>2, <3>2
  <2> QED
    BY <2>1, <2>2
<1>6. ASSUME NEW i \in 1 .. A + Parts, NEW j \in 1 .. A + Parts, i < j, r[i].from = w, r[j].from = w
      PROVE  Sooner(r[i], r[j])
  <2>1. CASE i \in 1 .. A /\ j \in 1 .. A
    BY <1>3, <1>4, <1>6, <2>1
  <2>2. CASE i \in 1 .. A /\ j \notin 1 .. A
    <3>1. r[i].id \in 1 .. n /\ r[j].id = n + 1
      BY <1>3, <1>4, <1>5, <1>6, <2>2
    <3> QED
      BY <3>1 DEF Sooner
  <2>3. CASE i \notin 1 .. A
    <3>1. j \notin 1 .. A
      BY <1>1, <1>6, <2>3
    <3>2. r[i].id = n + 1 /\ r[j].id = n + 1 /\ r[i].part = i - A /\ r[j].part = j - A
      BY <1>5, <2>3, <3>1
    <3>3. i - A < j - A
      BY <1>1, <1>6
    <3> QED
      BY <3>2, <3>3 DEF Sooner
  <2> QED
    BY <2>1, <2>2, <2>3
<1>7. ASSUME NEW i \in 1 .. A + Parts, r[i].from = w PROVE r[i].id \in 1 .. n + 1
  <2>1. \A id \in 1 .. n : id \in 1 .. n + 1
    OBVIOUS
  <2>2. n + 1 \in 1 .. n + 1
    OBVIOUS
  <2>3. CASE i \in 1 .. A
    BY <1>3, <1>4, <1>7, <2>1, <2>3
  <2>4. CASE i \notin 1 .. A
    BY <1>5, <2>2, <2>4
  <2> QED
    BY <2>3, <2>4
<1>8. ASSUME NEW id \in 1 .. n + 1, NEW part \in 1 .. Parts
      PROVE  \E i \in 1 .. A + Parts : r[i] = [from |-> w, id |-> id, part |-> part]
  <2>1. CASE id \in 1 .. n
    <3>1. PICK i \in 1 .. A : a[i] = [from |-> w, id |-> id, part |-> part]
      BY <1>3, <2>1
    <3>2. i \in 1 .. A + Parts /\ r[i] = a[i]
      BY <1>1, <1>4
    <3> QED
      BY <3>1, <3>2
  <2>2. CASE id = n + 1
    <3>1. part + A \in 1 .. A + Parts /\ r[part + A] = m[part]
      BY <1>1, <1>4
    <3> QED
      BY <1>2, <2>2, <3>1
  <2> QED
    BY <2>1, <2>2
<1>12. /\ \A i, j \in 1 .. Len(r) : i < j /\ r[i].from = w /\ r[j].from = w => Sooner(r[i], r[j])
       /\ \A i \in 1 .. Len(r) : r[i].from = w => r[i].id \in 1 .. n + 1
       /\ \A id \in 1 .. n + 1, part \in 1 .. Parts :
            \E i \in 1 .. Len(r) : r[i] = [from |-> w, id |-> id, part |-> part]
  BY <1>4, <1>6, <1>7, <1>8
<1>9. HoldsInOrder(r, w, n + 1)
  BY <1>1, <1>4, <1>12, HoldsIs
<1> QED
  BY <1>9 DEF r, m

\* EachInOrder, and what was written consists of parts of messages.
Begun(w) == IF w = "server" THEN replies ELSE pushed[w]
OrderInv ==
  /\ out \in Seq(Pieces)
  /\ ~eof /\ pc # "gone" => \A w \in Writers : HoldsInOrder(out \o todo[w], w, Begun(w))

LEMMA BegunFacts ==
  ASSUME TypeInv, NEW w \in Writers
  PROVE  Begun(w) \in Nat
<1>1. replies \in Nat
  BY DEF TypeInv, CallInv
<1>2. w # "server" => pushed[w] \in Nat
  BY DEF TypeInv, WriteInv, Writers
<1> QED
  BY <1>1, <1>2 DEF Begun

LEMMA PiecesRegroup ==
  \A p, a, b \in Seq(Pieces) : (p \o a) \o b = p \o (a \o b)
  BY ONLY Regroup, SMTT(60)

\* A writer writes some of what it has left: its own parts stay the same, and
\* those of another writer do too.
LEMMA WritePartStep ==
  ASSUME TypeInv, OrderInv, NEW v \in Writers, WritePart(v)
  PROVE  /\ out' \in Seq(Pieces)
         /\ ~eof /\ pc # "gone" => \A w \in Writers : HoldsInOrder(out' \o todo'[w], w, Begun(w))
<1>1. PICK n \in 1 .. Len(todo[v]) :
        /\ out' = out \o SubSeq(todo[v], 1, n)
        /\ todo' = [todo EXCEPT ![v] = SubSeq(todo[v], n + 1, Len(todo[v]))]
  BY DEF WritePart
<1>2. todo \in [Writers -> Seq(Pieces)] /\ out \in Seq(Pieces)
      /\ \A k \in DOMAIN todo[v] : todo[v][k].from = v
  BY DEF TypeInv, WriteInv, OrderInv
<1>3. todo[v] \in Seq(Pieces)
  BY <1>2
<1> DEFINE new == SubSeq(todo[v], 1, n)
           left == SubSeq(todo[v], n + 1, Len(todo[v]))
<1>4. /\ new \in Seq(Pieces) /\ left \in Seq(Pieces) /\ new \o left = todo[v]
      /\ \A k \in 1 .. Len(new) : new[k].from = v
  <2> SUFFICES ASSUME NEW s, s \in Seq(Pieces), n \in 1 .. Len(s), \A k \in DOMAIN s : s[k].from = v
               PROVE  /\ SubSeq(s, 1, n) \in Seq(Pieces) /\ SubSeq(s, n + 1, Len(s)) \in Seq(Pieces)
                      /\ SubSeq(s, 1, n) \o SubSeq(s, n + 1, Len(s)) = s
                      /\ \A k \in 1 .. Len(SubSeq(s, 1, n)) : SubSeq(s, 1, n)[k].from = v
    BY <1>2, <1>3
  <2>1. Len(s) \in Nat /\ n \in Nat /\ 1 <= n /\ n <= Len(s)
    OBVIOUS
  <2>2. n \in 1 - 1 .. Len(s) /\ 1 \in 1 .. Len(s) + 1 /\ Len(s) \in n .. Len(s)
    BY <2>1
  <2>3. SubSeq(s, 1, n) \o SubSeq(s, n + 1, Len(s)) = s
    BY <2>2, ConcatAdjacentSubSeq, SubSeqFull
  <2>4. \A k \in 1 .. Len(s) : s[k] \in Pieces /\ s[k].from = v
    BY <2>1
  <2>5. /\ SubSeq(s, 1, n) \in Seq(Pieces) /\ Len(SubSeq(s, 1, n)) = n
        /\ \A k \in 1 .. n : SubSeq(s, 1, n)[k] = s[k]
        /\ SubSeq(s, n + 1, Len(s)) \in Seq(Pieces)
    BY <2>1, <2>4
  <2>6. \A k \in 1 .. Len(SubSeq(s, 1, n)) : SubSeq(s, 1, n)[k].from = v
    BY <2>1, <2>4, <2>5
  <2> QED
    BY <2>3, <2>5, <2>6
<1>5. out' = out \o new /\ todo' = [todo EXCEPT ![v] = left]
  BY <1>1
<1> HIDE DEF new, left
<1>6. out' \in Seq(Pieces)
  BY <1>2, <1>4, <1>5
<1>7. out \in Seq(Pieces) /\ new \in Seq(Pieces) /\ left \in Seq(Pieces)
  BY <1>2, <1>4
<1>8. ASSUME ~eof /\ pc # "gone", NEW w \in Writers
      PROVE  HoldsInOrder(out' \o todo'[w], w, Begun(w))
  <2>1. HoldsInOrder(out \o todo[w], w, Begun(w)) /\ Begun(w) \in Nat /\ todo[w] \in Seq(Pieces)
    BY <1>2, <1>8, BegunFacts DEF OrderInv
  <2>2. CASE w = v
    <3>1. todo'[w] = left
      BY <1>2, <1>5, <2>2
    <3>2. (out \o new) \o left = out \o (new \o left)
      BY <1>7, PiecesRegroup, Zenon
    <3>3. out' \o todo'[w] = out \o todo[w]
      BY <1>4, <1>5, <2>2, <3>1, <3>2
    <3> QED
      BY <2>1, <3>3
  <2>3. CASE w # v
    <3>1. todo'[w] = todo[w]
      BY <1>2, <1>5, <2>3
    <3>2. \A k \in 1 .. Len(new) : new[k].from # w
      BY <1>4, <2>3
    <3>3. HoldsInOrder((out \o new) \o todo[w], w, Begun(w))
      BY ONLY <1>2, <1>4, <2>1, <3>2, w \in Writers, OthersBetween
    <3> QED
      BY <1>5, <3>1, <3>3
  <2> QED
    BY <2>2, <2>3
<1> QED
  BY <1>6, <1>8

LEMMA OrderStep ==
  ASSUME TypeInv, OrderInv, [Next]_vars
  PROVE  OrderInv'
<1> USE DEF vars, stream, crl, registry, history, writers
<1>0. out \in Seq(Pieces) /\ todo \in [Writers -> Seq(Pieces)] /\ pushed \in [Pushers -> 0 .. MaxPush]
      /\ (todo["server"] # <<>> <=> pc = "write")
  BY DEF TypeInv, WriteInv, OrderInv
<1>1. "server" \in Writers /\ Pushers \subseteq Writers /\ "server" \notin Pushers
  BY PushersAssumption DEF Writers
<1>2. ASSUME UNCHANGED <<out, todo, replies, pushed>>, eof \/ pc = "gone" => eof' \/ pc' = "gone"
      PROVE  OrderInv'
  BY <1>2 DEF OrderInv, Begun
<1>3. ASSUME UNCHANGED out, eof' \/ pc' = "gone" PROVE OrderInv'
  BY <1>3 DEF OrderInv
<1>4. CASE Setup \/ Accept \/ (\E b \in Bytes : Send(b)) \/ Select \/ NoResponse \/ Abandon \/ UNCHANGED vars
  BY <1>2, <1>4 DEF Setup, Accept, Send, Select, NoResponse, Abandon
<1>5. CASE Call
  BY <1>2, <1>5 DEF Call, Begin, BeginFails
<1>6. CASE Creadline_r
  BY <1>2, <1>6 DEF Creadline_r, CrlStep, Room, Grow, GrowFails, Read, ReadInterrupted, ReadEnds,
     ReadFails, Split
<1>7. CASE Hangup \/ NoMoreLines \/ WriteFails
  BY <1>3, <1>7 DEF Hangup, NoMoreLines, WriteFails, RemoveClient
<1>8. ASSUME NEW p \in Pushers, PushFails(p) PROVE OrderInv'
  BY <1>3, <1>8 DEF PushFails
<1>9. ASSUME NEW v \in Writers, WritePart(v), UNCHANGED <<eof, replies, pushed>>, pc = "gone" => pc' = "gone"
      PROVE  OrderInv'
  <2>1. \A w \in Writers : Begun(w)' = Begun(w)
    BY <1>9 DEF Begun
  <2> QED
    BY <1>9, <2>1, WritePartStep DEF OrderInv
<1>10. CASE Write
  BY <1>1, <1>9, <1>10 DEF Write
<1>11. ASSUME NEW p \in Pushers, PushWrite(p) PROVE OrderInv'
  BY <1>1, <1>9, <1>11 DEF PushWrite
\* One writer begins a message.
<1>12. ASSUME NEW v \in Writers, todo[v] = <<>>, UNCHANGED <<out, eof>>, pc = "gone" => pc' = "gone",
              todo' = [todo EXCEPT ![v] = Message(v, Begun(v) + 1)],
              Begun(v)' = Begun(v) + 1, \A w \in Writers : w # v => Begun(w)' = Begun(w)
       PROVE  OrderInv'
  <2> SUFFICES ASSUME ~eof', pc' # "gone", NEW w \in Writers
               PROVE  HoldsInOrder(out' \o todo'[w], w, Begun(w)')
    BY <1>0, <1>12 DEF OrderInv
  <2>1. HoldsInOrder(out \o todo[w], w, Begun(w)) /\ Begun(w) \in Nat
    BY <1>12, BegunFacts DEF OrderInv
  <2>2. CASE w = v
    <3>1. todo'[w] = Message(w, Begun(w) + 1)
      BY <1>0, <1>12, <2>2
    <3>2. out \o todo[w] = out
      BY <1>0, <1>12, <2>2, ConcatEmptySeq
    <3>3. HoldsInOrder(out \o Message(w, Begun(w) + 1), w, Begun(w) + 1)
      BY <1>0, <2>1, <3>2, NextMessage
    <3> QED
      BY <1>12, <2>2, <3>1, <3>3
  <2>3. CASE w # v
    BY <1>0, <1>12, <2>1, <2>3
  <2> QED
    BY <2>2, <2>3
<1>13. CASE Respond
  <2>1. /\ todo["server"] = <<>> /\ UNCHANGED <<out, eof, pushed>> /\ pc # "gone"
        /\ replies' = replies + 1 /\ todo' = [todo EXCEPT !["server"] = Message("server", replies + 1)]
    BY <1>0, <1>13 DEF Respond
  <2>2. Begun("server")' = Begun("server") + 1 /\ Begun("server") = replies
        /\ \A w \in Writers : w # "server" => Begun(w)' = Begun(w)
    BY <2>1 DEF Begun
  <2> QED
    BY <1>1, <1>12, <2>1, <2>2
<1>14. ASSUME NEW p \in Pushers, Push(p) PROVE OrderInv'
  <2>1. /\ todo[p] = <<>> /\ UNCHANGED <<out, eof, pc, replies>>
        /\ pushed' = [pushed EXCEPT ![p] = pushed[p] + 1]
        /\ todo' = [todo EXCEPT ![p] = Message(p, pushed'[p])]
    BY <1>14 DEF Push
  <2>2. pushed'[p] = pushed[p] + 1 /\ \A w \in Pushers : w # p => pushed'[w] = pushed[w]
    BY <1>0, <2>1
  <2>3. Begun(p)' = Begun(p) + 1 /\ Begun(p) = pushed[p]
        /\ \A w \in Writers : w # p => Begun(w)' = Begun(w)
    BY <1>1, <2>1, <2>2 DEF Begun, Writers
  <2> QED
    BY <1>1, <1>12, <2>1, <2>2, <2>3
<1> QED
  BY <1>4, <1>5, <1>6, <1>7, <1>8, <1>10, <1>11, <1>13, <1>14 DEF Next

\* write_n, called by the server thread and by push threads for one socket:
\* of each writer the client gets the parts of its messages in order, none
\* left out and none twice.
THEOREM WritesKept == Spec => []EachInOrder
<1>1. ASSUME Init PROVE OrderInv
  <2>1. /\ out = <<>> /\ out \in Seq(Pieces)
        /\ \A w \in Writers : todo[w] = <<>> /\ Begun(w) = 0
    BY <1>1 DEF Init, Begun, Writers
  <2>2. ASSUME NEW w \in Writers PROVE HoldsInOrder(<<>>, w, 0)
    BY <2>2 DEF HoldsInOrder, ToSet
  <2>3. out \o <<>> = <<>>
    BY <2>1, ConcatEmptySeq
  <2> QED
    BY <2>1, <2>2, <2>3 DEF OrderInv
<1>2. ASSUME OrderInv PROVE EachInOrder
  BY <1>2 DEF OrderInv, EachInOrder, Begun
<1>3. TypeInv /\ OrderInv /\ [Next]_vars => OrderInv'
  BY OrderStep
<1> QED
  BY <1>1, <1>2, <1>3, TypesAlways, PTL DEF Spec
=============================================================================
