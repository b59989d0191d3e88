--------------------------- MODULE JapiServerProofs ---------------------------
(***************************************************************************)
(* What JapiServer guarantees for every set of connections, every limit,   *)
(* every width of the counter and every length of line: the scan only      *)
(* holds clients that are in its list, no line buffer holds bytes when the *)
(* server waits in select(), a visit never blocks before its first byte,   *)
(* clients are counted, and no request is lost or answered twice.          *)
(***************************************************************************)
EXTENDS JapiServer, ListLemmas, Integers, FiniteSetTheorems

InVisit == {"line", "reply", "again"}

\* A connection is in the list once or in the backlog once, and in neither
\* before its client has opened it.
ListInv ==
  /\ IsInjective(clients) /\ IsInjective(backlog)
  /\ Linked \cap ToSet(backlog) = {}
  /\ \A c \in Conns : peer[c] = "new" => c \notin Linked \cup ToSet(backlog)

\* The scan visits a client of the list and has saved the one behind it.
PointerInv ==
  /\ pc \in InVisit => cur \in Linked /\ following = NextOf(cur)
  /\ pc \notin InVisit => following = NULL
  /\ pc = "scan" => cur \in Linked \cup {NULL}
  /\ pc \notin InVisit \cup {"scan"} => cur = NULL

\* Only the client whose line has just been taken has anything buffered.
BufferInv ==
  \A c \in Conns : buf[c] # <<>> => pc \in {"reply", "again"} /\ cur = c

\* The elements of a list from c on.
From(q, c) == {n \in ToSet(q) : \E i, j \in DOMAIN q : i <= j /\ q[i] = c /\ q[j] = n}

\* Clients select() reported and the scan has not come to can be read without
\* blocking, and so can the one just come to. A connection it reported is
\* still there.
HasInput(c) == wire[c] # <<>> \/ peer[c] = "closed"
ReadyInv ==
  /\ pc = "scan" => \A c \in From(clients, cur) \cap ready : HasInput(c)
  /\ pc \in InVisit => \A c \in From(clients, following) \cap ready : HasInput(c)
  /\ FirstReadReady
  /\ pc \in InVisit \cup {"scan"} /\ Listener \in ready => backlog # <<>>

IInv == TypeOK /\ ListInv /\ PointerInv /\ BufferInv /\ ReadyInv /\ ClientCount

----------------------------------------------------------------------------
(* Counting in a fixed width.                                              *)

\* A number has one remainder.
LEMMA OneRemainder ==
  ASSUME NEW m \in Nat \ {0}, NEW a \in Int, NEW b \in Int,
         NEW r \in 0 .. m - 1, NEW s \in 0 .. m - 1, m * a + r = m * b + s
  PROVE  r = s
<1>1. m * (a - b) = s - r
  OBVIOUS
<1>2. ASSUME NEW d \in Int, d >= 1 PROVE m * d >= m
  <2>1. m * (d - 1) >= 0
    BY <1>2
  <2> QED
    BY <1>2, <2>1
<1>3. CASE a - b >= 1
  <2>1. m * (a - b) >= m
    BY <1>2, <1>3
  <2> QED
    BY <1>1, <2>1
<1>4. CASE b - a >= 1
  <2>1. m * (b - a) >= m
    BY <1>2, <1>4
  <2>2. m * (b - a) = r - s
    BY <1>1
  <2> QED
    BY <2>1, <2>2
<1> QED
  BY <1>1, <1>3, <1>4

LEMMA RemainderIs ==
  ASSUME NEW m \in Nat \ {0}, NEW x \in Nat, NEW a \in Int, NEW r \in 0 .. m - 1, x = m * a + r
  PROVE  x % m = r
<1>1. x = m * (x \div m) + (x % m) /\ x \div m \in Int /\ x % m \in 0 .. m - 1
  OBVIOUS
<1> QED
  BY <1>1, OneRemainder

\* One up and one down on a counter that wraps.
LEMMA CountUp ==
  ASSUME NEW m \in Nat \ {0}, NEW x \in Nat
  PROVE  ((x % m) + 1) % m = (x + 1) % m
<1> DEFINE a == x \div m
           r == x % m
<1>1. x = m * a + r /\ a \in Int /\ r \in 0 .. m - 1
  OBVIOUS
<1> HIDE DEF a, r
<1>2. CASE r + 1 < m
  <2>1. r + 1 \in 0 .. m - 1 /\ r + 1 \in Nat
    BY <1>1, <1>2
  <2>2. (r + 1) % m = r + 1
    BY <2>1
  <2>3. x + 1 = m * a + (r + 1)
    BY <1>1
  <2>4. (x + 1) % m = r + 1
    BY <1>1, <2>1, <2>3, RemainderIs
  <2> QED
    BY <2>2, <2>4 DEF r
<1>3. CASE r + 1 = m
  <2>1. m = m * 1 + 0 /\ x + 1 = m * (a + 1) + 0
    BY <1>1, <1>3
  <2>2. m % m = 0 /\ (x + 1) % m = 0
    BY <1>1, <2>1, RemainderIs
  <2> QED
    BY <1>3, <2>2 DEF r
<1> QED
  BY <1>1, <1>2, <1>3

LEMMA CountDown ==
  ASSUME NEW m \in Nat \ {0}, NEW x \in Nat \ {0}
  PROVE  ((x % m) + m - 1) % m = (x - 1) % m
<1> DEFINE a == x \div m
           r == x % m
<1>1. x = m * a + r /\ a \in Int /\ r \in 0 .. m - 1
  OBVIOUS
<1> HIDE DEF a, r
<1>2. CASE r = 0
  <2>1. m - 1 \in 0 .. m - 1 /\ r + m - 1 = m - 1
    BY <1>1, <1>2
  <2>2. (r + m - 1) % m = m - 1
    BY <2>1
  <2>3. x - 1 = m * (a - 1) + (m - 1)
    BY <1>1, <1>2
  <2>4. (x - 1) % m = m - 1
    BY <1>1, <2>1, <2>3, RemainderIs
  <2> QED
    BY <2>2, <2>4 DEF r
<1>3. CASE r > 0
  <2>1. r - 1 \in 0 .. m - 1
    BY <1>1, <1>3
  <2>2. r + m - 1 = m * 1 + (r - 1) /\ x - 1 = m * a + (r - 1)
    BY <1>1
  <2>3. (r + m - 1) % m = r - 1
    BY <1>1, <2>1, <2>2, RemainderIs
  <2>4. (x - 1) % m = r - 1
    BY <1>1, <2>1, <2>2, RemainderIs
  <2> QED
    BY <2>3, <2>4 DEF r
<1> QED
  BY <1>1, <1>2, <1>3

\* The counter has room for a limit.
LEMMA WidthFacts ==
  ASSUME max_clients \in Limits
  PROVE  2 ^ CountWidth \in Nat \ {0} /\ max_clients \in 0 .. 2 ^ CountWidth - 1
<1>1. CountWidth \in Nat /\ 2 ^ CountWidth \in Int
  BY NumbersAssumption
<1>2. max_clients \in Nat /\ max_clients < 2 ^ CountWidth
  BY NumbersAssumption
<1> DEFINE m == 2 ^ CountWidth
<1> HIDE DEF m
<1>3. m \in Nat \ {0} /\ max_clients \in 0 .. m - 1
  BY <1>1, <1>2 DEF m
<1> QED
  BY <1>3 DEF m

----------------------------------------------------------------------------
(* The list of clients.                                                    *)

\* What is behind a client is another one, and nothing behind it is the
\* client itself.
LEMMA NextOfFacts ==
  ASSUME clients \in Seq(Conns), IsInjective(clients), NEW c
  PROVE  /\ NextOf(c) \in (Linked \ {c}) \cup {NULL}
         /\ c \in Linked => From(clients, NextOf(c)) \subseteq From(clients, c) \ {c}
         /\ NULL \notin Linked /\ From(clients, NULL) = {}
<1> DEFINE q == clients
           at == {i \in 1 .. Len(q) - 1 : q[i] = c}
<1>1. q \in Seq(Conns) /\ IsInjective(q)
  OBVIOUS
<1>2. NextOf(c) = IF at = {} THEN NULL ELSE q[1 + CHOOSE i \in 1 .. Len(q) - 1 : q[i] = c]
  BY DEF NextOf
<1>3. NULL \notin Linked
  BY ConnsAssumption DEF Linked, ToSet
<1>4. Linked = ToSet(q)
  BY DEF Linked
<1> HIDE DEF q
<1>5. Len(q) \in Nat /\ DOMAIN q = 1 .. Len(q)
  BY <1>1
<1>6. From(q, NULL) = {}
  BY <1>3, <1>4 DEF From, ToSet
<1>7. CASE at = {}
  BY <1>2, <1>3, <1>6, <1>7 DEF q
<1>8. ASSUME NEW i \in at
      PROVE  /\ NextOf(c) \in (Linked \ {c})
             /\ From(q, NextOf(c)) \subseteq From(q, c) \ {c}
  <2>1. i \in DOMAIN q /\ i + 1 \in DOMAIN q /\ i \in 1 .. Len(q) - 1 /\ q[i] = c
    BY <1>5, <1>8
  <2>2. (CHOOSE j \in 1 .. Len(q) - 1 : q[j] = c) = i
    <3>1. \A j \in 1 .. Len(q) - 1 : q[j] = c => j = i
      BY <1>1, <1>5, <2>1 DEF IsInjective
    <3> QED
      BY <2>1, <3>1
  <2>3. NextOf(c) = q[i + 1]
    <3>1. NextOf(c) = q[1 + i]
      BY <1>2, <1>8, <2>2
    <3>2. 1 + i = i + 1
      BY <1>5, <2>1
    <3> QED
      BY <3>1, <3>2
  <2>4. q[i + 1] # c /\ q[i + 1] \in ToSet(q)
    BY <1>1, <1>5, <2>1 DEF IsInjective, ToSet
  <2>5. ASSUME NEW n \in From(q, q[i + 1]) PROVE n \in From(q, c) \ {c}
    <3> PICK j \in DOMAIN q, k \in DOMAIN q : j <= k /\ q[j] = q[i + 1] /\ q[k] = n
      BY <2>5 DEF From
    <3>1. j = i + 1
      BY <1>1, <2>1 DEF IsInjective
    <3>2. i <= k /\ i # k
      BY <1>5, <2>1, <3>1
    <3>3. n # c
      BY <1>1, <2>1, <3>2 DEF IsInjective
    <3> QED
      BY <2>1, <2>5, <3>2, <3>3 DEF From
  <2> QED
    BY <1>4, <2>3, <2>4, <2>5
<1> HIDE DEF at
<1> QED
  BY <1>3, <1>6, <1>7, <1>8, <1>2 DEF q

\* Removing an element leaves nothing new behind another.
LEMMA FromShrinks ==
  ASSUME NEW q \in Seq(Conns), IsInjective(q), NEW x, NEW c
  PROVE  From(RemoveFirst(q, x), c) \subseteq From(q, c)
<1> DEFINE r == RemoveFirst(q, x)
<1> SUFFICES ASSUME NEW n \in From(r, c) PROVE n \in From(q, c)
  OBVIOUS
<1>1. r \in Seq(Conns) /\ ToSet(r) = ToSet(q) \ {x}
  BY RemoveFirstFacts
<1>2. ASSUME NEW i \in DOMAIN r, NEW j \in DOMAIN r, i < j
      PROVE  \E k, m \in DOMAIN q : k < m /\ r[i] = q[k] /\ r[j] = q[m]
  BY <1>2, RemoveFirstOrder
<1> HIDE DEF r
<1> PICK i \in DOMAIN r, j \in DOMAIN r : i <= j /\ r[i] = c /\ r[j] = n
  BY DEF From
<1>3. i \in Nat /\ j \in Nat /\ DOMAIN q \subseteq Nat
  BY <1>1
<1>4. n \in ToSet(q)
  BY <1>1 DEF From
<1>5. CASE i < j
  <2> PICK k \in DOMAIN q, m \in DOMAIN q : k < m /\ r[i] = q[k] /\ r[j] = q[m]
    BY <1>2, <1>5
  <2>1. k <= m
    BY <1>3
  <2> QED
    BY <1>4, <2>1 DEF From
<1>6. CASE i = j
  <2> PICK k \in DOMAIN q : q[k] = n
    BY <1>4 DEF ToSet
  <2>1. k <= k /\ c = n
    BY <1>3, <1>6
  <2> QED
    BY <1>4, <2>1 DEF From
<1> QED
  BY <1>3, <1>5, <1>6

\* Every element is among those from the head on.
LEMMA FromHead ==
  ASSUME NEW q, NEW c
  PROVE  From(q, c) \subseteq ToSet(q)
  BY DEF From

\* japi_remove_client takes one client off the list and empties its buffer.
LEMMA UnlinkFacts ==
  ASSUME TypeOK, ListInv, ClientCount, NEW c \in Linked, Unlink(c)
  PROVE  /\ clients' \in Seq(Conns) /\ IsInjective(clients')
         /\ ToSet(clients') = Linked \ {c}
         /\ \A d : From(clients', d) \subseteq From(clients, d)
         /\ c \in Conns
         /\ num_clients' = Len(clients') % 2 ^ CountWidth
         /\ Len(clients') = Len(clients) - 1
         /\ \A d \in Conns : /\ buf'[d] = IF d = c THEN <<>> ELSE buf[d]
                             /\ peer'[d] = IF d = c THEN "dropped" ELSE peer[d]
                             /\ wire'[d] = IF d = c THEN <<>> ELSE wire[d]
<1>1. clients \in Seq(Conns) /\ IsInjective(clients) /\ c \in ToSet(clients)
  BY DEF TypeOK, ListInv, Linked
<1>2. /\ clients' = RemoveFirst(clients, c)
      /\ clients' \in Seq(Conns) /\ IsInjective(clients')
      /\ ToSet(clients') = Linked \ {c}
      /\ Len(clients') = Len(clients) - 1
  BY <1>1, RemoveFirstFacts DEF Unlink, Linked
<1>3. \A d : From(clients', d) \subseteq From(clients, d)
  BY <1>1, <1>2, FromShrinks
<1>4. c \in Conns
  BY <1>1 DEF ToSet
<1>5. num_clients' = Len(clients') % 2 ^ CountWidth
  <2> DEFINE m == 2 ^ CountWidth
             n == Len(clients)
  <2>1. m \in Nat \ {0}
    BY WidthFacts DEF TypeOK
  <2>2. n \in Nat \ {0}
    BY <1>1 DEF ToSet
  <2>3. num_clients = n % m /\ num_clients' = (num_clients + m - 1) % m
    BY DEF ClientCount, Unlink
  <2> HIDE DEF m, n
  <2>4. num_clients' = (n - 1) % m
    BY <2>1, <2>2, <2>3, CountDown
  <2> QED
    BY <1>2, <2>4 DEF m, n
<1> QED
  BY <1>2, <1>3, <1>4, <1>5 DEF Unlink, TypeOK

\* The connection accept() returns is the first in the backlog.
LEMMA AcceptFacts ==
  ASSUME IInv, Accepting
  PROVE  /\ Head(backlog) \in Conns /\ Head(backlog) \in ToSet(backlog)
         /\ Head(backlog) \notin Linked /\ peer[Head(backlog)] # "new"
         /\ Tail(backlog) \in Seq(Conns) /\ IsInjective(Tail(backlog))
         /\ ToSet(Tail(backlog)) = ToSet(backlog) \ {Head(backlog)}
         /\ pc = "scan" /\ cur = NULL /\ following = NULL
<1>1. backlog \in Seq(Conns) /\ IsInjective(backlog) /\ backlog # <<>>
  BY DEF IInv, TypeOK, ListInv, ReadyInv, Accepting
<1>2. /\ Head(backlog) \in Conns /\ Head(backlog) \in ToSet(backlog)
      /\ Tail(backlog) \in Seq(Conns) /\ IsInjective(Tail(backlog))
      /\ ToSet(Tail(backlog)) = ToSet(backlog) \ {Head(backlog)}
  BY <1>1, PopFacts
<1> QED
  BY <1>2 DEF IInv, ListInv, PointerInv, Accepting, InVisit

\* japi_add_client puts it at the head of the list.
LEMMA AddFacts ==
  ASSUME IInv, AddClient
  PROVE  /\ clients' \in Seq(Conns) /\ IsInjective(clients')
         /\ ToSet(clients') = Linked \cup {Head(backlog)}
         /\ Len(clients') = Len(clients) + 1
         /\ num_clients' = Len(clients') % 2 ^ CountWidth
<1>1. clients \in Seq(Conns) /\ IsInjective(clients)
  BY DEF IInv, TypeOK, ListInv
<1>2. Head(backlog) \in Conns /\ Head(backlog) \notin ToSet(clients)
  BY AcceptFacts DEF AddClient, Linked
<1>3. /\ clients' \in Seq(Conns) /\ IsInjective(clients')
      /\ ToSet(clients') = Linked \cup {Head(backlog)}
      /\ Len(clients') = Len(clients) + 1
  BY <1>1, <1>2, PushFacts DEF AddClient, Linked
<1>4. num_clients' = Len(clients') % 2 ^ CountWidth
  <2> DEFINE m == 2 ^ CountWidth
             n == Len(clients)
  <2>1. m \in Nat \ {0}
    BY WidthFacts DEF IInv, TypeOK
  <2>2. n \in Nat
    BY <1>1
  <2>3. num_clients = n % m /\ num_clients' = (num_clients + 1) % m
    BY DEF IInv, ClientCount, AddClient
  <2> HIDE DEF m, n
  <2>4. num_clients' = (n + 1) % m
    BY <2>1, <2>2, <2>3, CountUp
  <2> QED
    BY <1>3, <2>4 DEF m, n
<1> QED
  BY <1>3, <1>4

\* A newline is found if there is one, and it is the first.
LEMMA FirstNewlineFacts ==
  ASSUME NEW s \in Seq(Tokens), Newlines(s) # {}
  PROVE  /\ FirstNewline(s) \in 1 .. Len(s)
         /\ s[FirstNewline(s)] = "nl"
         /\ \A j \in 1 .. FirstNewline(s) - 1 : s[j] # "nl"
<1> DEFINE T == Newlines(s)
<1>1. Len(s) \in Nat /\ DOMAIN s = 1 .. Len(s)
  OBVIOUS
<1>2. T \in SUBSET (1 .. Len(s)) /\ T # {}
  BY <1>1 DEF Newlines
<1>3. FirstNewline(s) = CHOOSE i \in T : \A j \in T : i <= j
  BY DEF FirstNewline
<1> HIDE DEF T
<1>4. \E i \in T : \A j \in T : i <= j
  BY <1>1, <1>2, LeastFacts
<1>5. FirstNewline(s) \in T /\ \A j \in T : FirstNewline(s) <= j
  BY <1>3, <1>4
<1> QED
  BY <1>1, <1>2, <1>5 DEF Newlines, T

\* What SplitLine takes a line apart into.
LEMMA SplitFacts ==
  ASSUME NEW s \in Seq(Tokens), NEW n \in 0 .. Len(s)
  PROVE  /\ SubSeq(s, 1, n) \in Seq(Tokens) /\ Len(SubSeq(s, 1, n)) = n
         /\ \A j \in 1 .. n : SubSeq(s, 1, n)[j] = s[j]
         /\ SubSeq(s, n + 1, Len(s)) \in Seq(Tokens) /\ Len(SubSeq(s, n + 1, Len(s))) = Len(s) - n
         /\ \A j \in 1 .. Len(s) - n : SubSeq(s, n + 1, Len(s))[j] = s[j + n]
<1>1. Len(s) \in Nat
  OBVIOUS
<1>2. \A j \in 1 .. Len(s) : s[j] \in Tokens
  OBVIOUS
<1> QED
  BY <1>1, <1>2

\* What has been read of q is appended to p, and the rest follows.
LEMMA ReadFacts ==
  ASSUME NEW p \in Seq(Tokens), NEW q, q \in Seq(Tokens), NEW n \in 1 .. Len(q)
  PROVE  /\ p \o SubSeq(q, 1, n) \in Seq(Tokens)
         /\ p \o SubSeq(q, 1, n) # <<>>
         /\ (p \o SubSeq(q, 1, n)) \o SubSeq(q, n + 1, Len(q)) = p \o q
<1>1. n \in 0 .. Len(q) /\ 1 \in 1 .. Len(q) + 1 /\ Len(q) \in n .. Len(q) /\ n \in 1 - 1 .. Len(q)
  OBVIOUS
<1>2. SubSeq(q, 1, n) \o SubSeq(q, n + 1, Len(q)) = q
  BY <1>1, ConcatAdjacentSubSeq, SubSeqFull
<1>3. /\ SubSeq(q, 1, n) \in Seq(Tokens) /\ SubSeq(q, n + 1, Len(q)) \in Seq(Tokens)
      /\ SubSeq(q, 1, n) # <<>>
  BY <1>1
<1>4. ASSUME NEW a, a = SubSeq(q, 1, n), NEW b, b = SubSeq(q, n + 1, Len(q))
      PROVE  p \o a \in Seq(Tokens) /\ p \o a # <<>> /\ (p \o a) \o b = p \o q
  <2>1. a \in Seq(Tokens) /\ b \in Seq(Tokens)
    BY <1>3, <1>4
  <2>2. (p \o a) \o b = p \o (a \o b)
    BY ONLY <2>1, p \in Seq(Tokens), Regroup, SMTT(30)
  <2>3. a # <<>> /\ a \o b = q
    BY <1>2, <1>3, <1>4
  <2>4. p \o a \in Seq(Tokens) /\ p \o a # <<>>
    BY ONLY <2>1, <2>3, p \in Seq(Tokens), NotEmpty
  <2> QED
    BY ONLY <2>2, <2>3, <2>4
<1> QED
  BY ONLY <1>4

----------------------------------------------------------------------------
(* Every step keeps the invariant.                                         *)

LEMMA TypeStep ==
  ASSUME IInv, [Next]_vars
  PROVE  TypeOK'
<1> USE DEF env, ctx, local, vars, InVisit
<1>0. TypeOK /\ ListInv /\ PointerInv /\ ClientCount
  BY DEF IInv
<1>1. ASSUME NEW c \in Conns, Connect(c) PROVE TypeOK'
  <2>1. Append(backlog, c) \in Seq(Conns)
    BY <1>0 DEF TypeOK
  <2> QED
    BY <1>0, <1>1, <2>1 DEF Connect, TypeOK
<1>2. ASSUME NEW c \in Conns, NEW k \in Tokens, Send(c, k) PROVE TypeOK'
  <2>0. wire[c] \in Seq(Tokens) /\ sent[c] \in Nat /\ asked[c] \in Nat
    BY <1>0 DEF TypeOK
  <2>1. Append(wire[c], k) \in Seq(Tokens) /\ sent[c] + 1 \in Nat /\ asked[c] + 1 \in Nat
    BY <2>0
  <2>2. wire' \in [Conns -> Seq(Tokens)] /\ sent' \in [Conns -> Nat] /\ asked' \in [Conns -> Nat]
    BY <1>0, <1>2, <2>1 DEF Send, TypeOK
  <2>3. half' \in [Conns -> {"empty", "good", "bad"}]
    BY <1>0, <1>2, TokensAssumption DEF Send, TypeOK
  <2> QED
    BY <1>0, <1>2, <2>2, <2>3 DEF Send, TypeOK
<1>3. ASSUME NEW c \in Conns, Hangup(c) PROVE TypeOK'
  BY <1>0, <1>3 DEF Hangup, TypeOK
<1>4. CASE Shutdown
  BY <1>0, <1>4 DEF Shutdown, TypeOK
<1>5. CASE Select
  <2>1. Readable \subseteq Conns \cup {Listener}
    BY <1>0 DEF Readable, Linked, ToSet, TypeOK
  <2>2. (IF clients = <<>> THEN NULL ELSE Head(clients)) \in Conns \cup {NULL}
    BY <1>0 DEF TypeOK
  <2> QED
    BY <1>0, <1>5, <2>1, <2>2 DEF Select, TypeOK
<1>6. CASE SelectTimeout \/ SelectError \/ SelectShutdown \/ NoAccept \/ AcceptError
  BY <1>0, <1>6 DEF SelectTimeout, SelectError, SelectShutdown, NoAccept, AcceptError, TypeOK
<1>7. NextOf(cur) \in Conns \cup {NULL}
  BY <1>0, NextOfFacts DEF TypeOK, ListInv, Linked, ToSet
<1>8. CASE Skip
  BY <1>0, <1>7, <1>8 DEF Skip, TypeOK
<1>9. CASE Visit
  BY <1>0, <1>7, <1>9, SMTT(30) DEF Visit, Restore, TypeOK
<1>10. CASE Again
  <2>1. cur \in Conns
    BY <1>0, <1>10 DEF Again, PointerInv, Linked, ToSet, TypeOK
  <2>2. <<>> \in Seq(Tokens) /\ buf[cur] \in Seq(Tokens)
    BY <1>0, <2>1 DEF TypeOK
  <2> QED
    BY <1>0, <1>10, <2>2 DEF Again, Restore, TypeOK
<1>11. CASE Done
  BY <1>0, <1>11, SMTT(30) DEF Done, Leave, TypeOK
<1>12. CASE Read
  <2>1. cur \in Conns /\ wire[cur] \in Seq(Tokens)
    BY <1>0, <1>12 DEF Read, PointerInv, Linked, ToSet, TypeOK
  <2> PICK n \in 1 .. Len(wire[cur]) :
        /\ line' = line \o SubSeq(wire[cur], 1, n)
        /\ wire' = [wire EXCEPT ![cur] = SubSeq(@, n + 1, Len(@))]
    BY <1>12 DEF Read
  <2>2. n \in 0 .. Len(wire[cur])
    BY <2>1
  <2>3. SubSeq(wire[cur], 1, n) \in Seq(Tokens) /\ SubSeq(wire[cur], n + 1, Len(wire[cur])) \in Seq(Tokens)
    BY <2>1, <2>2, SplitFacts
  <2>4. line' \in Seq(Tokens)
    BY <1>0, <2>3 DEF TypeOK
  <2> QED
    BY <1>0, <1>12, <2>1, <2>3, <2>4 DEF Read, TypeOK
<1>13. CASE SplitLine
  <2>1. line \in Seq(Tokens) /\ FirstNewline(line) \in 1 .. Len(line) /\ Len(line) \in Nat
    BY <1>0, <1>13, FirstNewlineFacts DEF SplitLine, TypeOK
  <2>2. FirstNewline(line) \in 0 .. Len(line) /\ FirstNewline(line) - 1 \in 0 .. Len(line)
    BY <2>1
  <2>3. SubSeq(line, 1, FirstNewline(line) - 1) \in Seq(Tokens)
        /\ SubSeq(line, FirstNewline(line) + 1, Len(line)) \in Seq(Tokens)
    BY <2>1, <2>2, SplitFacts
  <2>4. buf' \in [Conns -> Seq(Tokens)]
    BY <1>0, <1>13, <2>3 DEF SplitLine, TypeOK
  <2> QED
    BY <1>0, <1>13, <2>3, <2>4 DEF SplitLine, TypeOK
<1>14. CASE Reply
  <2>0. cur \in Conns
    BY <1>0, <1>14 DEF Reply, PointerInv, Linked, ToSet, TypeOK
  <2>1. answered[cur] + 1 \in Nat /\ answered' = [answered EXCEPT ![cur] = answered[cur] + 1]
    BY <1>0, <1>14, <2>0, SMTT(30) DEF Reply, TypeOK
  <2> QED
    BY <1>0, <1>14, <2>1 DEF Reply, TypeOK
<1>15. ASSUME NEW c \in Linked, Unlink(c)
       PROVE  /\ clients' \in Seq(Conns) /\ num_clients' \in 0 .. 2 ^ CountWidth - 1
              /\ buf' \in [Conns -> Seq(Tokens)]
              /\ peer' \in [Conns -> {"new", "waiting", "open", "closed", "dropped", "leaked"}]
              /\ wire' \in [Conns -> Seq(Tokens)]
  <2>1. clients' \in Seq(Conns) /\ num_clients' = Len(clients') % 2 ^ CountWidth
    BY <1>0, <1>15, UnlinkFacts
  <2>2. num_clients' \in 0 .. 2 ^ CountWidth - 1
    <3> DEFINE m == 2 ^ CountWidth
    <3>1. m \in Nat \ {0}
      BY <1>0, WidthFacts DEF TypeOK
    <3>2. Len(clients') \in Nat /\ num_clients' = Len(clients') % m
      BY <2>1
    <3> HIDE DEF m
    <3>3. num_clients' \in 0 .. m - 1
      BY <3>1, <3>2
    <3> QED
      BY <3>3 DEF m
  <2>3. <<>> \in Seq(Tokens)
    OBVIOUS
  <2>4. buf' \in [Conns -> Seq(Tokens)] /\ wire' \in [Conns -> Seq(Tokens)]
    BY <1>0, <1>15, <2>3 DEF Unlink, TypeOK
  <2>5. peer' \in [Conns -> {"new", "waiting", "open", "closed", "dropped", "leaked"}]
    BY <1>0, <1>15 DEF Unlink, TypeOK
  <2> QED
    BY <2>1, <2>2, <2>4, <2>5
<1>16. CASE DropClient
  <2>1. cur \in Linked /\ Unlink(cur)
    BY <1>0, <1>16 DEF DropClient, PointerInv
  <2> QED
    <3>1. line' = <<>> /\ cur' = following /\ following' = NULL /\ pc' = "scan"
      BY <1>16 DEF DropClient, Leave
    <3>2. UNCHANGED <<sent, half, asked, answered, backlog, shutdown, max_clients, ready>>
      BY <1>16 DEF DropClient
    <3>3. <<>> \in Seq(Tokens)
      OBVIOUS
    <3> QED
      BY <1>0, <1>15, <2>1, <3>1, <3>2, <3>3 DEF TypeOK
<1>17. CASE Cleanup
  <2>1. Head(clients) \in Linked /\ Unlink(Head(clients))
    BY <1>0, <1>17, PopFacts DEF Cleanup, ListInv, Linked, TypeOK
  <2> QED
    BY <1>0, <1>15, <1>17, <2>1 DEF Cleanup, TypeOK
<1>18. CASE AddClient
  <2>1. /\ clients' \in Seq(Conns) /\ num_clients' = Len(clients') % 2 ^ CountWidth
        /\ Tail(backlog) \in Seq(Conns)
    BY <1>18, AddFacts, AcceptFacts DEF AddClient
  <2>2. num_clients' \in 0 .. 2 ^ CountWidth - 1
    <3> DEFINE m == 2 ^ CountWidth
    <3>1. m \in Nat \ {0}
      BY <1>0, WidthFacts DEF TypeOK
    <3>2. Len(clients') \in Nat /\ num_clients' = Len(clients') % m
      BY <2>1
    <3> HIDE DEF m
    <3>3. num_clients' \in 0 .. m - 1
      BY <3>1, <3>2
    <3> QED
      BY <3>3 DEF m
  <2> QED
    BY <1>0, <1>18, <2>1, <2>2 DEF AddClient, Accepted, TypeOK
<1>19. CASE AddFails \/ Refuse
  <2>1. Tail(backlog) \in Seq(Conns)
    BY <1>19, AcceptFacts DEF AddFails, Refuse
  <2> QED
    <3>1. <<>> \in Seq(Tokens)
      OBVIOUS
    <3>2. wire' \in [Conns -> Seq(Tokens)]
      BY <1>0, <1>19, <3>1 DEF AddFails, Refuse, TypeOK
    <3>3. peer' \in [Conns -> {"new", "waiting", "open", "closed", "dropped", "leaked"}]
      BY <1>0, <1>19 DEF AddFails, Refuse, TypeOK
    <3>4. backlog' = Tail(backlog) /\ pc' = "select" /\ ready' = {}
      BY <1>19 DEF AddFails, Refuse, Accepted
    <3>5. UNCHANGED <<sent, half, asked, answered, shutdown, ctx, cur, following, line>>
      BY <1>19 DEF AddFails, Refuse
    <3> QED
      BY <1>0, <2>1, <3>2, <3>3, <3>4, <3>5 DEF TypeOK
<1>20. CASE Stop
  BY <1>0, <1>20, SMTT(30) DEF Stop, TypeOK
<1>21. CASE UNCHANGED vars
  BY <1>0, <1>21 DEF TypeOK
<1>22. ASSUME NEW c \in Conns, Settle(c) PROVE TypeOK'
  BY <1>0, <1>22 DEF Settle, TypeOK
<1> QED
  BY <1>1, <1>2, <1>3, <1>4, <1>5, <1>6, <1>8, <1>9, <1>10, <1>11, <1>12, <1>13, <1>14, <1>16,
     <1>17, <1>18, <1>19, <1>20, <1>21, <1>22 DEF Next, ServerNext, ServerError, PeerNext

LEMMA ListStep ==
  ASSUME IInv, [Next]_vars
  PROVE  ListInv'
<1> USE DEF env, ctx, local, vars
<1>0. TypeOK /\ ListInv /\ PointerInv /\ ClientCount
  BY DEF IInv
<1>1. ASSUME UNCHANGED <<clients, backlog>>, \A c \in Conns : peer'[c] = "new" => peer[c] = "new"
      PROVE  ListInv'
  BY <1>0, <1>1 DEF ListInv, Linked
<1>2. ASSUME NEW c \in Conns, Connect(c) PROVE ListInv'
  <2>1. /\ IsInjective(Append(backlog, c))
        /\ ToSet(Append(backlog, c)) = ToSet(backlog) \cup {c}
    BY <1>0, <1>2, AppendFacts DEF Connect, ListInv, TypeOK
  <2>2. c \notin Linked /\ UNCHANGED clients /\ backlog' = Append(backlog, c)
    BY <1>0, <1>2 DEF Connect, ListInv
  <2>3. \A d \in Conns : peer'[d] = IF d = c THEN "waiting" ELSE peer[d]
    BY <1>0, <1>2 DEF Connect, TypeOK
  <2> QED
    BY <1>0, <2>1, <2>2, <2>3 DEF ListInv, Linked
<1>3. ASSUME NEW c \in Conns, NEW k \in Tokens, Send(c, k) PROVE ListInv'
  BY <1>1, <1>3 DEF Send
<1>4. ASSUME NEW c \in Conns, Hangup(c) PROVE ListInv'
  BY <1>0, <1>1, <1>4 DEF Hangup, TypeOK
<1>5. CASE Shutdown \/ Select \/ SelectTimeout \/ SelectError \/ SelectShutdown \/ NoAccept \/ AcceptError
  BY <1>1, <1>5 DEF Shutdown, Select, SelectTimeout, SelectError, SelectShutdown, NoAccept, AcceptError
<1>6. CASE Skip \/ Visit \/ Again \/ Done \/ Read \/ SplitLine \/ Reply
  BY <1>1, <1>6 DEF Skip, Visit, Again, Done, Read, SplitLine, Reply
<1>7. ASSUME NEW c \in Linked, Unlink(c), UNCHANGED backlog PROVE ListInv'
  <2>1. /\ IsInjective(clients') /\ ToSet(clients') = Linked \ {c}
        /\ \A d \in Conns : peer'[d] = IF d = c THEN "dropped" ELSE peer[d]
    BY <1>0, <1>7, UnlinkFacts
  <2> QED
    BY <1>0, <1>7, <2>1 DEF ListInv, Linked
<1>8. CASE DropClient
  BY <1>0, <1>7, <1>8 DEF DropClient, PointerInv, InVisit
<1>9. CASE Cleanup
  <2>1. Head(clients) \in Linked
    BY <1>0, <1>9, PopFacts DEF Cleanup, ListInv, Linked, TypeOK
  <2> QED
    BY <1>7, <1>9, <2>1 DEF Cleanup
<1>10. CASE AddClient
  <2>1. /\ IsInjective(clients') /\ ToSet(clients') = Linked \cup {Head(backlog)}
    BY <1>10, AddFacts
  <2>2. /\ IsInjective(Tail(backlog)) /\ ToSet(Tail(backlog)) = ToSet(backlog) \ {Head(backlog)}
        /\ peer[Head(backlog)] # "new"
    BY <1>10, AcceptFacts DEF AddClient
  <2>3. backlog' = Tail(backlog) /\ \A d \in Conns : peer'[d] = "new" => peer[d] = "new"
    BY <1>0, <1>10 DEF AddClient, Accepted, TypeOK
  <2> QED
    BY <1>0, <2>1, <2>2, <2>3 DEF ListInv, Linked
<1>11. CASE AddFails \/ Refuse
  <2>1. /\ IsInjective(Tail(backlog)) /\ ToSet(Tail(backlog)) = ToSet(backlog) \ {Head(backlog)}
    BY <1>11, AcceptFacts DEF AddFails, Refuse
  <2>2. /\ backlog' = Tail(backlog) /\ UNCHANGED clients
        /\ \A d \in Conns : peer'[d] = "new" => peer[d] = "new"
    BY <1>0, <1>11 DEF AddFails, Refuse, Accepted, TypeOK
  <2> QED
    BY <1>0, <2>1, <2>2 DEF ListInv, Linked
<1>12. CASE Stop
  <2>1. backlog' = <<>> /\ UNCHANGED clients /\ \A d \in Conns : peer'[d] = "new" => peer[d] = "new"
    BY <1>12 DEF Stop
  <2> QED
    BY <1>0, <2>1 DEF ListInv, Linked, ToSet, IsInjective
<1>13. CASE UNCHANGED vars
  BY <1>1, <1>13
<1>14. ASSUME NEW c \in Conns, Settle(c) PROVE ListInv'
  BY <1>1, <1>14 DEF Settle
<1> QED
  BY <1>2, <1>3, <1>4, <1>5, <1>6, <1>8, <1>9, <1>10, <1>11, <1>12, <1>13, <1>14
     DEF Next, ServerNext, ServerError, PeerNext

LEMMA PointerStep ==
  ASSUME IInv, [Next]_vars
  PROVE  PointerInv'
<1> USE DEF env, ctx, local, vars, InVisit
<1>0. TypeOK /\ ListInv /\ PointerInv /\ ClientCount
  BY DEF IInv
<1>1. ASSUME UNCHANGED <<clients, cur, following>>, pc \in InVisit <=> pc' \in InVisit,
             pc' # "scan" \/ pc = "scan", pc = "scan" => pc' = "scan" \/ cur = NULL
      PROVE  PointerInv'
  BY <1>0, <1>1 DEF PointerInv, Linked, NextOf
<1>2. NextOf(cur) \in (Linked \ {cur}) \cup {NULL}
  BY <1>0, NextOfFacts DEF ListInv, TypeOK
<1>3. ASSUME NEW c \in Conns, PeerNext(c) PROVE PointerInv'
  BY <1>1, <1>3 DEF PeerNext, Connect, Send, Settle, Hangup
<1>4. CASE Shutdown \/ SelectTimeout \/ SelectError \/ SelectShutdown \/ NoAccept \/ AcceptError
  BY <1>1, <1>4 DEF Shutdown, SelectTimeout, SelectError, SelectShutdown, NoAccept, AcceptError, Accepting
<1>5. CASE Select
  <2>1. (IF clients = <<>> THEN NULL ELSE Head(clients)) \in Linked \cup {NULL}
    BY <1>0, PopFacts DEF Linked, ListInv, TypeOK
  <2> QED
    BY <1>0, <1>5, <2>1 DEF Select, PointerInv, Linked
<1>6. CASE Skip
  BY <1>0, <1>2, <1>6 DEF Skip, PointerInv, Linked
<1>7. CASE Visit
  <2>1. cur \in Linked
    BY <1>0, <1>7 DEF Visit, PointerInv
  <2> QED
    BY <1>0, <1>7, <2>1 DEF Visit, Restore, PointerInv, Linked, NextOf
<1>8. CASE Again \/ Read \/ SplitLine \/ Reply
  BY <1>1, <1>8 DEF Again, Restore, Read, SplitLine, Reply
<1>9. CASE Done
  BY <1>0, <1>2, <1>9 DEF Done, Leave, PointerInv, Linked
<1>10. CASE DropClient
  <2>1. cur \in Linked /\ Unlink(cur) /\ following = NextOf(cur)
    BY <1>0, <1>10 DEF DropClient, PointerInv
  <2>2. ToSet(clients') = Linked \ {cur}
    BY <1>0, <2>1, UnlinkFacts
  <2>3. cur' = following /\ following' = NULL /\ pc' = "scan"
    BY <1>10 DEF DropClient, Leave
  <2> QED
    BY <1>2, <2>1, <2>2, <2>3 DEF PointerInv, Linked
<1>11. CASE AddClient \/ AddFails \/ Refuse
  BY <1>0, <1>11 DEF AddClient, AddFails, Refuse, Accepting, Accepted, PointerInv
<1>12. CASE Cleanup \/ Stop
  BY <1>0, <1>12 DEF Cleanup, Stop, PointerInv
<1>13. CASE UNCHANGED vars
  BY <1>1, <1>13
<1> QED
  BY <1>3, <1>4, <1>5, <1>6, <1>7, <1>8, <1>9, <1>10, <1>11, <1>12, <1>13
     DEF Next, ServerNext, ServerError

LEMMA BufferStep ==
  ASSUME IInv, [Next]_vars
  PROVE  BufferInv'
<1> USE DEF env, ctx, local, vars
<1>0. TypeOK /\ ListInv /\ PointerInv /\ ClientCount /\ BufferInv
  BY DEF IInv
<1>1. ASSUME UNCHANGED <<buf, pc, cur>> PROVE BufferInv'
  BY <1>0, <1>1 DEF BufferInv
<1>2. ASSUME \A c \in Conns : buf'[c] = <<>> PROVE BufferInv'
  BY <1>2 DEF BufferInv
<1>3. ASSUME NEW c \in Conns, PeerNext(c) PROVE BufferInv'
  BY <1>1, <1>3 DEF PeerNext, Connect, Send, Settle, Hangup
<1>4. CASE Shutdown \/ SelectTimeout
  BY <1>1, <1>4 DEF Shutdown, SelectTimeout
<1>5. CASE Select \/ SelectError \/ SelectShutdown \/ NoAccept \/ AcceptError \/ Skip
  BY <1>0, <1>2, <1>5 DEF Select, SelectError, SelectShutdown, NoAccept, AcceptError, Accepting, Skip,
     BufferInv
<1>6. ASSUME Restore(cur) PROVE \A c \in Conns : c # cur => buf'[c] = buf[c]
  BY <1>0, <1>6 DEF Restore, TypeOK
<1>7. CASE Visit
  <2>1. \A c \in Conns : buf'[c] = <<>>
    BY <1>0, <1>7 DEF Visit, Restore, BufferInv, TypeOK
  <2> QED
    BY <1>2, <2>1
<1>8. CASE Again
  <2>1. \A c \in Conns : buf'[c] = <<>>
    BY <1>0, <1>8 DEF Again, Restore, BufferInv, TypeOK
  <2> QED
    BY <1>2, <2>1
<1>9. CASE Done
  <2>1. \A c \in Conns : buf'[c] = <<>>
    BY <1>0, <1>9 DEF Done, BufferInv
  <2> QED
    BY <1>2, <2>1
<1>10. CASE Read
  BY <1>1, <1>10 DEF Read
<1>11. CASE SplitLine
  <2>1. \A c \in Conns : c # cur => buf'[c] = <<>>
    BY <1>0, <1>11 DEF SplitLine, BufferInv, TypeOK
  <2>2. pc' \in {"reply", "again"} /\ cur' = cur
    BY <1>11 DEF SplitLine
  <2> QED
    BY <2>1, <2>2 DEF BufferInv
<1>12. CASE Reply
  BY <1>0, <1>12 DEF Reply, BufferInv
<1>13. CASE DropClient
  <2>1. cur \in Linked /\ Unlink(cur)
    BY <1>0, <1>13 DEF DropClient, PointerInv, InVisit
  <2>2. \A c \in Conns : buf'[c] = IF c = cur THEN <<>> ELSE buf[c]
    BY <1>0, <2>1, UnlinkFacts
  <2>3. \A c \in Conns : buf'[c] = <<>>
    BY <1>0, <2>2 DEF BufferInv
  <2> QED
    BY <1>2, <2>3
<1>14. CASE AddClient \/ AddFails \/ Refuse \/ Stop
  BY <1>0, <1>2, <1>14 DEF AddClient, AddFails, Refuse, Accepting, Stop, BufferInv
<1>15. CASE Cleanup
  <2>1. Head(clients) \in Linked /\ Unlink(Head(clients))
    BY <1>0, <1>15, PopFacts DEF Cleanup, ListInv, Linked, TypeOK
  <2>2. \A c \in Conns : buf'[c] = IF c = Head(clients) THEN <<>> ELSE buf[c]
    BY <1>0, <2>1, UnlinkFacts
  <2>3. \A c \in Conns : buf'[c] = <<>>
    BY <1>0, <1>15, <2>2 DEF BufferInv, Cleanup
  <2> QED
    BY <1>2, <2>3
<1>16. CASE UNCHANGED vars
  BY <1>1, <1>16
<1> QED
  BY <1>3, <1>4, <1>5, <1>7, <1>8, <1>9, <1>10, <1>11, <1>12, <1>13, <1>14, <1>15, <1>16
     DEF Next, ServerNext, ServerError

LEMMA CountStep ==
  ASSUME IInv, [Next]_vars
  PROVE  ClientCount'
<1> USE DEF env, ctx, local, vars
<1>0. TypeOK /\ ListInv /\ PointerInv /\ ClientCount
  BY DEF IInv
<1>1. ASSUME UNCHANGED <<clients, num_clients, max_clients>> PROVE ClientCount'
  BY <1>0, <1>1 DEF ClientCount
<1>2. ASSUME NEW c \in Linked, Unlink(c), UNCHANGED max_clients PROVE ClientCount'
  <2>1. num_clients' = Len(clients') % 2 ^ CountWidth /\ Len(clients') = Len(clients) - 1
    BY <1>0, <1>2, UnlinkFacts
  <2>2. Len(clients) \in Nat /\ max_clients \in Nat
    BY <1>0, NumbersAssumption DEF TypeOK
  <2>3. max_clients' # 0 => Len(clients') <= max_clients'
    BY <1>0, <1>2, <2>1, <2>2 DEF ClientCount
  <2> QED
    BY <2>1, <2>3 DEF ClientCount
<1>3. CASE DropClient
  BY <1>0, <1>2, <1>3 DEF DropClient, PointerInv, InVisit
<1>4. CASE Cleanup
  <2>1. Head(clients) \in Linked
    BY <1>0, <1>4, PopFacts DEF Cleanup, ListInv, Linked, TypeOK
  <2> QED
    BY <1>2, <1>4, <2>1 DEF Cleanup
\* A limit is less than what the counter can hold: it has not wrapped.
<1>5. CASE AddClient
  <2> DEFINE m == 2 ^ CountWidth
             n == Len(clients)
  <2>1. num_clients' = Len(clients') % m /\ Len(clients') = n + 1 /\ max_clients' = max_clients
    BY <1>5, AddFacts DEF AddClient
  <2>2. m \in Nat \ {0} /\ max_clients \in 0 .. m - 1 /\ n \in Nat
    BY <1>0, WidthFacts DEF TypeOK
  <2>3. num_clients = n % m /\ (max_clients # 0 => n <= max_clients)
    BY <1>0 DEF ClientCount
  <2>4. max_clients = 0 \/ num_clients < max_clients
    BY <1>5 DEF AddClient, HasRoom
  <2> HIDE DEF m, n
  <2>5. max_clients # 0 => n + 1 <= max_clients
    <3> SUFFICES ASSUME max_clients # 0 PROVE n + 1 <= max_clients
      OBVIOUS
    <3>1. n < m /\ n \in Nat
      BY <2>2, <2>3
    <3>2. n % m = n
      BY <2>2, <3>1
    <3> QED
      BY <2>2, <2>3, <2>4, <3>2
  <2>6. max_clients' # 0 => Len(clients') <= max_clients'
    BY <2>1, <2>5
  <2> QED
    BY <2>1, <2>6 DEF ClientCount, m
<1>6. ASSUME NEW c \in Conns, PeerNext(c) PROVE ClientCount'
  BY <1>1, <1>6 DEF PeerNext, Connect, Send, Settle, Hangup
<1>7. CASE Shutdown \/ SelectTimeout \/ SelectError \/ SelectShutdown \/ NoAccept \/ AcceptError \/ Select
  BY <1>1, <1>7 DEF Shutdown, SelectTimeout, SelectError, SelectShutdown, NoAccept, AcceptError, Select
<1>8. CASE Skip \/ Visit \/ Again \/ Done \/ Read \/ SplitLine \/ Reply \/ AddFails \/ Refuse \/ Stop
  BY <1>1, <1>8 DEF Skip, Visit, Again, Done, Read, SplitLine, Reply, AddFails, Refuse, Stop
<1>9. CASE UNCHANGED vars
  BY <1>1, <1>9
<1> QED
  BY <1>3, <1>4, <1>5, <1>6, <1>7, <1>8, <1>9 DEF Next, ServerNext, ServerError

LEMMA ReadyStep ==
  ASSUME IInv, [Next]_vars
  PROVE  ReadyInv'
<1> USE DEF env, ctx, local, vars, InVisit
<1>0. TypeOK /\ ListInv /\ PointerInv /\ ClientCount /\ ReadyInv
  BY DEF IInv
<1>1. pc \in InVisit => /\ cur \in Conns
                        /\ From(clients, following) \subseteq From(clients, cur) \ {cur}
  BY <1>0, NextOfFacts DEF PointerInv, ListInv, Linked, ToSet, TypeOK
<1>2. \A c : From(clients, c) \subseteq Conns
  BY <1>0 DEF From, ToSet, TypeOK
<1>3. ASSUME UNCHANGED <<clients, ready, cur, following, pc, line>>,
             \A c \in Conns : HasInput(c) => HasInput(c)',
             backlog # <<>> => backlog' # <<>>
      PROVE  ReadyInv'
  <2>1. FirstReadReady'
    <3> SUFFICES ASSUME pc' = "line", line' = <<>>
                 PROVE  wire'[cur'] # <<>> \/ peer'[cur'] = "closed"
      BY DEF FirstReadReady
    <3>1. cur \in Conns /\ HasInput(cur)
      BY <1>0, <1>1, <1>3 DEF ReadyInv, FirstReadReady, HasInput
    <3> QED
      BY <1>3, <3>1 DEF HasInput
  <2> QED
    BY <1>0, <1>2, <1>3, <2>1 DEF ReadyInv
<1>4. ASSUME pc' \notin InVisit \cup {"scan"} PROVE ReadyInv'
  BY <1>4 DEF ReadyInv, FirstReadReady
<1>5. ASSUME NEW c \in Conns, Connect(c) PROVE ReadyInv'
  <2>1. Append(backlog, c) # <<>>
    <3>1. backlog \in Seq(Conns) /\ Len(backlog) \in Nat
      BY <1>0 DEF TypeOK
    <3>2. Len(Append(backlog, c)) = Len(backlog) + 1
      BY <3>1
    <3>3. Len(Append(backlog, c)) # 0
      BY <3>1, <3>2
    <3> QED
      BY <3>3
  <2>2. \A d \in Conns : HasInput(d) => HasInput(d)'
    BY <1>0, <1>5 DEF Connect, HasInput, TypeOK
  <2> QED
    BY <1>3, <1>5, <2>1, <2>2 DEF Connect
<1>6. ASSUME NEW c \in Conns, NEW k \in Tokens, Send(c, k) PROVE ReadyInv'
  <2>1. Append(wire[c], k) # <<>>
    <3>1. wire[c] \in Seq(Tokens)
      BY <1>0 DEF TypeOK
    <3> QED
      BY <3>1
  <2>2. \A d \in Conns : wire'[d] = IF d = c THEN Append(wire[c], k) ELSE wire[d]
    BY <1>0, <1>6 DEF Send, TypeOK
  <2>3. \A d \in Conns : HasInput(d) => HasInput(d)'
    BY <1>6, <2>1, <2>2 DEF Send, HasInput
  <2> QED
    BY <1>3, <1>6, <2>3 DEF Send
<1>7. ASSUME NEW c \in Conns, Hangup(c) PROVE ReadyInv'
  <2>1. \A d \in Conns : HasInput(d) => HasInput(d)'
    BY <1>0, <1>7 DEF Hangup, HasInput, TypeOK
  <2> QED
    BY <1>3, <1>7, <2>1 DEF Hangup
<1>8. CASE Shutdown \/ SelectTimeout \/ UNCHANGED vars
  BY <1>3, <1>8 DEF Shutdown, SelectTimeout, HasInput
<1>9. CASE SelectError \/ SelectShutdown \/ NoAccept \/ AcceptError
  BY <1>4, <1>9 DEF SelectError, SelectShutdown, NoAccept, AcceptError
<1>10. CASE AddClient \/ AddFails \/ Refuse \/ Cleanup \/ Stop
  BY <1>4, <1>10 DEF AddClient, AddFails, Refuse, Accepted, Cleanup, Stop
<1>11. CASE Select
  <2>1. \A c \in Linked \cap Readable : HasInput(c)
    BY <1>0, ConnsAssumption DEF Readable, HasInput, Linked, ToSet, TypeOK
  <2>2. Listener \in Readable => backlog # <<>>
    BY <1>0, ConnsAssumption DEF Readable, Linked, ToSet, TypeOK
  <2>3. From(clients', cur') \subseteq Linked
    BY <1>11, FromHead DEF Select, Linked
  <2>4. ready' = Readable /\ pc' = "scan" /\ UNCHANGED <<wire, peer, backlog>>
    BY <1>11 DEF Select
  <2> QED
    BY <2>1, <2>2, <2>3, <2>4 DEF ReadyInv, FirstReadReady, HasInput
<1>12. CASE Skip
  <2>1. From(clients, NextOf(cur)) \subseteq From(clients, cur)
    BY <1>0, <1>12, NextOfFacts DEF Skip, PointerInv, ListInv, TypeOK
  <2>2. cur' = NextOf(cur) /\ pc' = "scan" /\ pc = "scan" /\ UNCHANGED <<clients, ready, wire, peer, backlog>>
    BY <1>12 DEF Skip
  <2> QED
    BY <1>0, <2>1, <2>2 DEF ReadyInv, FirstReadReady, HasInput
<1>13. CASE Visit
  <2>1. cur \in Linked /\ cur \in ready
    BY <1>0, <1>13 DEF Visit, PointerInv
  <2>2. From(clients, NextOf(cur)) \subseteq From(clients, cur)
    BY <1>0, <2>1, NextOfFacts DEF ListInv, TypeOK
  <2>3. cur \in From(clients, cur)
    <3> PICK i \in DOMAIN clients : clients[i] = cur
      BY <2>1 DEF Linked, ToSet
    <3>1. i <= i
      BY <1>0 DEF TypeOK
    <3> QED
      BY <2>1, <3>1 DEF From, Linked
  <2>4. /\ pc = "scan" /\ pc' = "line" /\ following' = NextOf(cur) /\ cur' = cur
        /\ UNCHANGED <<clients, ready, wire, peer, backlog>>
    BY <1>13 DEF Visit, Restore
  <2> QED
    BY <1>0, <2>1, <2>2, <2>3, <2>4 DEF ReadyInv, FirstReadReady, HasInput
<1>14. CASE Again \/ SplitLine \/ Reply
  <2>1. pc \in InVisit /\ pc' \in InVisit /\ UNCHANGED <<clients, ready, cur, following, wire, peer, backlog>>
    BY <1>14 DEF Again, Restore, SplitLine, Reply
  <2>2. pc' = "line" => line' # <<>>
    BY <1>14 DEF Again, Restore, SplitLine, Reply
  <2> QED
    BY <1>0, <2>1, <2>2 DEF ReadyInv, FirstReadReady, HasInput
<1>15. CASE Read
  <2>0. pc = "line" /\ pc' = "line" /\ UNCHANGED <<clients, ready, cur, following, peer, backlog>>
    BY <1>15 DEF Read
  <2> PICK n \in 1 .. Len(wire[cur]) :
        /\ line' = line \o SubSeq(wire[cur], 1, n)
        /\ wire' = [wire EXCEPT ![cur] = SubSeq(@, n + 1, Len(@))]
    BY <1>15 DEF Read
  <2>1. wire[cur] \in Seq(Tokens) /\ line \in Seq(Tokens)
    BY <1>0, <1>1, <2>0 DEF TypeOK
  <2>3. line' # <<>>
    BY <2>1, ReadFacts, ZenonT(60)
  <2>4. \A c \in Conns : c # cur => wire'[c] = wire[c]
    BY <1>0 DEF TypeOK
  <2>5. \A c \in From(clients, following) : c \in Conns /\ c # cur
    BY <1>1, <1>2, <2>0
  <2> QED
    BY <1>0, <2>0, <2>3, <2>4, <2>5 DEF ReadyInv, FirstReadReady, HasInput
<1>16. CASE Done
  BY <1>0, <1>16 DEF Done, Leave, ReadyInv, FirstReadReady, HasInput
<1>17. CASE DropClient
  <2>1. cur \in Linked /\ Unlink(cur) /\ pc \in InVisit
    BY <1>0, <1>17 DEF DropClient, PointerInv
  <2>2. /\ \A d : From(clients', d) \subseteq From(clients, d)
        /\ \A d \in Conns : d # cur => wire'[d] = wire[d] /\ peer'[d] = peer[d]
    BY <1>0, <2>1, UnlinkFacts
  <2>3. \A c \in From(clients, following) : c \in Conns /\ c # cur
    BY <1>1, <1>2, <2>1
  <2>4. cur' = following /\ pc' = "scan" /\ UNCHANGED <<ready, backlog>>
    BY <1>17 DEF DropClient, Leave
  <2>5. \A c \in From(clients', cur') \cap ready' : HasInput(c)'
    BY <1>0, <2>1, <2>2, <2>3, <2>4 DEF ReadyInv, HasInput
  <2> QED
    BY <1>0, <2>1, <2>4, <2>5 DEF ReadyInv, FirstReadReady
<1>18. ASSUME NEW c \in Conns, Settle(c) PROVE ReadyInv'
  <2>1. \A d \in Conns : HasInput(d) => HasInput(d)'
    BY <1>18 DEF Settle, HasInput
  <2> QED
    BY <1>3, <1>18, <2>1 DEF Settle
<1> QED
  BY <1>5, <1>6, <1>7, <1>8, <1>9, <1>10, <1>11, <1>12, <1>13, <1>14, <1>15, <1>16, <1>17, <1>18
     DEF Next, ServerNext, ServerError, PeerNext

----------------------------------------------------------------------------
(* The invariant and what follows from it.                                 *)

LEMMA InitInv ==
  ASSUME Init
  PROVE  IInv
<1> USE DEF Init
<1>1. TypeOK
  <2>1. /\ peer \in [Conns -> {"new", "waiting", "open", "closed", "dropped", "leaked"}]
        /\ wire \in [Conns -> Seq(Tokens)] /\ buf \in [Conns -> Seq(Tokens)]
        /\ sent \in [Conns -> Nat] /\ asked \in [Conns -> Nat] /\ answered \in [Conns -> Nat]
        /\ half \in [Conns -> {"empty", "good", "bad"}]
    OBVIOUS
  <2>2. backlog \in Seq(Conns) /\ clients \in Seq(Conns) /\ line \in Seq(Tokens)
    OBVIOUS
  <2>3. num_clients \in 0 .. 2 ^ CountWidth - 1
    <3> DEFINE m == 2 ^ CountWidth
    <3>1. m \in Nat \ {0} /\ num_clients = 0
      BY WidthFacts
    <3> HIDE DEF m, Init
    <3>2. num_clients \in 0 .. m - 1
      BY <3>1
    <3> QED
      BY <3>2 DEF m
  <2>4. shutdown \in BOOLEAN
    BY Zenon
  <2>5. max_clients \in Limits /\ pc = "select" /\ ready = {} /\ cur = NULL /\ following = NULL
    OBVIOUS
  <2> HIDE DEF Init
  <2> QED
    BY <2>1, <2>2, <2>3, <2>4, <2>5 DEF TypeOK
<1>2. ListInv
  BY DEF ListInv, IsInjective, Linked, ToSet
<1>3. PointerInv /\ BufferInv /\ ReadyInv
  BY DEF PointerInv, BufferInv, ReadyInv, FirstReadReady, InVisit
<1>4. ClientCount
  <2> DEFINE m == 2 ^ CountWidth
  <2>1. m \in Nat \ {0} /\ max_clients \in Nat
    BY WidthFacts
  <2>2. Len(clients) = 0 /\ num_clients = 0
    OBVIOUS
  <2> HIDE DEF m, Init
  <2>3. 0 % m = 0
    BY <2>1
  <2> QED
    BY <2>1, <2>2, <2>3 DEF ClientCount, m
<1> QED
  BY <1>1, <1>2, <1>3, <1>4 DEF IInv

LEMMA Inductive == Spec => []IInv
<1>1. Init => IInv
  BY InitInv
<1>2. IInv /\ [Next]_vars => IInv'
  BY TypeStep, ListStep, PointerStep, BufferStep, ReadyStep, CountStep DEF IInv
<1> QED
  BY <1>1, <1>2, PTL DEF Spec

\* The variables keep their types, whatever peers and system calls do.
THEOREM TypeCorrect == Spec => []TypeOK
<1>1. IInv => TypeOK
  BY DEF IInv
<1> QED
  BY <1>1, Inductive, PTL

\* The two pointers of the scan of japi_start_server never point to a client
\* that was freed.
THEOREM PointersSafe == Spec => []ScanPointersLinked
<1>1. ASSUME IInv PROVE ScanPointersLinked
  <2>1. following \in Linked \cup {NULL}
    BY <1>1, NextOfFacts DEF IInv, TypeOK, ListInv, PointerInv
  <2>2. cur \in Linked \cup {NULL}
    BY <1>1 DEF IInv, PointerInv
  <2> QED
    BY <2>1, <2>2 DEF ScanPointersLinked
<1> QED
  BY <1>1, Inductive, PTL

\* No bytes wait in a line buffer while the server waits in select().
THEOREM NothingHeldBack == Spec => []BuffersEmptyAtSelect
<1>1. ASSUME IInv PROVE BuffersEmptyAtSelect
  BY <1>1 DEF IInv, TypeOK, BufferInv, BuffersEmptyAtSelect, Linked, ToSet
<1> QED
  BY <1>1, Inductive, PTL

\* A visit has something to read, although clients before it in the list were
\* served and removed since select() returned.
THEOREM VisitsReady == Spec => []FirstReadReady
<1>1. IInv => FirstReadReady
  BY DEF IInv, ReadyInv
<1> QED
  BY <1>1, Inductive, PTL

\* num_clients counts the list as far as it is wide, and a limit is kept.
THEOREM Counted == Spec => []ClientCount
<1>1. IInv => ClientCount
  BY DEF IInv
<1> QED
  BY <1>1, Inductive, PTL

----------------------------------------------------------------------------
(* The requests in a stretch of bytes.                                     *)

\* A line begins at place k; places k to i - 1 are those of a request.
StartsLine(s, k) == k = 1 \/ s[k - 1] = "nl"
AllQ(s, k, i) == \A j \in k .. i : s[j] = "q"

\* The bytes end with a whole line; with a line that may become a request.
Fresh(s)    == s = <<>> \/ s[Len(s)] = "nl"
GoodTail(s) == \E k \in 1 .. Len(s) : StartsLine(s, k) /\ AllQ(s, k, Len(s))

LEMMA IsRequestOf ==
  ASSUME NEW s \in Seq(Tokens), NEW i \in 0 .. Len(s), NEW k \in 1 .. i + 1
  PROVE  IsRequest(SubSeq(s, k, i)) <=> k <= i /\ AllQ(s, k, i)
<1> DEFINE u == SubSeq(s, k, i)
<1>1. Len(s) \in Nat /\ i \in Nat /\ k \in Nat /\ 1 <= k /\ i <= Len(s)
  OBVIOUS
<1>2. \A j \in k .. i : s[j] \in Tokens
  BY <1>1
<1>3. /\ u \in Seq(Tokens) /\ Len(u) = i - k + 1
      /\ \A j \in 1 .. i - k + 1 : u[j] = s[k + j - 1]
  <2>1. Len(u) = (IF k <= i THEN i - k + 1 ELSE 0) /\ u \in Seq(Tokens)
        /\ \A j \in 1 .. i - k + 1 : u[j] = s[k + j - 1]
    BY <1>1, <1>2, SubSeqProperties
  <2> QED
    BY <1>1, <2>1
<1> HIDE DEF u
<1>4. DOMAIN u = 1 .. i - k + 1 /\ (u # <<>> <=> k <= i)
  BY <1>1, <1>3
<1>5. (\A j \in DOMAIN u : u[j] = "q") <=> AllQ(s, k, i)
  <2>1. ASSUME \A j \in DOMAIN u : u[j] = "q", NEW j \in k .. i PROVE s[j] = "q"
    <3>1. j - k + 1 \in 1 .. i - k + 1 /\ k + (j - k + 1) - 1 = j
      BY <1>1
    <3> QED
      BY <1>3, <1>4, <2>1, <3>1
  <2>2. ASSUME AllQ(s, k, i), NEW j \in DOMAIN u PROVE u[j] = "q"
    <3>1. j \in 1 .. i - k + 1 /\ k + j - 1 \in k .. i
      BY <1>1, <1>4
    <3> QED
      BY <1>3, <2>2, <3>1 DEF AllQ
  <2> QED
    BY <2>1, <2>2 DEF AllQ
<1> QED
  BY <1>4, <1>5 DEF IsRequest, u

\* Where requests end, without the sequences between.
LEMMA RequestEndsAre ==
  ASSUME NEW s \in Seq(Tokens), NEW i
  PROVE  i \in RequestEnds(s) <=>
           /\ i \in 1 .. Len(s) /\ s[i] = "nl"
           /\ \E k \in 1 .. i - 1 : StartsLine(s, k) /\ AllQ(s, k, i - 1)
<1>1. Len(s) \in Nat /\ DOMAIN s = 1 .. Len(s)
  OBVIOUS
<1>2. i \in Newlines(s) <=> i \in 1 .. Len(s) /\ s[i] = "nl"
  BY <1>1 DEF Newlines
<1>3. ASSUME i \in 1 .. Len(s), NEW k \in 1 .. i - 1
      PROVE  IsRequest(SubSeq(s, k, i - 1)) <=> AllQ(s, k, i - 1)
  <2>1. i - 1 \in 0 .. Len(s) /\ k \in 1 .. (i - 1) + 1 /\ k <= i - 1
    BY <1>1, <1>3
  <2> QED
    BY <2>1, IsRequestOf
<1> QED
  BY <1>2, <1>3 DEF RequestEnds, StartsLine

LEMMA RequestEndsFinite ==
  ASSUME NEW s \in Seq(Tokens)
  PROVE  /\ RequestEnds(s) \subseteq 1 .. Len(s)
         /\ IsFiniteSet(RequestEnds(s)) /\ Cardinality(RequestEnds(s)) \in Nat
<1>1. Len(s) \in Nat /\ RequestEnds(s) \in SUBSET (1 .. Len(s))
  BY DEF RequestEnds, Newlines
<1>2. IsFiniteSet(1 .. Len(s))
  BY <1>1, FS_Interval
<1>3. IsFiniteSet(RequestEnds(s))
  BY <1>1, <1>2, FS_Subset
<1> QED
  BY <1>1, <1>3, FS_CardinalityType

LEMMA NoRequests == RequestEnds(<<>>) = {} /\ Cardinality({}) = 0
<1>1. RequestEnds(<<>>) = {}
  BY DEF RequestEnds, Newlines
<1> QED
  BY <1>1, FS_EmptySet

\* A newline completes the request that was begun, if one was; another token
\* completes nothing.
LEMMA AppendToken ==
  ASSUME NEW s \in Seq(Tokens), NEW k \in Tokens
  PROVE  /\ Cardinality(RequestEnds(Append(s, k))) =
              Cardinality(RequestEnds(s)) + (IF k = "nl" /\ GoodTail(s) THEN 1 ELSE 0)
         /\ Fresh(Append(s, k)) <=> k = "nl"
         /\ GoodTail(Append(s, k)) <=> k = "q" /\ (Fresh(s) \/ GoodTail(s))
<1> DEFINE r == Append(s, k)
           n == Len(s)
<1>1. n \in Nat /\ r \in Seq(Tokens) /\ Len(r) = n + 1 /\ r[n + 1] = k /\ \A j \in 1 .. n : r[j] = s[j]
  OBVIOUS
<1>2. r # <<>>
  BY <1>1
<1>3. s = <<>> <=> n = 0
  OBVIOUS
<1>4. \A i : i \in RequestEnds(s) <=> /\ i \in 1 .. n /\ s[i] = "nl"
                                      /\ \E j \in 1 .. i - 1 : StartsLine(s, j) /\ AllQ(s, j, i - 1)
  BY RequestEndsAre
<1>5. GoodTail(s) <=> \E j \in 1 .. n : StartsLine(s, j) /\ AllQ(s, j, n)
  BY DEF GoodTail
<1>6. Fresh(s) <=> n = 0 \/ s[n] = "nl"
  BY <1>3 DEF Fresh
<1>7. RequestEnds(s) \subseteq 1 .. n /\ IsFiniteSet(RequestEnds(s))
  BY RequestEndsFinite
<1> HIDE DEF r
<1>8. \A i : i \in RequestEnds(r) <=> /\ i \in 1 .. Len(r) /\ r[i] = "nl"
                                      /\ \E j \in 1 .. i - 1 : StartsLine(r, j) /\ AllQ(r, j, i - 1)
  BY <1>1, RequestEndsAre
<1>9. Fresh(r) <=> k = "nl"
  BY <1>1, <1>2 DEF Fresh
<1> HIDE DEF n
<1>10. ASSUME NEW j \in 1 .. n + 1
       PROVE  /\ StartsLine(r, j) <=> IF j = n + 1 THEN n = 0 \/ s[n] = "nl" ELSE StartsLine(s, j)
              /\ \A i \in 0 .. n : AllQ(r, j, i) <=> AllQ(s, j, i)
              /\ AllQ(r, j, n + 1) <=> AllQ(s, j, n) /\ k = "q"
  <2>1. j = n + 1 \/ (j \in 1 .. n /\ (j = 1 \/ j - 1 \in 1 .. n))
    BY <1>1
  <2>2. j = n + 1 => (j = 1 <=> n = 0) /\ (n # 0 => n \in 1 .. n) /\ j - 1 = n
    BY <1>1
  <2>3. StartsLine(r, j) <=> IF j = n + 1 THEN n = 0 \/ s[n] = "nl" ELSE StartsLine(s, j)
    BY <1>1, <2>1, <2>2 DEF StartsLine
  <2>4. \A i \in 0 .. n : AllQ(r, j, i) <=> AllQ(s, j, i)
    BY <1>1 DEF AllQ
  <2>5. AllQ(r, j, n + 1) <=> AllQ(s, j, n) /\ k = "q"
    <3>1. \A i \in j .. n + 1 : i = n + 1 \/ i \in j .. n
      BY <1>1
    <3>2. n + 1 \in j .. n + 1 /\ \A i \in j .. n : i \in j .. n + 1 /\ i \in 1 .. n
      BY <1>1
    <3> QED
      BY <1>1, <3>1, <3>2 DEF AllQ
  <2> QED
    BY <2>3, <2>4, <2>5
<1>11. GoodTail(r) <=> k = "q" /\ (Fresh(s) \/ GoodTail(s))
  <2>1. GoodTail(r) <=> \E j \in 1 .. n + 1 : StartsLine(r, j) /\ AllQ(r, j, n + 1)
    BY <1>1 DEF GoodTail
  <2>2. AllQ(s, n + 1, n)
    BY <1>1 DEF AllQ
  <2>3. n + 1 \in 1 .. n + 1 /\ 1 .. n \subseteq 1 .. n + 1 /\ \A j \in 1 .. n + 1 : j = n + 1 \/ j \in 1 .. n
    BY <1>1
  <2>4. \A j \in 1 .. n : j # n + 1
    BY <1>1
  <2> QED
    BY <1>5, <1>6, <1>10, <2>1, <2>2, <2>3, <2>4
<1>12. ASSUME NEW i PROVE i \in RequestEnds(r) <=> i \in RequestEnds(s) \/ (i = n + 1 /\ k = "nl" /\ GoodTail(s))
  <2>1. CASE i \in 1 .. n
    <3>1. i \in 1 .. n + 1 /\ i - 1 \in 0 .. n /\ i # n + 1 /\ \A j \in 1 .. i - 1 : j \in 1 .. n + 1 /\ j # n + 1
      BY <1>1, <2>1
    <3> QED
      BY <1>1, <1>4, <1>8, <1>10, <2>1, <3>1
  <2>2. CASE i = n + 1
    <3>1. i - 1 = n /\ i \in 1 .. n + 1 /\ i \notin 1 .. n /\ n \in 0 .. n
          /\ \A j \in 1 .. n : j \in 1 .. n + 1 /\ j # n + 1
      BY <1>1, <2>2
    <3> QED
      BY <1>1, <1>5, <1>7, <1>8, <1>10, <2>2, <3>1
  <2>3. CASE i \notin 1 .. n + 1
    <3>1. i \notin 1 .. n /\ i # n + 1
      BY <1>1, <2>3
    <3> QED
      BY <1>1, <1>7, <1>8, <2>3, <3>1
  <2> QED
    BY <1>1, <2>1, <2>2, <2>3
<1>13. CASE k = "nl" /\ GoodTail(s)
  <2>1. RequestEnds(r) = RequestEnds(s) \cup {n + 1} /\ n + 1 \notin RequestEnds(s)
    BY <1>1, <1>7, <1>12, <1>13
  <2>2. Cardinality(RequestEnds(r)) = Cardinality(RequestEnds(s)) + 1
    BY <1>7, <2>1, FS_AddElement
  <2> QED
    BY <1>9, <1>11, <1>13, <2>2 DEF r
<1>14. CASE ~(k = "nl" /\ GoodTail(s))
  <2>1. RequestEnds(r) = RequestEnds(s)
    BY <1>12, <1>14
  <2>2. Cardinality(RequestEnds(s)) \in Nat
    BY RequestEndsFinite
  <2> QED
    BY <1>9, <1>11, <1>14, <2>1, <2>2 DEF r
<1> QED
  BY <1>13, <1>14

\* As many elements in a set moved up by p.
LEMMA MovedUp ==
  ASSUME NEW S, S \in SUBSET Nat, IsFiniteSet(S), NEW p \in Nat,
         NEW T, \A j : j \in T <=> \E i \in S : j = i + p
  PROVE  IsFiniteSet(T) /\ Cardinality(T) = Cardinality(S)
<1> DEFINE f == [i \in S |-> i + p]
<1>1. f \in [S -> T]
  OBVIOUS
<1>2. \A a, b \in S : f[a] = f[b] => a = b
  <2>1. \A a, b \in S : a \in Nat /\ b \in Nat
    OBVIOUS
  <2>2. \A a \in S : f[a] = a + p
    OBVIOUS
  <2> QED
    BY <2>1, <2>2
<1>3. \A t \in T : \E a \in S : f[a] = t
  OBVIOUS
<1> HIDE DEF f
<1>4. f \in Bijection(S, T)
  BY <1>1, <1>2, <1>3 DEF Bijection, Injection, Surjection, IsInjective
<1>5. ExistsBijection(S, T)
  BY <1>4 DEF ExistsBijection
<1> QED
  BY <1>5, FS_Bijection

\* The first line of s ends at p and u is what follows: its requests are the
\* other requests of s.
LEMMA TakeLine ==
  ASSUME NEW s \in Seq(Tokens), NEW u \in Seq(Tokens), NEW p \in 1 .. Len(s), s[p] = "nl",
         \A j \in 1 .. p - 1 : s[j] # "nl",
         Len(u) = Len(s) - p, \A j \in 1 .. Len(s) - p : u[j] = s[j + p]
  PROVE  /\ Cardinality(RequestEnds(s)) =
              Cardinality(RequestEnds(u)) + (IF p > 1 /\ AllQ(s, 1, p - 1) THEN 1 ELSE 0)
         /\ Fresh(s) <=> Fresh(u)
         /\ GoodTail(s) <=> GoodTail(u)
<1> DEFINE n == Len(s)
           d == Len(u)
<1>1. n \in Nat /\ d \in Nat /\ p \in Nat /\ 1 <= p /\ p <= n /\ n = d + p
  OBVIOUS
<1>2. s # <<>> /\ (u = <<>> <=> d = 0)
  BY <1>1
<1>3. \A i : i \in RequestEnds(s) <=> /\ i \in 1 .. n /\ s[i] = "nl"
                                      /\ \E k \in 1 .. i - 1 : StartsLine(s, k) /\ AllQ(s, k, i - 1)
  BY RequestEndsAre
<1>4. \A i : i \in RequestEnds(u) <=> /\ i \in 1 .. d /\ u[i] = "nl"
                                      /\ \E k \in 1 .. i - 1 : StartsLine(u, k) /\ AllQ(u, k, i - 1)
  BY RequestEndsAre
<1>5. (GoodTail(s) <=> \E k \in 1 .. n : StartsLine(s, k) /\ AllQ(s, k, n))
      /\ (GoodTail(u) <=> \E k \in 1 .. d : StartsLine(u, k) /\ AllQ(u, k, d))
  BY DEF GoodTail
<1>6. (Fresh(s) <=> s[n] = "nl") /\ (Fresh(u) <=> d = 0 \/ u[d] = "nl")
  BY <1>2 DEF Fresh
<1>7. \A j \in 1 .. d : u[j] = s[j + p]
  BY <1>1
<1>8. IsFiniteSet(RequestEnds(u)) /\ Cardinality(RequestEnds(u)) \in Nat
      /\ RequestEnds(u) \in SUBSET Nat
  <2>1. RequestEnds(u) \subseteq 1 .. d /\ IsFiniteSet(RequestEnds(u))
        /\ Cardinality(RequestEnds(u)) \in Nat
    BY RequestEndsFinite
  <2> QED
    BY <1>1, <2>1
<1> HIDE DEF n, d
<1>9. ASSUME NEW k \in 1 .. d
      PROVE  StartsLine(u, k) <=> StartsLine(s, k + p)
  <2>1. CASE k = 1
    <3>1. k + p - 1 = p
      BY <1>1, <2>1
    <3> QED
      BY <2>1, <3>1 DEF StartsLine
  <2>2. CASE k # 1
    <3>1. k - 1 \in 1 .. d /\ k + p - 1 = (k - 1) + p /\ k + p # 1
      BY <1>1, <2>2
    <3>2. u[k - 1] = s[k + p - 1]
      BY <1>7, <3>1
    <3> QED
      BY <2>2, <3>1, <3>2 DEF StartsLine
  <2> QED
    BY <2>1, <2>2
<1>10. ASSUME NEW k \in 1 .. d, NEW i \in 0 .. d
       PROVE  AllQ(u, k, i) <=> AllQ(s, k + p, i + p)
  <2>1. ASSUME AllQ(u, k, i), NEW j \in k + p .. i + p PROVE s[j] = "q"
    <3>1. j - p \in k .. i /\ j - p \in 1 .. d /\ (j - p) + p = j
      BY <1>1
    <3> QED
      BY <1>7, <2>1, <3>1 DEF AllQ
  <2>2. ASSUME AllQ(s, k + p, i + p), NEW j \in k .. i PROVE u[j] = "q"
    <3>1. j + p \in k + p .. i + p /\ j \in 1 .. d
      BY <1>1
    <3> QED
      BY <1>7, <2>2, <3>1 DEF AllQ
  <2> QED
    BY <2>1, <2>2 DEF AllQ
\* A stretch of "q" does not reach over the newline.
<1>11. ASSUME NEW k \in 1 .. p, NEW i \in p .. n
       PROVE  ~AllQ(s, k, i)
  <2>1. p \in k .. i /\ s[p] # "q"
    BY <1>1
  <2> QED
    BY <2>1 DEF AllQ
<1>12. ASSUME NEW i \in 0 .. d
       PROVE  (\E k \in 1 .. i + p : StartsLine(s, k) /\ AllQ(s, k, i + p))
                <=> (\E k \in 1 .. i : StartsLine(u, k) /\ AllQ(u, k, i))
  <2>1. ASSUME NEW k \in 1 .. i + p, StartsLine(s, k), AllQ(s, k, i + p)
        PROVE  \E h \in 1 .. i : StartsLine(u, h) /\ AllQ(u, h, i)
    <3>1. i + p \in p .. n /\ (k \in 1 .. p \/ (k - p \in 1 .. i /\ k - p \in 1 .. d /\ (k - p) + p = k))
      BY <1>1
    <3>2. k - p \in 1 .. i /\ k - p \in 1 .. d /\ (k - p) + p = k
      BY <1>11, <2>1, <3>1
    <3>3. StartsLine(u, k - p) /\ AllQ(u, k - p, i)
      BY <1>9, <1>10, <2>1, <3>2
    <3> QED
      BY <3>2, <3>3
  <2>2. ASSUME NEW k \in 1 .. i, StartsLine(u, k), AllQ(u, k, i)
        PROVE  \E h \in 1 .. i + p : StartsLine(s, h) /\ AllQ(s, h, i + p)
    <3>1. k \in 1 .. d /\ k + p \in 1 .. i + p
      BY <1>1
    <3>2. StartsLine(s, k + p) /\ AllQ(s, k + p, i + p)
      BY <1>9, <1>10, <2>2, <3>1
    <3> QED
      BY <3>1, <3>2
  <2> QED
    BY <2>1, <2>2
<1>13. GoodTail(s) <=> GoodTail(u)
  <2>1. d \in 0 .. d /\ d + p = n
    BY <1>1
  <2> QED
    BY <1>5, <1>12, <2>1
<1>14. Fresh(s) <=> Fresh(u)
  <2>1. CASE d = 0
    BY <1>1, <1>6, <2>1
  <2>2. CASE d # 0
    <3>1. d \in 1 .. d /\ d + p = n
      BY <1>1, <2>2
    <3> QED
      BY <1>6, <1>7, <2>2, <3>1
  <2> QED
    BY <2>1, <2>2
<1> DEFINE T == {i + p : i \in RequestEnds(u)}
<1>15. IsFiniteSet(T) /\ Cardinality(T) = Cardinality(RequestEnds(u))
  <2>1. \A j : j \in T <=> \E i \in RequestEnds(u) : j = i + p
    OBVIOUS
  <2> HIDE DEF T
  <2> QED
    BY <1>1, <1>8, <2>1, MovedUp
<1>16. ASSUME NEW i \in 1 .. d PROVE i + p \in RequestEnds(s) <=> i \in RequestEnds(u)
  <2>1. i + p \in 1 .. n /\ i - 1 \in 0 .. d /\ (i + p) - 1 = (i - 1) + p
    BY <1>1
  <2> QED
    BY <1>3, <1>4, <1>7, <1>12, <2>1
<1>17. p \in RequestEnds(s) <=> p > 1 /\ AllQ(s, 1, p - 1)
  <2>1. p \in 1 .. n
    BY <1>1
  <2>2. ASSUME NEW k \in 1 .. p - 1, StartsLine(s, k) PROVE k = 1
    <3>1. k = 1 \/ k - 1 \in 1 .. p - 1
      BY <1>1
    <3> QED
      BY <2>2, <3>1 DEF StartsLine
  <2>3. (p > 1 <=> 1 \in 1 .. p - 1) /\ StartsLine(s, 1) /\ (\A k \in 1 .. p - 1 : p > 1)
    BY <1>1 DEF StartsLine
  <2> QED
    BY <1>3, <2>1, <2>2, <2>3
<1>18. ASSUME NEW i \in RequestEnds(s) PROVE i = p \/ i \in T
  <2>1. i \in 1 .. n /\ s[i] = "nl"
    BY <1>3
  <2>2. i \in 1 .. p - 1 \/ i = p \/ (i - p \in 1 .. d /\ (i - p) + p = i)
    BY <1>1, <2>1
  <2>3. i = p \/ (i - p \in 1 .. d /\ (i - p) + p = i)
    BY <2>1, <2>2
  <2> QED
    BY <1>16, <2>3
<1>19. \A i \in T : i \in RequestEnds(s) /\ i # p
  <2> SUFFICES ASSUME NEW j \in RequestEnds(u) PROVE j + p \in RequestEnds(s) /\ j + p # p
    OBVIOUS
  <2>1. j \in 1 .. d
    BY <1>4
  <2>2. j + p # p
    BY <1>1, <2>1
  <2> QED
    BY <1>16, <2>1, <2>2
<1> HIDE DEF T
<1>20. CASE p > 1 /\ AllQ(s, 1, p - 1)
  <2>1. RequestEnds(s) = T \cup {p} /\ p \notin T
    BY <1>17, <1>18, <1>19, <1>20
  <2>2. Cardinality(RequestEnds(s)) = Cardinality(T) + 1
    BY <1>15, <2>1, FS_AddElement
  <2> QED
    BY <1>13, <1>14, <1>15, <1>20, <2>2
<1>21. CASE ~(p > 1 /\ AllQ(s, 1, p - 1))
  <2>1. RequestEnds(s) = T
    BY <1>17, <1>18, <1>19, <1>21
  <2> QED
    BY <1>8, <1>13, <1>14, <1>15, <1>21, <2>1
<1> QED
  BY <1>20, <1>21

----------------------------------------------------------------------------
(* No request is lost or answered twice.                                   *)

\* u is what the server has not taken lines from, q requests were completed,
\* r answered, k are being answered, and h says how the last line stands.
Accounts(u, q, r, h, k) ==
  /\ q = r + Cardinality(RequestEnds(u)) + k
  /\ h = "empty" <=> Fresh(u)
  /\ h = "good" <=> GoodTail(u)

\* Unread, for a server whose line buffers are empty while it reads a line.
Pending(c) == (IF cur = c /\ pc = "line" THEN line ELSE buf[c]) \o wire[c]
InHand(c)  == IF pc = "reply" /\ cur = c THEN 1 ELSE 0
Known      == Linked \cup ToSet(backlog)

Settled(c) == Accounts(Pending(c), asked[c], answered[c], half[c], InHand(c))
StreamInv  == \A c \in Known : Settled(c)

\* Nothing has come over a connection that was not opened.
NewInv ==
  \A c \in Conns : peer[c] = "new" =>
    wire[c] = <<>> /\ asked[c] = 0 /\ answered[c] = 0 /\ half[c] = "empty"

LEMMA NothingPending ==
  Accounts(<<>>, 0, 0, "empty", 0)
<1>1. Fresh(<<>>) /\ ~GoodTail(<<>>)
  BY DEF Fresh, GoodTail
<1>2. Cardinality(RequestEnds(<<>>)) = 0
  BY NoRequests
<1>3. 0 = 0 + Cardinality(RequestEnds(<<>>)) + 0
  BY <1>2
<1>4. "empty" # "good"
  OBVIOUS
<1> QED
  BY ONLY <1>1, <1>3, <1>4 DEF Accounts

LEMMA AppendLast ==
  ASSUME NEW p \in Seq(Tokens), NEW w \in Seq(Tokens), NEW t \in Tokens
  PROVE  p \o Append(w, t) = Append(p \o w, t)
  OBVIOUS

LEMMA EmptyParts ==
  ASSUME NEW p \in Seq(Tokens)
  PROVE  p \o <<>> = p /\ <<>> \o p = p
  BY ConcatEmptySeq

\* One more token of a client.
LEMMA TokenAccounts ==
  ASSUME NEW p \in Seq(Tokens), NEW w \in Seq(Tokens), NEW t \in Tokens,
         NEW q \in Nat, NEW r \in Nat, NEW k \in Nat, NEW h \in {"empty", "good", "bad"},
         Accounts(p \o w, q, r, h, k)
  PROVE  Accounts(p \o Append(w, t),
                  IF t = "nl" /\ h = "good" THEN q + 1 ELSE q, r,
                  CASE t = "nl" -> "empty" [] t = "j" -> "bad"
                    [] t = "q" -> IF h = "bad" THEN "bad" ELSE "good", k)
<1> DEFINE s == p \o w
<1>1. s \in Seq(Tokens) /\ p \o Append(w, t) = Append(s, t)
  BY AppendLast
<1>2. t \in {"nl", "j", "q"}
  BY TokensAssumption
<1>3. q = r + Cardinality(RequestEnds(s)) + k /\ (h = "empty" <=> Fresh(s)) /\ (h = "good" <=> GoodTail(s))
  BY DEF Accounts
<1>4. Cardinality(RequestEnds(s)) \in Nat
  BY <1>1, RequestEndsFinite
<1> HIDE DEF s
<1>5. /\ Cardinality(RequestEnds(Append(s, t))) =
           Cardinality(RequestEnds(s)) + (IF t = "nl" /\ GoodTail(s) THEN 1 ELSE 0)
      /\ Fresh(Append(s, t)) <=> t = "nl"
      /\ GoodTail(Append(s, t)) <=> t = "q" /\ (Fresh(s) \/ GoodTail(s))
  BY <1>1, AppendToken
<1> SUFFICES Accounts(Append(s, t),
                  IF t = "nl" /\ h = "good" THEN q + 1 ELSE q, r,
                  CASE t = "nl" -> "empty" [] t = "j" -> "bad"
                    [] t = "q" -> IF h = "bad" THEN "bad" ELSE "good", k)
  BY <1>1
<1>6. CASE t = "nl"
  BY <1>3, <1>4, <1>5, <1>6 DEF Accounts
<1>7. CASE t = "j"
  BY <1>3, <1>4, <1>5, <1>7 DEF Accounts
<1>8. CASE t = "q"
  BY <1>3, <1>4, <1>5, <1>8 DEF Accounts
<1> QED
  BY <1>2, <1>6, <1>7, <1>8

\* A line taken off what has been read of a connection.
LEMMA LineAccounts ==
  ASSUME NEW l \in Seq(Tokens), NEW w \in Seq(Tokens), NEW q \in Nat, NEW r \in Nat, NEW h,
         Newlines(l) # {}, Accounts(l \o w, q, r, h, 0)
  PROVE  Accounts(SubSeq(l, FirstNewline(l) + 1, Len(l)) \o w, q, r, h,
                  IF IsRequest(SubSeq(l, 1, FirstNewline(l) - 1)) THEN 1 ELSE 0)
<1> DEFINE p == FirstNewline(l)
           s == l \o w
           u == SubSeq(l, p + 1, Len(l)) \o w
<1>1. p \in 1 .. Len(l) /\ l[p] = "nl" /\ \A j \in 1 .. p - 1 : l[j] # "nl"
  BY FirstNewlineFacts
<1> HIDE DEF p
<1>2. Len(l) \in Nat /\ Len(w) \in Nat /\ p \in 0 .. Len(l)
  BY <1>1
<1>3. s \in Seq(Tokens) /\ Len(s) = Len(l) + Len(w)
      /\ (\A i \in 1 .. Len(l) : s[i] = l[i]) /\ \A i \in 1 .. Len(w) : s[i + Len(l)] = w[i]
  BY ConcatFacts
<1>4. ASSUME NEW b, b = SubSeq(l, p + 1, Len(l))
      PROVE  /\ b \o w \in Seq(Tokens) /\ Len(b \o w) = Len(s) - p
             /\ \A j \in 1 .. Len(s) - p : (b \o w)[j] = s[j + p]
  <2>1. b \in Seq(Tokens) /\ Len(b) = Len(l) - p /\ \A j \in 1 .. Len(l) - p : b[j] = l[j + p]
    BY <1>2, <1>4, SplitFacts
  <2>0. b \in Seq(Tokens) /\ w \in Seq(Tokens)
    BY <2>1
  <2>2. /\ b \o w \in Seq(Tokens) /\ Len(b \o w) = Len(b) + Len(w)
        /\ (\A i \in 1 .. Len(b) : (b \o w)[i] = b[i])
        /\ \A i \in 1 .. Len(w) : (b \o w)[i + Len(b)] = w[i]
    BY ONLY <2>0, ConcatFacts
  <2>3. Len(b \o w) = Len(s) - p
    BY <1>2, <1>3, <2>1, <2>2
  <2>4. ASSUME NEW j \in 1 .. Len(s) - p PROVE (b \o w)[j] = s[j + p]
    <3>1. CASE j <= Len(b)
      <4>1. j \in 1 .. Len(b) /\ j \in 1 .. Len(l) - p /\ j + p \in 1 .. Len(l)
        BY <1>2, <2>1, <3>1
      <4> QED
        BY <1>3, <2>1, <2>2, <4>1
    <3>2. CASE j > Len(b)
      <4> DEFINE i == j - Len(b)
      <4>1. i \in 1 .. Len(w) /\ i + Len(b) = j /\ i + Len(l) = j + p
        BY <1>2, <1>3, <2>1, <3>2
      <4> HIDE DEF i
      <4>2. (b \o w)[j] = w[i] /\ s[j + p] = w[i]
        BY <1>3, <2>2, <4>1
      <4> QED
        BY <4>2
    <3> QED
      BY <1>2, <2>1, <3>1, <3>2, SMTT(30)
  <2> QED
    BY <2>2, <2>3, <2>4
<1>5. u \in Seq(Tokens) /\ Len(u) = Len(s) - p /\ \A j \in 1 .. Len(s) - p : u[j] = s[j + p]
  BY <1>4
<1>6. p \in 1 .. Len(s) /\ s[p] = "nl" /\ \A j \in 1 .. p - 1 : s[j] # "nl"
  BY <1>1, <1>2, <1>3
<1>7. IsRequest(SubSeq(l, 1, p - 1)) <=> p > 1 /\ AllQ(s, 1, p - 1)
  <2>1. p - 1 \in 0 .. Len(l) /\ 1 \in 1 .. (p - 1) + 1 /\ (1 <= p - 1 <=> p > 1)
    BY <1>1, <1>2
  <2>2. IsRequest(SubSeq(l, 1, p - 1)) <=> 1 <= p - 1 /\ AllQ(l, 1, p - 1)
    BY <2>1, IsRequestOf
  <2>3. AllQ(l, 1, p - 1) <=> AllQ(s, 1, p - 1)
    BY <1>1, <1>2, <1>3 DEF AllQ
  <2> QED
    BY <2>1, <2>2, <2>3
<1>8. q = r + Cardinality(RequestEnds(s)) + 0 /\ (h = "empty" <=> Fresh(s)) /\ (h = "good" <=> GoodTail(s))
  BY DEF Accounts
<1> HIDE DEF s, u
<1>9. /\ Cardinality(RequestEnds(s)) =
           Cardinality(RequestEnds(u)) + (IF p > 1 /\ AllQ(s, 1, p - 1) THEN 1 ELSE 0)
      /\ Fresh(s) <=> Fresh(u)
      /\ GoodTail(s) <=> GoodTail(u)
  BY <1>3, <1>5, <1>6, TakeLine
<1>10. Cardinality(RequestEnds(u)) \in Nat
  BY <1>5, RequestEndsFinite
<1>11. Accounts(u, q, r, h, IF IsRequest(SubSeq(l, 1, p - 1)) THEN 1 ELSE 0)
  BY <1>7, <1>8, <1>9, <1>10 DEF Accounts
<1> QED
  BY <1>11 DEF u, p

LEMMA NewStep ==
  ASSUME IInv, NewInv, [Next]_vars
  PROVE  NewInv'
<1> USE DEF env, ctx, local, vars
<1>0. TypeOK /\ ListInv /\ PointerInv /\ ClientCount
  BY DEF IInv
<1>1. ASSUME \A c \in Conns : peer'[c] = "new" =>
               /\ peer[c] = "new" /\ wire'[c] = wire[c] /\ half'[c] = half[c]
               /\ asked'[c] = asked[c] /\ answered'[c] = answered[c]
      PROVE  NewInv'
  BY <1>1 DEF NewInv
<1>2. ASSUME UNCHANGED <<peer, wire, half, asked, answered>> PROVE NewInv'
  BY <1>1, <1>2
<1>3. ASSUME NEW c \in Linked, Unlink(c), UNCHANGED <<half, asked, answered>> PROVE NewInv'
  <2>1. \A d \in Conns : /\ peer'[d] = IF d = c THEN "dropped" ELSE peer[d]
                         /\ wire'[d] = IF d = c THEN <<>> ELSE wire[d]
    BY <1>0, <1>3, UnlinkFacts
  <2> QED
    BY <1>1, <1>3, <2>1
<1>4. ASSUME NEW c \in Conns, PeerNext(c) PROVE NewInv'
  <2>1. CASE Connect(c)
    BY <1>0, <1>1, <2>1 DEF Connect, TypeOK
  <2>2. CASE \E t \in Tokens : Send(c, t)
    <3>1. PICK t \in Tokens : Send(c, t)
      BY <2>2
    <3>2. peer' = peer /\ answered' = answered /\ peer[c] # "new"
      BY <3>1 DEF Send
    <3>3. \A d \in Conns : d # c => wire'[d] = wire[d] /\ half'[d] = half[d] /\ asked'[d] = asked[d]
      BY <1>0, <3>1 DEF Send, TypeOK
    <3> QED
      BY <1>1, <3>2, <3>3
  <2>3. CASE Hangup(c)
    BY <1>0, <1>1, <2>3 DEF Hangup, TypeOK
  <2>4. CASE Settle(c)
    <3>1. \A d \in Conns : d # c => asked'[d] = asked[d] /\ answered'[d] = answered[d]
      BY <1>0, <2>4 DEF Settle, TypeOK
    <3> QED
      BY <1>1, <2>4, <3>1 DEF Settle
  <2> QED
    BY <1>4, <2>1, <2>2, <2>3, <2>4 DEF PeerNext
<1>5. CASE Shutdown \/ SelectTimeout \/ SelectError \/ SelectShutdown \/ NoAccept \/ AcceptError \/ Select
  BY <1>2, <1>5 DEF Shutdown, SelectTimeout, SelectError, SelectShutdown, NoAccept, AcceptError, Select
<1>6. CASE Skip \/ Visit \/ Again \/ Done \/ SplitLine
  BY <1>2, <1>6 DEF Skip, Visit, Again, Done, SplitLine
<1>7. ASSUME pc \in InVisit PROVE cur \in Conns /\ peer[cur] # "new"
  BY <1>0, <1>7 DEF PointerInv, ListInv, TypeOK, Linked, ToSet
<1>8. CASE Read
  <2>1. UNCHANGED <<peer, half, asked, answered>> /\ peer[cur] # "new"
        /\ \A d \in Conns : d # cur => wire'[d] = wire[d]
    BY <1>0, <1>7, <1>8 DEF Read, TypeOK, InVisit
  <2> QED
    BY <1>1, <2>1
<1>9. CASE Reply
  <2>1. UNCHANGED <<peer, half, asked, wire>> /\ peer[cur] # "new"
        /\ \A d \in Conns : d # cur => answered'[d] = answered[d]
    BY <1>0, <1>7, <1>9 DEF Reply, TypeOK, InVisit
  <2> QED
    BY <1>1, <2>1
<1>10. CASE DropClient
  BY <1>0, <1>3, <1>10 DEF DropClient, PointerInv, InVisit
<1>11. CASE Cleanup
  <2>1. Head(clients) \in Linked
    BY <1>0, <1>11, PopFacts DEF Cleanup, ListInv, Linked, TypeOK
  <2> QED
    BY <1>3, <1>11, <2>1 DEF Cleanup
<1>12. ASSUME Accepting PROVE Head(backlog) \in Conns /\ peer[Head(backlog)] # "new"
  BY <1>12, AcceptFacts
<1>13. CASE AddClient
  <2>1. \A d \in Conns : peer'[d] = "new" => peer[d] = "new"
    BY <1>0, <1>13 DEF AddClient, TypeOK
  <2> QED
    BY <1>1, <1>13, <2>1 DEF AddClient
<1>14. CASE AddFails
  <2>1. \A d \in Conns : peer'[d] = "new" => peer[d] = "new"
    BY <1>0, <1>14 DEF AddFails, TypeOK
  <2> QED
    BY <1>1, <1>14, <2>1 DEF AddFails
<1>15. CASE Refuse
  <2>1. \A d \in Conns : peer'[d] = "new" => peer[d] = "new" /\ wire'[d] = wire[d]
    BY <1>0, <1>12, <1>15 DEF Refuse, TypeOK
  <2> QED
    BY <1>1, <1>15, <2>1 DEF Refuse
<1>16. CASE Stop
  <2>1. \A d \in Conns : peer'[d] = "new" => peer[d] = "new" /\ wire'[d] = wire[d]
    BY <1>16 DEF Stop
  <2> QED
    BY <1>1, <1>16, <2>1 DEF Stop
<1>17. CASE UNCHANGED vars
  BY <1>2, <1>17
<1> QED
  BY <1>4, <1>5, <1>6, <1>8, <1>9, <1>10, <1>11, <1>13, <1>14, <1>15, <1>16, <1>17
     DEF Next, ServerNext, ServerError

LEMMA StreamStep ==
  ASSUME IInv, NewInv, StreamInv, [Next]_vars
  PROVE  StreamInv'
<1> USE DEF env, ctx, local, vars
<1>0. TypeOK /\ ListInv /\ PointerInv /\ BufferInv /\ ClientCount
  BY DEF IInv
<1>1. Known \subseteq Conns
  <2>1. clients \in Seq(Conns) /\ backlog \in Seq(Conns)
    BY <1>0 DEF TypeOK
  <2>2. ToSet(clients) \subseteq Conns /\ ToSet(backlog) \subseteq Conns
    BY <2>1 DEF ToSet
  <2> QED
    BY <2>2 DEF Known, Linked
\* What a step leaves of a connection.
<1>2. ASSUME NEW c \in Known, wire'[c] = wire[c], buf'[c] = buf[c], half'[c] = half[c],
             asked'[c] = asked[c], answered'[c] = answered[c],
             cur = c /\ pc = "line" <=> cur' = c /\ pc' = "line",
             cur = c /\ pc = "line" => line' = line,
             cur = c /\ pc = "reply" <=> cur' = c /\ pc' = "reply"
      PROVE  Settled(c)'
  <2>1. Settled(c)
    BY DEF StreamInv
  <2>2. Pending(c)' = Pending(c) /\ InHand(c)' = InHand(c)
    BY <1>2 DEF Pending, InHand
  <2> QED
    BY <1>2, <2>1, <2>2 DEF Settled
<1>3. ASSUME UNCHANGED <<clients, backlog, wire, buf, half, asked, answered>>,
             pc \notin {"line", "reply"}, pc' \notin {"line", "reply"}
      PROVE  StreamInv'
  BY <1>2, <1>3 DEF StreamInv, Known, Linked
<1>4. ASSUME UNCHANGED <<clients, backlog, wire, buf, half, asked, answered, pc, cur, line>>
      PROVE  StreamInv'
  BY <1>2, <1>4 DEF StreamInv, Known, Linked
<1>5. CASE Shutdown \/ SelectTimeout \/ UNCHANGED vars
  BY <1>4, <1>5 DEF Shutdown, SelectTimeout
<1>6. CASE SelectError \/ SelectShutdown \/ NoAccept \/ AcceptError \/ Select \/ Skip \/ Done
  BY <1>3, <1>6 DEF SelectError, SelectShutdown, NoAccept, AcceptError, Accepting, Select, Skip, Done,
     Leave
<1>7. ASSUME NEW d \in Conns, Connect(d) PROVE StreamInv'
  <2>1. /\ peer[d] = "new" /\ d \notin Known
        /\ wire[d] = <<>> /\ asked[d] = 0 /\ answered[d] = 0 /\ half[d] = "empty"
    BY <1>0, <1>7 DEF Connect, ListInv, NewInv, Known
  <2>2. Known' = Known \cup {d}
    <3>1. ToSet(backlog') = ToSet(backlog) \cup {d}
      BY <1>0, <1>7, <2>1, AppendFacts DEF Connect, TypeOK, ListInv, Known
    <3> QED
      BY <1>7, <3>1 DEF Connect, Known, Linked
  <2>3. \A c \in Known : Settled(c)'
    BY <1>2, <1>7 DEF Connect
  <2>4. ~(cur = d /\ pc \in {"line", "reply", "again"})
    BY <1>0, <2>1 DEF PointerInv, InVisit, Known
  <2>5. buf[d] = <<>>
    BY <1>0, <2>4 DEF BufferInv
  <2>6. Pending(d)' = <<>> \o <<>> /\ InHand(d)' = 0
    BY <1>7, <2>1, <2>4, <2>5 DEF Connect, Pending, InHand
  <2>7. Pending(d)' = <<>>
    BY <2>6, EmptyParts
  <2>8. Settled(d)'
    BY <1>7, <2>1, <2>6, <2>7, NothingPending DEF Connect, Settled
  <2> QED
    BY <2>2, <2>3, <2>8 DEF StreamInv
<1>8. ASSUME NEW d \in Conns, NEW t \in Tokens, Send(d, t) PROVE StreamInv'
  <2>1. Known' = Known
    BY <1>8 DEF Send, Known, Linked
  <2>2. ASSUME NEW c \in Known, c # d PROVE Settled(c)'
    <3>1. wire'[c] = wire[c] /\ half'[c] = half[c] /\ asked'[c] = asked[c]
      BY <1>0, <1>1, <1>8, <2>2 DEF Send, TypeOK
    <3> QED
      BY <1>2, <1>8, <3>1 DEF Send
  <2>3. ASSUME d \in Known PROVE Settled(d)'
    <3> DEFINE p == IF cur = d /\ pc = "line" THEN line ELSE buf[d]
    <3>1. p \in Seq(Tokens) /\ wire[d] \in Seq(Tokens)
      BY <1>0 DEF TypeOK
    <3>2. /\ asked[d] \in Nat /\ answered[d] \in Nat /\ InHand(d) \in Nat
          /\ half[d] \in {"empty", "good", "bad"}
      BY <1>0 DEF TypeOK, InHand
    <3>3. Accounts(p \o wire[d], asked[d], answered[d], half[d], InHand(d))
      BY <2>3 DEF StreamInv, Settled, Pending
    <3>4. Pending(d)' = p \o Append(wire[d], t) /\ InHand(d)' = InHand(d)
      BY <1>0, <1>8 DEF Send, Pending, InHand, TypeOK
    <3>5. /\ asked'[d] = IF t = "nl" /\ half[d] = "good" THEN asked[d] + 1 ELSE asked[d]
          /\ answered'[d] = answered[d]
          /\ half'[d] = CASE t = "nl" -> "empty" [] t = "j" -> "bad"
                          [] t = "q" -> IF half[d] = "bad" THEN "bad" ELSE "good"
      BY <1>0, <1>8 DEF Send, TypeOK
    <3> HIDE DEF p
    <3>6. Accounts(p \o Append(wire[d], t),
                   IF t = "nl" /\ half[d] = "good" THEN asked[d] + 1 ELSE asked[d], answered[d],
                   CASE t = "nl" -> "empty" [] t = "j" -> "bad"
                     [] t = "q" -> IF half[d] = "bad" THEN "bad" ELSE "good", InHand(d))
      BY ONLY <3>1, <3>2, <3>3, t \in Tokens, TokenAccounts
    <3> QED
      BY <3>4, <3>5, <3>6 DEF Settled
  <2> QED
    BY <2>1, <2>2, <2>3 DEF StreamInv
<1>9. ASSUME NEW d \in Conns, Hangup(d) PROVE StreamInv'
  BY <1>4, <1>9 DEF Hangup
<1>23. ASSUME NEW d \in Conns, Settle(d) PROVE StreamInv'
  <2>1. Known' = Known
    BY <1>23 DEF Settle, Known, Linked
  <2>2. ASSUME NEW c \in Known, c # d PROVE Settled(c)'
    <3>1. asked'[c] = asked[c] /\ answered'[c] = answered[c]
      BY <1>0, <1>1, <1>23, <2>2 DEF Settle, TypeOK
    <3> QED
      BY <1>2, <1>23, <3>1 DEF Settle
  <2>3. ASSUME d \in Known PROVE Settled(d)'
    <3>1. Pending(d)' = Pending(d) /\ InHand(d)' = InHand(d) /\ half' = half
      BY <1>23 DEF Settle, Pending, InHand
    <3>2. asked'[d] = 0 /\ answered'[d] = 0 /\ asked[d] = answered[d]
      BY <1>0, <1>23 DEF Settle, TypeOK
    <3>3. Cardinality(RequestEnds(Pending(d))) \in Nat
      <4>1. /\ (IF cur = d /\ pc = "line" THEN line ELSE buf[d]) \in Seq(Tokens)
            /\ wire[d] \in Seq(Tokens)
        BY <1>0, <1>23 DEF TypeOK
      <4>2. Pending(d) \in Seq(Tokens)
        BY ONLY <4>1, ConcatFacts DEF Pending
      <4> QED
        BY <4>2, RequestEndsFinite
    <3>4. answered[d] \in Nat /\ InHand(d) \in Nat
      BY <1>0, <1>23 DEF InHand, TypeOK
    <3>5. Accounts(Pending(d), asked[d], answered[d], half[d], InHand(d))
      BY <2>3 DEF StreamInv, Settled
    <3>6. Accounts(Pending(d), 0, 0, half[d], InHand(d))
      <4>1. PICK n \in Nat : n = Cardinality(RequestEnds(Pending(d)))
        BY <3>3
      <4>2. PICK k \in Nat : k = InHand(d)
        BY <3>4
      <4>3. asked[d] = answered[d] + n + k
        BY <3>5, <4>1, <4>2 DEF Accounts
      <4>4. 0 = 0 + n + k
        BY <3>2, <3>4, <4>3
      <4> QED
        BY <3>5, <4>1, <4>2, <4>4 DEF Accounts
    <3> QED
      BY <3>1, <3>2, <3>6 DEF Settled
  <2> QED
    BY <2>1, <2>2, <2>3 DEF StreamInv
\* Within a visit only the client visited changes.
<1>10. ASSUME pc \in InVisit PROVE cur \in Known /\ cur \in Conns /\ cur # NULL
  BY <1>0, <1>1, <1>10, ConnsAssumption DEF PointerInv, Known
<1>11. ASSUME Visit \/ Again PROVE StreamInv'
  <2>1. /\ pc \in {"scan", "again"} /\ cur \in Known /\ cur \in Conns
        /\ Restore(cur) /\ cur' = cur
        /\ UNCHANGED <<clients, backlog, wire, half, asked, answered>>
    BY <1>0, <1>1, <1>11, <1>10 DEF Visit, Again, PointerInv, InVisit, Known
  <2>2. ASSUME NEW c \in Known, c # cur PROVE Settled(c)'
    BY <1>0, <1>2, <2>1, <2>2 DEF Restore, TypeOK
  <2>3. Pending(cur)' = Pending(cur) /\ InHand(cur)' = InHand(cur)
    BY <2>1 DEF Restore, Pending, InHand
  <2>4. Settled(cur)
    BY <2>1 DEF StreamInv
  <2>5. Settled(cur)'
    BY <2>1, <2>3, <2>4 DEF Settled
  <2> QED
    BY <2>1, <2>2, <2>5 DEF StreamInv, Known, Linked
<1>12. CASE Read
  <2>1. /\ pc = "line" /\ pc' = "line" /\ cur' = cur /\ cur \in Known /\ cur \in Conns
        /\ UNCHANGED <<clients, backlog, buf, half, asked, answered>>
    BY <1>10, <1>12 DEF Read, InVisit
  <2>2. PICK n \in 1 .. Len(wire[cur]) :
          /\ line' = line \o SubSeq(wire[cur], 1, n)
          /\ wire' = [wire EXCEPT ![cur] = SubSeq(@, n + 1, Len(@))]
    BY <1>12 DEF Read
  <2>3. \A c \in Conns : wire'[c] = IF c = cur THEN SubSeq(wire[cur], n + 1, Len(wire[cur])) ELSE wire[c]
    BY <1>0, <2>2 DEF TypeOK
  <2>4. ASSUME NEW c \in Known, c # cur PROVE Settled(c)'
    <3>1. c \in Conns /\ wire'[c] = wire[c]
      BY <1>1, <2>3, <2>4
    <3> QED
      BY <1>2, <2>1, <2>4, <3>1
  <2>5. line \in Seq(Tokens) /\ wire[cur] \in Seq(Tokens)
    BY <1>0, <2>1 DEF TypeOK
  <2>6. (line \o SubSeq(wire[cur], 1, n)) \o SubSeq(wire[cur], n + 1, Len(wire[cur])) = line \o wire[cur]
    BY ONLY <2>5, n \in 1 .. Len(wire[cur]), ReadFacts
  <2>7. Pending(cur) = line \o wire[cur] /\ Pending(cur)' = line' \o wire'[cur]
    BY <2>1 DEF Pending
  <2>8. Pending(cur)' = Pending(cur) /\ InHand(cur)' = InHand(cur)
    BY <2>1, <2>2, <2>3, <2>6, <2>7 DEF InHand
  <2>9. Settled(cur)'
    BY <2>1, <2>8 DEF Settled, StreamInv
  <2> QED
    BY <2>1, <2>4, <2>9 DEF StreamInv, Known, Linked
<1>13. CASE SplitLine
  <2>1. /\ pc = "line" /\ pc' \in {"reply", "again"} /\ cur' = cur /\ cur \in Known /\ cur \in Conns
        /\ UNCHANGED <<clients, backlog, wire, half, asked, answered>>
    BY <1>10, <1>13 DEF SplitLine, InVisit
  <2>2. \A c \in Conns : buf'[c] = IF c = cur THEN SubSeq(line, FirstNewline(line) + 1, Len(line)) ELSE buf[c]
    BY <1>0, <1>13 DEF SplitLine, TypeOK
  <2>3. ASSUME NEW c \in Known, c # cur PROVE Settled(c)'
    <3>1. c \in Conns /\ buf'[c] = buf[c]
      BY <1>1, <2>2, <2>3
    <3> QED
      BY <1>2, <2>1, <2>3, <3>1
  <2>4. line \in Seq(Tokens) /\ wire[cur] \in Seq(Tokens) /\ asked[cur] \in Nat /\ answered[cur] \in Nat
    BY <1>0, <2>1 DEF TypeOK
  <2>5. Accounts(line \o wire[cur], asked[cur], answered[cur], half[cur], 0)
    BY <2>1 DEF StreamInv, Settled, Pending, InHand
  <2>6. Accounts(SubSeq(line, FirstNewline(line) + 1, Len(line)) \o wire[cur],
                 asked[cur], answered[cur], half[cur],
                 IF IsRequest(SubSeq(line, 1, FirstNewline(line) - 1)) THEN 1 ELSE 0)
    BY <1>13, <2>4, <2>5, LineAccounts DEF SplitLine
  <2>7. Pending(cur)' = SubSeq(line, FirstNewline(line) + 1, Len(line)) \o wire[cur]
    BY <2>1, <2>2 DEF Pending
  <2>8. pc' = IF IsRequest(SubSeq(line, 1, FirstNewline(line) - 1)) THEN "reply" ELSE "again"
    BY <1>13 DEF SplitLine
  <2>9. InHand(cur)' = IF IsRequest(SubSeq(line, 1, FirstNewline(line) - 1)) THEN 1 ELSE 0
    BY <2>1, <2>8 DEF InHand
  <2>10. Settled(cur)'
    BY <2>1, <2>6, <2>7, <2>9 DEF Settled
  <2> QED
    BY <2>1, <2>3, <2>10 DEF StreamInv, Known, Linked
<1>14. CASE Reply
  <2>1. /\ pc = "reply" /\ pc' = "again" /\ cur' = cur /\ cur \in Known /\ cur \in Conns
        /\ UNCHANGED <<clients, backlog, wire, buf, half, asked>>
    BY <1>10, <1>14 DEF Reply, InVisit
  <2>2. \A c \in Conns : answered'[c] = IF c = cur THEN answered[cur] + 1 ELSE answered[c]
    BY <1>0, <1>14 DEF Reply, TypeOK
  <2>3. ASSUME NEW c \in Known, c # cur PROVE Settled(c)'
    <3>1. c \in Conns /\ answered'[c] = answered[c]
      BY <1>1, <2>2, <2>3
    <3> QED
      BY <1>2, <2>1, <2>3, <3>1
  <2>4. Pending(cur)' = Pending(cur) /\ Pending(cur) \in Seq(Tokens) /\ InHand(cur) = 1 /\ InHand(cur)' = 0
    BY <1>0, <2>1 DEF Pending, InHand, TypeOK
  <2>5. Cardinality(RequestEnds(Pending(cur))) \in Nat /\ asked[cur] \in Nat /\ answered[cur] \in Nat
    BY <1>0, <2>1, <2>4, RequestEndsFinite DEF TypeOK
  <2>6. Accounts(Pending(cur), asked[cur], answered[cur], half[cur], 1)
    BY <2>1, <2>4 DEF StreamInv, Settled
  <2>7. Accounts(Pending(cur), asked[cur], answered[cur] + 1, half[cur], 0)
    BY <2>5, <2>6 DEF Accounts
  <2>8. Settled(cur)'
    BY <2>1, <2>2, <2>4, <2>7 DEF Settled
  <2> QED
    BY <2>1, <2>3, <2>8 DEF StreamInv, Known, Linked
<1>15. ASSUME NEW d \in Linked, Unlink(d), UNCHANGED <<backlog, half, asked, answered>>,
              \A c \in Known : c # d => ~(cur = c /\ pc \in {"line", "reply"}),
              pc' \notin {"line", "reply"}
       PROVE  StreamInv'
  <2>1. /\ Linked' = Linked \ {d}
        /\ \A c \in Conns : /\ buf'[c] = IF c = d THEN <<>> ELSE buf[c]
                            /\ wire'[c] = IF c = d THEN <<>> ELSE wire[c]
    BY <1>0, <1>15, UnlinkFacts DEF Linked
  <2>2. Known' = Known \ {d}
    BY <1>0, <1>15, <2>1 DEF Known, ListInv
  <2>3. ASSUME NEW c \in Known, c # d PROVE Settled(c)'
    <3>1. c \in Conns /\ buf'[c] = buf[c] /\ wire'[c] = wire[c]
      BY <1>1, <2>1, <2>3
    <3> QED
      BY <1>2, <1>15, <2>3, <3>1
  <2> QED
    BY <2>2, <2>3 DEF StreamInv
<1>16. CASE DropClient
  <2>1. cur \in Linked /\ Unlink(cur) /\ pc' = "scan"
    BY <1>0, <1>16 DEF DropClient, Leave, PointerInv, InVisit
  <2> QED
    BY <1>15, <1>16, <2>1 DEF DropClient
<1>17. CASE Cleanup
  <2>1. Head(clients) \in Linked
    BY <1>0, <1>17, PopFacts DEF Cleanup, ListInv, Linked, TypeOK
  <2> QED
    BY <1>15, <1>17, <2>1 DEF Cleanup
\* What accept() takes is in the list, leaked or refused.
<1>18. ASSUME Accepting, Accepted
       PROVE  /\ Head(backlog) \in Conns /\ Head(backlog) \in Known
              /\ ToSet(backlog') = ToSet(backlog) \ {Head(backlog)}
              /\ Head(backlog) \notin Linked
              /\ pc \notin {"line", "reply"} /\ pc' \notin {"line", "reply"}
  BY <1>18, AcceptFacts DEF Accepting, Accepted, Known
<1>19. CASE AddClient
  <2>1. Known' = Known
    BY <1>18, <1>19, AddFacts DEF AddClient, Known, Linked
  <2> QED
    BY <1>2, <1>18, <1>19, <2>1 DEF AddClient, StreamInv
<1>20. CASE AddFails
  <2>1. Known' \subseteq Known
    BY <1>18, <1>20 DEF AddFails, Known, Linked
  <2> QED
    BY <1>2, <1>18, <1>20, <2>1 DEF AddFails, StreamInv
<1>21. CASE Refuse
  <2>1. Known' = Known \ {Head(backlog)}
    BY <1>18, <1>21 DEF Refuse, Known, Linked
  <2>2. \A c \in Conns : c # Head(backlog) => wire'[c] = wire[c]
    BY <1>0, <1>21 DEF Refuse, TypeOK
  <2>3. ASSUME NEW c \in Known, c # Head(backlog) PROVE Settled(c)'
    <3>1. c \in Conns /\ wire'[c] = wire[c]
      BY <1>1, <2>2, <2>3
    <3> QED
      BY <1>2, <1>18, <1>21, <3>1 DEF Refuse
  <2> QED
    BY <2>1, <2>3 DEF StreamInv
<1>22. CASE Stop
  <2>1. Known' = {}
    BY <1>22 DEF Stop, Known, Linked, ToSet
  <2> QED
    BY <2>1 DEF StreamInv
<1> QED
  BY <1>5, <1>6, <1>7, <1>8, <1>9, <1>11, <1>12, <1>13, <1>14, <1>16, <1>17, <1>19, <1>20, <1>21,
     <1>22, <1>23
     DEF Next, ServerNext, ServerError, PeerNext

LEMMA StreamInductive == Spec => [](IInv /\ NewInv /\ StreamInv)
<1>1. ASSUME Init PROVE NewInv /\ StreamInv
  <2>1. Known = {}
    BY <1>1 DEF Init, Known, Linked, ToSet
  <2> QED
    BY <1>1, <2>1 DEF Init, NewInv, StreamInv
<1>2. IInv /\ NewInv /\ StreamInv /\ [Next]_vars => NewInv' /\ StreamInv'
  BY NewStep, StreamStep
<1> QED
  BY <1>1, <1>2, Inductive, PTL DEF Spec

\* Each request a client of the server completed is answered once, being
\* answered, or in what creadline_r has not taken lines from, however the
\* network and read() cut the client's bytes up.
THEOREM EachRequestOnce == Spec => []NothingLost
<1>1. ASSUME IInv, StreamInv PROVE NothingLost
  <2> SUFFICES ASSUME NEW c \in Linked
               PROVE  asked[c] = answered[c] + Cardinality(RequestEnds(Unread(c)))
                                   + (IF pc = "reply" /\ cur = c THEN 1 ELSE 0)
    BY DEF NothingLost
  <2>1. c \in Conns
    BY <1>1 DEF IInv, TypeOK, Linked, ToSet
  <2>2. line \in Seq(Tokens) /\ buf[c] \in Seq(Tokens) /\ wire[c] \in Seq(Tokens)
    BY <1>1, <2>1 DEF IInv, TypeOK
  <2>3. line \o <<>> = line /\ <<>> \o buf[c] = buf[c]
    BY <2>2, EmptyParts
  <2>4. cur = c /\ pc = "line" => buf[c] = <<>>
    BY <1>1, <2>1 DEF IInv, BufferInv
  <2>5. Unread(c) = Pending(c)
    <3>1. CASE cur = c /\ pc = "line"
      BY <2>3, <2>4, <3>1 DEF Unread, Pending
    <3>2. CASE ~(cur = c /\ pc = "line")
      BY <2>3, <3>2 DEF Unread, Pending
    <3> QED
      BY <3>1, <3>2
  <2>6. Accounts(Pending(c), asked[c], answered[c], half[c], InHand(c))
    BY <1>1 DEF StreamInv, Settled, Known
  <2> QED
    BY <2>5, <2>6 DEF Accounts, InHand
<1> QED
  BY <1>1, StreamInductive, PTL
=============================================================================
