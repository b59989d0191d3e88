----------------------------- MODULE ListLemmas -----------------------------
(***************************************************************************)
(* Facts about the operators the singly linked lists are modelled with,    *)
(* for the proofs of all components.                                       *)
(***************************************************************************)
EXTENDS Naturals, Sequences, SequencesExt, SequenceTheorems, WellFoundedInduction, TLAPS

\* A set of positive numbers that is not empty has a least one.
LEMMA LeastFacts ==
  ASSUME NEW n \in Nat, NEW T \in SUBSET (1 .. n), T # {}
  PROVE  \E i \in T : \A j \in T : i <= j
<1> DEFINE R == OpToRel(<, Nat)
<1>1. T \subseteq Nat
  OBVIOUS
<1>2. IsWellFoundedOn(R, Nat)
  BY NatLessThanWellFounded
<1> HIDE DEF R
<1>3. PICK i \in T : \A j \in T : ~(<<j, i>> \in R)
  BY <1>1, <1>2, WFMin
<1>4. ASSUME NEW j \in T
      PROVE  i <= j
  <2>1. i \in Nat /\ j \in Nat
    BY <1>1
  <2>2. j < i => <<j, i>> \in R
    BY <2>1 DEF R, OpToRel
  <2> QED
    BY <2>1, <2>2, <1>3
<1> QED
  BY <1>4

\* Where the element at place j was before the removal of the one at i.
Before(i, j) == IF j < i THEN j ELSE j + 1

\* The list without its i-th element.
LEMMA RemoveAtFacts ==
  ASSUME NEW S, NEW q \in Seq(S), NEW i \in DOMAIN q
  PROVE  /\ RemoveAt(q, i) \in Seq(S)
         /\ Len(RemoveAt(q, i)) = Len(q) - 1
         /\ \A j \in DOMAIN RemoveAt(q, i) :
              Before(i, j) \in DOMAIN q /\ RemoveAt(q, i)[j] = q[Before(i, j)]
<1>1. Len(q) \in Nat /\ i \in 1 .. Len(q)
  OBVIOUS
<1> DEFINE a == SubSeq(q, 1, i - 1)
           b == SubSeq(q, i + 1, Len(q))
<1>2. a \in Seq(S) /\ Len(a) = i - 1 /\ \A j \in 1 .. i - 1 : a[j] = q[j]
  BY <1>1
<1>3. b \in Seq(S) /\ Len(b) = Len(q) - i /\ \A j \in 1 .. Len(q) - i : b[j] = q[i + j]
  BY <1>1
<1> HIDE DEF a, b
<1>4. /\ a \o b \in Seq(S)
      /\ Len(a \o b) = Len(q) - 1
      /\ \A j \in 1 .. Len(q) - 1 :
           (a \o b)[j] = IF j <= Len(a) THEN a[j] ELSE b[j - Len(a)]
  <2>1. /\ a \o b \in Seq(S)
        /\ Len(a \o b) = Len(a) + Len(b)
        /\ \A j \in 1 .. Len(a) + Len(b) :
             (a \o b)[j] = IF j <= Len(a) THEN a[j] ELSE b[j - Len(a)]
    <3>1. a \in Seq(S) /\ b \in Seq(S)
      BY <1>2, <1>3
    <3> QED
      BY ONLY <3>1
  <2>2. Len(a) + Len(b) = Len(q) - 1
    BY <1>1, <1>2, <1>3
  <2> QED
    BY <2>1, <2>2
<1>5. RemoveAt(q, i) = a \o b
  BY DEF RemoveAt, a, b
<1>6. DOMAIN RemoveAt(q, i) = 1 .. Len(q) - 1
  BY <1>1, <1>4, <1>5
<1>7. ASSUME NEW j \in 1 .. Len(q) - 1
      PROVE  Before(i, j) \in DOMAIN q /\ (a \o b)[j] = q[Before(i, j)]
  <2>1. CASE j < i
    BY <2>1, <1>1, <1>2, <1>4 DEF Before
  <2>2. CASE ~(j < i)
    <3>1. j - (i - 1) \in 1 .. Len(q) - i /\ i + (j - (i - 1)) = j + 1
      BY <2>2, <1>1
    <3>2. b[j - (i - 1)] = q[j + 1]
      BY <3>1, <1>3
    <3> QED
      BY <3>1, <3>2, <2>2, <1>1, <1>2, <1>4 DEF Before
  <2> QED
    BY <2>1, <2>2
<1> QED
  BY <1>4, <1>5, <1>6, <1>7

\* Two places of the shortened list come from two places of the long one.
LEMMA BeforeFacts ==
  ASSUME NEW i \in Nat, NEW j \in Nat, NEW k \in Nat
  PROVE  /\ Before(i, j) # i
         /\ Before(i, j) = Before(i, k) => j = k
  BY DEF Before

\* A list with a new head.
LEMMA NewHeadFacts ==
  ASSUME NEW S, NEW q \in Seq(S), NEW n \in S
  PROVE  /\ <<n>> \o q \in Seq(S)
         /\ Len(<<n>> \o q) = Len(q) + 1
         /\ (<<n>> \o q)[1] = n
         /\ \A j \in 1 .. Len(q) : (<<n>> \o q)[j + 1] = q[j]
         /\ \A j \in DOMAIN (<<n>> \o q) :
              j = 1 \/ (j - 1 \in DOMAIN q /\ (<<n>> \o q)[j] = q[j - 1])
  OBVIOUS

\* The first x is removed, if there is one.
LEMMA RemoveFirstIs ==
  ASSUME NEW S, NEW q \in Seq(S), NEW x
  PROVE  /\ x \notin ToSet(q) => RemoveFirst(q, x) = q
         /\ x \in ToSet(q) => \E i \in DOMAIN q : q[i] = x /\ RemoveFirst(q, x) = RemoveAt(q, i)
<1> DEFINE I == {i \in 1 .. Len(q) : q[i] = x}
<1>1. Len(q) \in Nat /\ DOMAIN q = 1 .. Len(q)
  OBVIOUS
<1>2. x \in ToSet(q) <=> I # {}
  BY <1>1 DEF ToSet
<1>3. CASE I = {}
  BY <1>2, <1>3 DEF RemoveFirst
<1>4. CASE I # {}
  <2>1. I \in SUBSET (1 .. Len(q))
    OBVIOUS
  <2>2. \E i \in I : \A j \in I : i <= j
    <3> HIDE DEF I
    <3> QED
      BY <1>1, <1>4, <2>1, LeastFacts
  <2>3. SelectInSeq(q, LAMBDA v : v = x) = CHOOSE i \in I : \A j \in I : i <= j
    BY <1>4 DEF SelectInSeq, Min
  <2>4. SelectInSeq(q, LAMBDA v : v = x) \in I
    <3> HIDE DEF I
    <3> QED
      BY <2>2, <2>3
  <2>5. RemoveFirst(q, x) = RemoveAt(q, SelectInSeq(q, LAMBDA v : v = x))
    BY <1>4 DEF RemoveFirst
  <2> QED
    BY <1>1, <1>2, <1>4, <2>4, <2>5
<1> QED
  BY <1>3, <1>4

\* A list without repetitions, and without x.
LEMMA RemoveFirstFacts ==
  ASSUME NEW S, NEW q \in Seq(S), IsInjective(q), NEW x
  PROVE  /\ RemoveFirst(q, x) \in Seq(S)
         /\ IsInjective(RemoveFirst(q, x))
         /\ ToSet(RemoveFirst(q, x)) = ToSet(q) \ {x}
         /\ x \in ToSet(q) => Len(RemoveFirst(q, x)) = Len(q) - 1
<1>1. CASE x \notin ToSet(q)
  BY <1>1, RemoveFirstIs
<1>2. CASE x \in ToSet(q)
  <2> PICK i \in DOMAIN q : q[i] = x /\ RemoveFirst(q, x) = RemoveAt(q, i)
    BY <1>2, RemoveFirstIs
  <2> DEFINE r == RemoveAt(q, i)
  <2>1. /\ r \in Seq(S) /\ Len(r) = Len(q) - 1
        /\ \A j \in DOMAIN r : Before(i, j) \in DOMAIN q /\ r[j] = q[Before(i, j)]
    BY RemoveAtFacts
  <2> HIDE DEF r
  <2>2. i \in Nat /\ DOMAIN q = 1 .. Len(q) /\ Len(q) \in Nat /\ DOMAIN r = 1 .. Len(r)
    BY <2>1
  <2>3. \A j, k \in DOMAIN r : Before(i, j) # i /\ (Before(i, j) = Before(i, k) => j = k)
    BY <2>2 DEF Before
  <2>4. IsInjective(r)
    BY <2>1, <2>3 DEF IsInjective
  <2>5. ASSUME NEW k \in DOMAIN q, k # i
        PROVE  \E j \in DOMAIN r : Before(i, j) = k
    <3>1. CASE k < i
      BY <2>1, <2>2, <3>1 DEF Before
    <3>2. CASE i < k
      <4>1. k - 1 \in DOMAIN r /\ Before(i, k - 1) = k
        BY <2>1, <2>2, <3>2 DEF Before
      <4> QED
        BY <4>1
    <3> QED
      BY <2>2, <2>5, <3>1, <3>2
  <2>6. ASSUME NEW y
        PROVE  y \in ToSet(r) <=> y \in ToSet(q) \ {x}
    <3>1. ASSUME y \in ToSet(r) PROVE y \in ToSet(q) \ {x}
      <4> PICK j \in DOMAIN r : y = r[j]
        BY <3>1 DEF ToSet
      <4>1. y = q[Before(i, j)] /\ Before(i, j) \in DOMAIN q /\ Before(i, j) # i
        BY <2>1, <2>3
      <4> QED
        BY <4>1 DEF ToSet, IsInjective
    <3>2. ASSUME y \in ToSet(q) \ {x} PROVE y \in ToSet(r)
      <4> PICK k \in DOMAIN q : y = q[k] /\ k # i
        BY <3>2 DEF ToSet
      <4> PICK j \in DOMAIN r : Before(i, j) = k
        BY <2>5
      <4> QED
        BY <2>1 DEF ToSet
    <3> QED
      BY <3>1, <3>2
  <2> QED
    BY <2>1, <2>4, <2>6 DEF r
<1> QED
  BY <1>1, <1>2

\* Removing keeps the order.
LEMMA RemoveFirstOrder ==
  ASSUME NEW S, NEW q \in Seq(S), NEW x,
         NEW j \in DOMAIN RemoveFirst(q, x), NEW k \in DOMAIN RemoveFirst(q, x), j < k
  PROVE  \E m, n \in DOMAIN q : m < n /\ RemoveFirst(q, x)[j] = q[m] /\ RemoveFirst(q, x)[k] = q[n]
<1>1. CASE x \notin ToSet(q)
  BY <1>1, RemoveFirstIs
<1>2. CASE x \in ToSet(q)
  <2> PICK i \in DOMAIN q : RemoveFirst(q, x) = RemoveAt(q, i)
    BY <1>2, RemoveFirstIs
  <2> DEFINE r == RemoveAt(q, i)
  <2>1. /\ r \in Seq(S)
        /\ \A h \in DOMAIN r : Before(i, h) \in DOMAIN q /\ r[h] = q[Before(i, h)]
    BY RemoveAtFacts
  <2> HIDE DEF r
  <2>2. j \in DOMAIN r /\ k \in DOMAIN r /\ RemoveFirst(q, x) = r
    BY DEF r
  <2>3. i \in Nat /\ j \in Nat /\ k \in Nat
    BY <2>1, <2>2
  <2>4. Before(i, j) < Before(i, k)
    BY <2>3 DEF Before
  <2> QED
    BY <2>1, <2>2, <2>4
<1> QED
  BY <1>1, <1>2

\* The head of a list without repetitions is followed by its second element.
LEMMA RemoveHead ==
  ASSUME NEW S, NEW q \in Seq(S), IsInjective(q), q # <<>>
  PROVE  RemoveFirst(q, Head(q)) = Tail(q)
<1>1. Len(q) \in Nat /\ 1 \in DOMAIN q /\ DOMAIN q = 1 .. Len(q) /\ Head(q) = q[1]
  OBVIOUS
<1>2. Head(q) \in ToSet(q)
  BY <1>1 DEF ToSet
<1> PICK i \in DOMAIN q : q[i] = Head(q) /\ RemoveFirst(q, Head(q)) = RemoveAt(q, i)
  BY <1>2, RemoveFirstIs
<1>3. i = 1
  BY <1>1 DEF IsInjective
<1> DEFINE r == RemoveAt(q, 1)
<1>4. /\ r \in Seq(S) /\ Len(r) = Len(q) - 1
      /\ \A j \in DOMAIN r : Before(1, j) \in DOMAIN q /\ r[j] = q[Before(1, j)]
  BY <1>1, RemoveAtFacts
<1> HIDE DEF r
<1>5. /\ Tail(q) \in Seq(S) /\ Len(Tail(q)) = Len(q) - 1
      /\ \A j \in 1 .. Len(q) - 1 : Tail(q)[j] = q[j + 1]
  BY <1>1
<1>6. DOMAIN r = 1 .. Len(q) - 1 /\ DOMAIN Tail(q) = 1 .. Len(q) - 1
  BY <1>4, <1>5
<1>7. \A j \in 1 .. Len(q) - 1 : r[j] = q[j + 1]
  BY <1>1, <1>4, <1>6 DEF Before
<1>8. r = Tail(q)
  BY <1>4, <1>5, <1>6, <1>7
<1> QED
  BY <1>3, <1>8 DEF r

\* A list without repetitions gets a new head that is not in it.
LEMMA PushFacts ==
  ASSUME NEW S, NEW q \in Seq(S), IsInjective(q), NEW n \in S, n \notin ToSet(q)
  PROVE  /\ <<n>> \o q \in Seq(S)
         /\ IsInjective(<<n>> \o q)
         /\ ToSet(<<n>> \o q) = ToSet(q) \cup {n}
         /\ Len(<<n>> \o q) = Len(q) + 1
<1> DEFINE r == <<n>> \o q
<1>1. /\ r \in Seq(S) /\ Len(r) = Len(q) + 1 /\ r[1] = n
      /\ \A j \in 1 .. Len(q) : r[j + 1] = q[j]
      /\ \A j \in DOMAIN r : j = 1 \/ (j - 1 \in DOMAIN q /\ r[j] = q[j - 1])
  BY NewHeadFacts
<1> HIDE DEF r
<1>2. Len(q) \in Nat /\ DOMAIN q = 1 .. Len(q) /\ DOMAIN r = 1 .. Len(q) + 1
  BY <1>1
<1>3. \A j \in DOMAIN q : q[j] # n
  BY DEF ToSet
<1>4. IsInjective(r)
  <2> SUFFICES ASSUME NEW j \in DOMAIN r, NEW k \in DOMAIN r, r[j] = r[k] PROVE j = k
    BY DEF IsInjective
  <2> QED
    BY <1>1, <1>2, <1>3, SMTT(30) DEF IsInjective
<1>5. ASSUME NEW y PROVE y \in ToSet(r) <=> y \in ToSet(q) \/ y = n
  <2>1. ASSUME NEW j \in DOMAIN q PROVE j + 1 \in DOMAIN r /\ r[j + 1] = q[j]
    BY <1>1, <1>2
  <2>2. 1 \in DOMAIN r
    BY <1>2
  <2>3. ASSUME y \in ToSet(r) PROVE y \in ToSet(q) \/ y = n
    <3> PICK j \in DOMAIN r : y = r[j]
      BY <2>3 DEF ToSet
    <3> QED
      BY <1>1 DEF ToSet
  <2>4. ASSUME y \in ToSet(q) PROVE y \in ToSet(r)
    <3> PICK j \in DOMAIN q : y = q[j]
      BY <2>4 DEF ToSet
    <3> QED
      BY <2>1 DEF ToSet
  <2> QED
    BY <1>1, <2>2, <2>3, <2>4 DEF ToSet
<1>6. ToSet(r) = ToSet(q) \cup {n}
  BY <1>5
<1> QED
  BY <1>1, <1>4, <1>6 DEF r

\* A queue without repetitions gets a new last element.
LEMMA AppendFacts ==
  ASSUME NEW S, NEW q \in Seq(S), IsInjective(q), NEW n \in S, n \notin ToSet(q)
  PROVE  /\ Append(q, n) \in Seq(S)
         /\ IsInjective(Append(q, n))
         /\ ToSet(Append(q, n)) = ToSet(q) \cup {n}
<1> DEFINE r == Append(q, n)
<1>1. /\ r \in Seq(S) /\ Len(r) = Len(q) + 1 /\ r[Len(q) + 1] = n
      /\ \A j \in 1 .. Len(q) : r[j] = q[j]
  OBVIOUS
<1> HIDE DEF r
<1>2. Len(q) \in Nat /\ DOMAIN q = 1 .. Len(q) /\ DOMAIN r = 1 .. Len(q) + 1
  BY <1>1
<1>3. \A j \in DOMAIN q : q[j] # n
  BY DEF ToSet
<1>4. \A j \in DOMAIN r : j \in DOMAIN q \/ j = Len(q) + 1
  BY <1>2
<1>5. IsInjective(r)
  BY <1>1, <1>2, <1>3, <1>4 DEF IsInjective
<1>6. ASSUME NEW y PROVE y \in ToSet(r) <=> y \in ToSet(q) \/ y = n
  <2>1. DOMAIN q \subseteq DOMAIN r /\ Len(q) + 1 \in DOMAIN r
    BY <1>2
  <2> QED
    BY <1>1, <1>2, <1>4, <2>1 DEF ToSet
<1>7. ToSet(r) = ToSet(q) \cup {n}
  BY <1>6
<1> QED
  BY <1>1, <1>5, <1>7 DEF r

\* A queue without repetitions loses its first element.
LEMMA PopFacts ==
  ASSUME NEW S, NEW q \in Seq(S), IsInjective(q), q # <<>>
  PROVE  /\ Head(q) \in ToSet(q) /\ Head(q) \in S
         /\ Tail(q) \in Seq(S)
         /\ IsInjective(Tail(q))
         /\ ToSet(Tail(q)) = ToSet(q) \ {Head(q)}
<1>1. 1 \in DOMAIN q /\ Head(q) = q[1] /\ Head(q) \in S
  OBVIOUS
<1>2. Tail(q) = RemoveFirst(q, Head(q))
  BY RemoveHead
<1>3. /\ RemoveFirst(q, Head(q)) \in Seq(S)
      /\ IsInjective(RemoveFirst(q, Head(q)))
      /\ ToSet(RemoveFirst(q, Head(q))) = ToSet(q) \ {Head(q)}
  BY RemoveFirstFacts
<1> QED
  BY <1>1, <1>2, <1>3 DEF ToSet

\* Two sequences in a row.
LEMMA ConcatFacts ==
  ASSUME NEW S, NEW p \in Seq(S), NEW q \in Seq(S)
  PROVE  /\ p \o q \in Seq(S)
         /\ Len(p \o q) = Len(p) + Len(q)
         /\ \A i \in 1 .. Len(p) : (p \o q)[i] = p[i]
         /\ \A i \in 1 .. Len(q) : (p \o q)[i + Len(p)] = q[i]
<1>1. /\ p \o q \in Seq(S) /\ Len(p \o q) = Len(p) + Len(q)
      /\ \A i \in 1 .. Len(p) + Len(q) : (p \o q)[i] = IF i <= Len(p) THEN p[i] ELSE q[i - Len(p)]
  OBVIOUS
<1>2. Len(p) \in Nat /\ Len(q) \in Nat
  OBVIOUS
<1>3. ASSUME NEW i \in 1 .. Len(q) PROVE (p \o q)[i + Len(p)] = q[i]
  <2>1. i + Len(p) \in 1 .. Len(p) + Len(q) /\ ~(i + Len(p) <= Len(p)) /\ i + Len(p) - Len(p) = i
    BY <1>2
  <2> QED
    BY <1>1, <2>1
<1>4. ASSUME NEW i \in 1 .. Len(p) PROVE (p \o q)[i] = p[i]
  BY <1>1, <1>2
<1> QED
  BY <1>1, <1>3, <1>4

LEMMA Regroup ==
  ASSUME NEW S, NEW p \in Seq(S), NEW a \in Seq(S), NEW b \in Seq(S)
  PROVE  (p \o a) \o b = p \o (a \o b)
  BY ConcatAssociative

LEMMA NotEmpty ==
  ASSUME NEW S, NEW p \in Seq(S), NEW a \in Seq(S), a # <<>>
  PROVE  p \o a \in Seq(S) /\ p \o a # <<>>
  BY ConcatEqualIffEmpty
=============================================================================
