------------------------ MODULE JapiConnectionFraming ------------------------
(***************************************************************************)
(* creadline_r returns exactly the lines of what was sent, for every block *)
(* size, every stream without NUL bytes and every way the stream is cut:   *)
(* what was used up, the line buffer, the client's buffer and the socket   *)
(* are, one behind the other, what the client has sent, and the lines      *)
(* returned are the lines of what was used up.                             *)
(***************************************************************************)
EXTENDS JapiConnectionProofs

----------------------------------------------------------------------------
(* The string functions, on strings without NUL bytes.                     *)

LEMMA NulsOfConcat ==
  ASSUME NEW p \in Seq(Bytes), NEW q \in Seq(Bytes), Nuls(p \o q) = {}
  PROVE  Nuls(p) = {} /\ Nuls(q) = {}
<1>1. /\ p \o q \in Seq(Bytes) /\ Len(p \o q) = Len(p) + Len(q)
      /\ \A i \in 1 .. Len(p) : (p \o q)[i] = p[i]
      /\ \A i \in 1 .. Len(q) : (p \o q)[i + Len(p)] = q[i]
  BY ConcatFacts
<1>2. Len(p) \in Nat /\ Len(q) \in Nat
  OBVIOUS
<1>3. \A i \in 1 .. Len(p) + Len(q) : (p \o q)[i] # "nul"
  BY <1>1 DEF Nuls
<1>4. \A i \in 1 .. Len(p) : i \in 1 .. Len(p) + Len(q)
  BY <1>2
<1>5. \A i \in 1 .. Len(q) : i + Len(p) \in 1 .. Len(p) + Len(q)
  BY <1>2
<1>6. Nuls(p) = {}
  BY <1>1, <1>3, <1>4 DEF Nuls
<1>7. ASSUME NEW i \in 1 .. Len(q)
      PROVE  q[i] # "nul"
  BY <1>1, <1>3, <1>5
<1>8. Nuls(q) = {}
  BY <1>7 DEF Nuls
<1> QED
  BY <1>6, <1>8

LEMMA StrncpyCopies ==
  ASSUME NEW s \in Seq(Bytes), Nuls(s) = {}
  PROVE  Strncpy(s) = s
<1>1. s = [i \in DOMAIN s |-> s[i]]
  BY LenProperties
<1> QED
  BY <1>1 DEF Strncpy

LEMMA StrnposFirst ==
  ASSUME NEW s \in Seq(Bytes), Nuls(s) = {}
  PROVE  /\ Strnpos(s) \in Nat
         /\ Strnpos(s) = 0 => \A j \in 1 .. Len(s) : s[j] # "nl"
         /\ Strnpos(s) # 0 => \A j \in 1 .. Strnpos(s) - 1 : s[j] # "nl"
<1> DEFINE at == {i \in DOMAIN s : s[i] = "nl" /\ \A j \in Nuls(s) : j > i}
<1>1. Len(s) \in Nat /\ DOMAIN s = 1 .. Len(s) /\ at = {i \in 1 .. Len(s) : s[i] = "nl"}
  OBVIOUS
<1>2. Strnpos(s) = IF at = {} THEN 0 ELSE CHOOSE i \in at : \A j \in at : i <= j
  BY DEF Strnpos
<1>3. CASE at = {}
  BY <1>1, <1>2, <1>3
<1>4. CASE at # {}
  <2>1. at \in SUBSET (1 .. Len(s))
    OBVIOUS
  <2>2. \E i \in at : \A j \in at : i <= j
    BY <1>1, <1>4, <2>1, LeastFacts
  <2>3. Strnpos(s) \in at /\ \A j \in at : Strnpos(s) <= j
    BY <1>2, <1>4, <2>2
  <2>4. Strnpos(s) \in 1 .. Len(s)
    BY <2>1, <2>3
  <2>5. ASSUME NEW j \in 1 .. Strnpos(s) - 1 PROVE s[j] # "nl"
    <3>1. j \in 1 .. Len(s) /\ ~(Strnpos(s) <= j)
      BY <1>1, <2>4
    <3> QED
      BY <1>1, <2>3, <3>1
  <2> QED
    BY <2>4, <2>5
<1> QED
  BY <1>3, <1>4

\* The line that creadline_r copies is what is before the newline, without a
\* carriage return at its end.
LEMMA BeforeNewlineIs ==
  ASSUME LineBuffer, call = "split"
  PROVE  BeforeNewline = Body(SubSeq(linebuf, 1, nl_pos - 1))
<1>1. linebuf \in Seq(Bytes) /\ nl_pos \in 1 .. Len(linebuf) /\ Len(linebuf) \in Nat
  BY DEF LineBuffer
<1>2. SUFFICES ASSUME NEW b \in Seq(Bytes), NEW p \in 1 .. Len(b), Len(b) \in Nat
               PROVE  SubSeq(b, 1, IF p > 1 /\ b[p - 1] = "cr" THEN p - 2 ELSE p - 1)
                        = Body(SubSeq(b, 1, p - 1))
  BY <1>1 DEF BeforeNewline
<1> DEFINE l == SubSeq(b, 1, p - 1)
<1>3. /\ l \in Seq(Bytes) /\ Len(l) = p - 1
      /\ \A i \in 1 .. p - 1 : l[i] = b[i]
  <2>1. \A i \in 1 .. p - 1 : b[i] \in Bytes
    BY <1>2
  <2>2. p - 1 \in Int /\ 1 \in Int /\ p \in Nat /\ p >= 1
    BY <1>2
  <2> QED
    BY <2>1, <2>2
<1>4. CASE p = 1
  <2>1. l = <<>>
    BY <1>3, <1>4
  <2> QED
    BY <1>4, <2>1 DEF Body
<1>5. CASE p > 1
  <2>1. l # <<>> /\ Last(l) = b[p - 1]
    BY <1>3, <1>5 DEF Last
  <2>2. Front(l) = SubSeq(b, 1, p - 2)
    <3>1. Front(l) = SubSeq(l, 1, Len(l) - 1)
      BY DEF Front
    <3>2. /\ SubSeq(l, 1, p - 2) \in Seq(Bytes) /\ Len(SubSeq(l, 1, p - 2)) = p - 2
          /\ \A i \in 1 .. p - 2 : SubSeq(l, 1, p - 2)[i] = l[i]
      BY <1>3, <1>5
    <3>3. /\ SubSeq(b, 1, p - 2) \in Seq(Bytes) /\ Len(SubSeq(b, 1, p - 2)) = p - 2
          /\ \A i \in 1 .. p - 2 : SubSeq(b, 1, p - 2)[i] = b[i]
      BY <1>2, <1>5
    <3>4. \A i \in 1 .. p - 2 : l[i] = b[i]
      BY <1>3, <1>5
    <3>5. Len(l) - 1 = p - 2
      BY <1>3
    <3>6. SubSeq(l, 1, p - 2) = SubSeq(b, 1, p - 2)
      BY <3>2, <3>3, <3>4, SeqEqual
    <3> QED
      BY <3>1, <3>5, <3>6
  <2> QED
    BY <1>5, <2>1, <2>2 DEF Body
<1> QED
  BY <1>4, <1>5

\* The line behind those of u: what follows u up to the next newline.
LEMMA NextLine ==
  ASSUME NEW u \in Seq(Bytes), NEW b \in Seq(Bytes), NEW ls \in Seq(Seq(Bytes)), LinesAre(u, ls),
         NEW p \in 1 .. Len(b), b[p] = "nl", \A j \in 1 .. p - 1 : b[j] # "nl"
  PROVE  /\ u \o SubSeq(b, 1, p) \in Seq(Bytes)
         /\ LinesAre(u \o SubSeq(b, 1, p), Append(ls, Body(SubSeq(b, 1, p - 1))))
<1> DEFINE line == SubSeq(b, 1, p)
           l == Body(SubSeq(b, 1, p - 1))
           t == u \o line
           m == Append(ls, l)
<1>1. Len(u) \in Nat /\ Len(b) \in Nat /\ Len(ls) \in Nat /\ p \in Nat /\ 1 <= p /\ p <= Len(b)
  OBVIOUS
<1>2. /\ line \in Seq(Bytes) /\ Len(line) = p /\ \A i \in 1 .. p : line[i] = b[i]
  <2>1. \A i \in 1 .. p : b[i] \in Bytes
    BY <1>1
  <2> QED
    BY <1>1, <2>1
<1>3. SubSeq(b, 1, p - 1) \in Seq(Bytes) /\ Len(SubSeq(b, 1, p - 1)) = p - 1
      /\ \A i \in 1 .. p - 1 : SubSeq(b, 1, p - 1)[i] = b[i]
  <2>1. \A i \in 1 .. p - 1 : b[i] \in Bytes
    BY <1>1
  <2> QED
    BY <1>1, <2>1
<1>4. Len(m) = Len(ls) + 1 /\ m[Len(ls) + 1] = l /\ \A k \in 1 .. Len(ls) : m[k] = ls[k]
  BY <1>1
<1> HIDE DEF line
<1>5. /\ t \in Seq(Bytes) /\ Len(t) = Len(u) + p
      /\ \A i \in 1 .. Len(u) : t[i] = u[i]
      /\ \A i \in 1 .. p : t[i + Len(u)] = b[i]
  <2>1. /\ u \o line \in Seq(Bytes) /\ Len(u \o line) = Len(u) + Len(line)
        /\ \A i \in 1 .. Len(u) : (u \o line)[i] = u[i]
        /\ \A i \in 1 .. Len(line) : (u \o line)[i + Len(u)] = line[i]
    <3>1. u \in Seq(Bytes) /\ line \in Seq(Bytes)
      BY <1>2
    <3> QED
      BY ONLY <3>1, ConcatFacts
  <2> QED
    BY <1>2, <2>1
<1> HIDE DEF m, t, l
<1>6. PICK cut \in [0 .. Len(ls) -> 0 .. Len(u)] :
        /\ IsCut(u, Len(ls), cut)
        /\ \A k \in 1 .. Len(ls) : ls[k] = Body(SubSeq(u, cut[k - 1] + 1, cut[k] - 1))
  BY DEF LinesAre
<1> DEFINE n == Len(ls)
           ext == [k \in 0 .. n + 1 |-> IF k = n + 1 THEN Len(u) + p ELSE cut[k]]
<1>7. /\ n \in Nat /\ cut[0] = 0 /\ cut[n] = Len(u)
      /\ \A k \in 1 .. n :
           /\ cut[k - 1] < cut[k] /\ u[cut[k]] = "nl"
           /\ \A j \in cut[k - 1] + 1 .. cut[k] - 1 : u[j] # "nl"
  BY <1>1, <1>6 DEF IsCut
<1> HIDE DEF n
<1>8. \A k \in 0 .. n : cut[k] \in 0 .. Len(u) /\ ext[k] = cut[k]
  <2>1. \A k \in 0 .. n : k \in 0 .. n + 1 /\ k # n + 1
    BY <1>7
  <2>2. \A k \in 0 .. n : cut[k] \in 0 .. Len(u)
    BY <1>6 DEF n
  <2> QED
    BY <2>1, <2>2
<1>9. ext[n + 1] = Len(u) + p /\ ext[0] = 0
  BY <1>7
<1>10. ext \in [0 .. n + 1 -> 0 .. Len(u) + p]
  <2>1. \A k \in 0 .. n + 1 : k = n + 1 \/ k \in 0 .. n
    BY <1>7
  <2>2. \A x \in 0 .. Len(u) : x \in 0 .. Len(u) + p
    BY <1>1
  <2>3. Len(u) + p \in 0 .. Len(u) + p
    BY <1>1
  <2>4. \A k \in 0 .. n : cut[k] \in 0 .. Len(u) + p
    BY <1>8, <2>2
  <2> QED
    BY <2>1, <2>3, <2>4
<1> HIDE DEF ext
<1>11. ASSUME NEW k \in 1 .. n
       PROVE  /\ ext[k - 1] < ext[k] /\ t[ext[k]] = "nl"
              /\ \A j \in ext[k - 1] + 1 .. ext[k] - 1 : t[j] # "nl"
              /\ SubSeq(t, ext[k - 1] + 1, ext[k] - 1) = SubSeq(u, cut[k - 1] + 1, cut[k] - 1)
  <2>1. k \in 0 .. n /\ k - 1 \in 0 .. n
    BY <1>7
  <2>2. ext[k] = cut[k] /\ ext[k - 1] = cut[k - 1] /\ cut[k] \in 0 .. Len(u) /\ cut[k - 1] \in 0 .. Len(u)
    BY <1>8, <2>1
  <2>3. cut[k - 1] < cut[k] /\ u[cut[k]] = "nl" /\ \A j \in cut[k - 1] + 1 .. cut[k] - 1 : u[j] # "nl"
    BY <1>7
  <2>4. t[cut[k]] = "nl" /\ \A j \in cut[k - 1] + 1 .. cut[k] - 1 : j \in 1 .. Len(u) /\ t[j] = u[j]
    <3>1. \A a, c \in 0 .. Len(u) : a < c =>
            c \in 1 .. Len(u) /\ \A j \in a + 1 .. c - 1 : j \in 1 .. Len(u)
      BY ONLY <1>1
    <3>2. cut[k] \in 1 .. Len(u) /\ \A j \in cut[k - 1] + 1 .. cut[k] - 1 : j \in 1 .. Len(u)
      BY <2>2, <2>3, <3>1
    <3> QED
      BY <1>5, <2>3, <3>2
  <2>5. ASSUME NEW a \in 0 .. Len(u), NEW c \in 0 .. Len(u), a < c
        PROVE  SubSeq(t, a + 1, c - 1) = SubSeq(u, a + 1, c - 1)
    <3>1. \A j \in a + 1 .. c - 1 : j \in 1 .. Len(u) /\ t[j] = u[j] /\ u[j] \in Bytes /\ t[j] \in Bytes
      BY <1>1, <1>5, <2>5
    <3>2. a + 1 \in Int /\ c - 1 \in Int
      BY <1>1
    <3>3. /\ SubSeq(t, a + 1, c - 1) \in Seq(Bytes)
          /\ Len(SubSeq(t, a + 1, c - 1)) = IF a + 1 <= c - 1 THEN c - 1 - (a + 1) + 1 ELSE 0
          /\ \A i \in 1 .. c - 1 - (a + 1) + 1 : SubSeq(t, a + 1, c - 1)[i] = t[a + 1 + i - 1]
      BY <3>1, <3>2, SubSeqProperties
    <3>4. /\ SubSeq(u, a + 1, c - 1) \in Seq(Bytes)
          /\ Len(SubSeq(u, a + 1, c - 1)) = IF a + 1 <= c - 1 THEN c - 1 - (a + 1) + 1 ELSE 0
          /\ \A i \in 1 .. c - 1 - (a + 1) + 1 : SubSeq(u, a + 1, c - 1)[i] = u[a + 1 + i - 1]
      BY <3>1, <3>2, SubSeqProperties
    <3>5. \A i \in 1 .. Len(SubSeq(t, a + 1, c - 1)) :
             SubSeq(t, a + 1, c - 1)[i] = SubSeq(u, a + 1, c - 1)[i]
      <4>1. \A i \in 1 .. Len(SubSeq(t, a + 1, c - 1)) :
              i \in 1 .. c - 1 - (a + 1) + 1 /\ a + 1 + i - 1 \in a + 1 .. c - 1
        BY <3>3
      <4>2. ASSUME NEW i \in 1 .. c - 1 - (a + 1) + 1, a + 1 + i - 1 \in a + 1 .. c - 1
            PROVE  SubSeq(t, a + 1, c - 1)[i] = SubSeq(u, a + 1, c - 1)[i]
        <5>1. SubSeq(t, a + 1, c - 1)[i] = t[a + 1 + i - 1]
          BY ONLY <3>3, <4>2
        <5>2. SubSeq(u, a + 1, c - 1)[i] = u[a + 1 + i - 1]
          BY ONLY <3>4, <4>2
        <5>3. t[a + 1 + i - 1] = u[a + 1 + i - 1]
          BY ONLY <3>1, <4>2
        <5> QED
          BY ONLY <5>1, <5>2, <5>3
      <4> QED
        BY ONLY <4>1, <4>2
    <3>6. Len(SubSeq(t, a + 1, c - 1)) = Len(SubSeq(u, a + 1, c - 1))
      BY ONLY <3>3, <3>4
    <3>7. SubSeq(t, a + 1, c - 1) \in Seq(Bytes) /\ SubSeq(u, a + 1, c - 1) \in Seq(Bytes)
      BY ONLY <3>3, <3>4
    <3> QED
      BY ONLY <3>5, <3>6, <3>7, SeqEqual
  <2> QED
    BY <2>2, <2>3, <2>4, <2>5
<1>12. /\ ext[n] < ext[n + 1] /\ t[ext[n + 1]] = "nl"
       /\ \A j \in ext[n] + 1 .. ext[n + 1] - 1 : t[j] # "nl"
       /\ SubSeq(t, ext[n] + 1, ext[n + 1] - 1) = SubSeq(b, 1, p - 1)
  <2>1. ext[n] = Len(u) /\ ext[n + 1] = Len(u) + p
    BY <1>7, <1>8, <1>9
  <2>2. ASSUME NEW j \in Len(u) + 1 .. Len(u) + p - 1
        PROVE  t[j] # "nl" /\ t[j] = b[j - Len(u)] /\ t[j] \in Bytes
    <3>1. j - Len(u) \in 1 .. p - 1 /\ j - Len(u) \in 1 .. p /\ j = (j - Len(u)) + Len(u)
      BY <1>1
    <3>2. b[j - Len(u)] \in Bytes
      BY <1>1, <3>1
    <3> QED
      BY <1>5, <3>1, <3>2
  <2>3. t[Len(u) + p] = "nl"
    <3>1. p \in 1 .. p /\ p + Len(u) = Len(u) + p
      BY <1>1
    <3> QED
      BY <1>5, <3>1
  <2>4. Len(u) + 1 \in Int /\ Len(u) + p - 1 \in Int
    BY <1>1
  <2>5. /\ SubSeq(t, Len(u) + 1, Len(u) + p - 1) \in Seq(Bytes)
        /\ Len(SubSeq(t, Len(u) + 1, Len(u) + p - 1)) =
             IF Len(u) + 1 <= Len(u) + p - 1 THEN Len(u) + p - 1 - (Len(u) + 1) + 1 ELSE 0
        /\ \A i \in 1 .. Len(u) + p - 1 - (Len(u) + 1) + 1 :
             SubSeq(t, Len(u) + 1, Len(u) + p - 1)[i] = t[Len(u) + 1 + i - 1]
    BY <2>2, <2>4, SubSeqProperties
  <2>6. Len(SubSeq(t, Len(u) + 1, Len(u) + p - 1)) = p - 1
    BY <1>1, <2>5
  <2>7. ASSUME NEW i \in 1 .. p - 1
        PROVE  SubSeq(t, Len(u) + 1, Len(u) + p - 1)[i] = b[i]
    <3>1. /\ i \in 1 .. Len(u) + p - 1 - (Len(u) + 1) + 1 /\ Len(u) + 1 + i - 1 = i + Len(u)
          /\ i \in 1 .. p
      BY <1>1
    <3> QED
      BY <1>5, <2>5, <3>1
  <2>8. SubSeq(t, Len(u) + 1, Len(u) + p - 1) = SubSeq(b, 1, p - 1)
    BY <1>3, <2>5, <2>6, <2>7, SeqEqual
  <2>9. Len(u) < Len(u) + p
    BY <1>1
  <2> QED
    BY <2>1, <2>2, <2>3, <2>8, <2>9
<1>13. \A k \in 1 .. n + 1 : k \in 1 .. n \/ (k = n + 1 /\ k - 1 = n)
  BY <1>7
<1>14. Len(m) = n + 1
  BY <1>4 DEF n
<1>15. IsCut(t, n + 1, ext)
  BY <1>5, <1>9, <1>11, <1>12, <1>13 DEF IsCut
<1>16. ASSUME NEW k \in 1 .. n + 1
       PROVE  m[k] = Body(SubSeq(t, ext[k - 1] + 1, ext[k] - 1))
  <2>1. CASE k \in 1 .. n
    <3>1. m[k] = ls[k] /\ ls[k] = Body(SubSeq(u, cut[k - 1] + 1, cut[k] - 1))
      BY <1>4, <1>6, <2>1 DEF n
    <3> QED
      BY <1>11, <2>1, <3>1
  <2>2. CASE k = n + 1 /\ k - 1 = n
    <3>1. m[k] = l
      BY <1>4, <2>2 DEF n
    <3> QED
      BY <1>12, <2>2, <3>1 DEF l
  <2> QED
    BY <1>13, <2>1, <2>2
<1>17. LinesAre(t, m)
  BY <1>5, <1>10, <1>14, <1>15, <1>16 DEF LinesAre
<1> QED
  BY <1>5, <1>17 DEF t, m, l, line

----------------------------------------------------------------------------
(* The bytes of the stream, one place behind the other.                    *)

LEMMA NoNulsIn ==
  \A u, a, b, w \in Seq(Bytes) :
    Nuls(((u \o a) \o b) \o w) = {} => Nuls(a) = {} /\ Nuls(b) = {} /\ Nuls(w) = {}
<1> SUFFICES ASSUME NEW u \in Seq(Bytes), NEW a \in Seq(Bytes),
                    NEW b \in Seq(Bytes), NEW w \in Seq(Bytes),
                    Nuls(((u \o a) \o b) \o w) = {}
             PROVE  Nuls(a) = {} /\ Nuls(b) = {} /\ Nuls(w) = {}
  OBVIOUS
<1>1. u \o a \in Seq(Bytes)
  BY ConcatFacts
<1> DEFINE ua == u \o a
<1>2. ua \in Seq(Bytes) /\ b \in Seq(Bytes)
  BY <1>1
<1> HIDE DEF ua
<1>3. ua \o b \in Seq(Bytes)
  BY ONLY <1>2, ConcatFacts
<1> DEFINE uab == ua \o b
<1>4. uab \in Seq(Bytes) /\ w \in Seq(Bytes) /\ Nuls(uab \o w) = {}
  BY <1>3 DEF ua
<1> HIDE DEF uab
<1>5. Nuls(uab) = {} /\ Nuls(w) = {}
  BY ONLY <1>4, NulsOfConcat
<1>6. Nuls(ua \o b) = {}
  BY <1>5 DEF uab
<1>7. Nuls(ua) = {} /\ Nuls(b) = {}
  BY ONLY <1>2, <1>6, NulsOfConcat
<1>8. Nuls(u \o a) = {}
  BY <1>7 DEF ua
<1>9. Nuls(a) = {}
  BY <1>8, NulsOfConcat
<1> QED
  BY <1>5, <1>7, <1>9

\* A byte is sent.
LEMMA SendParts ==
  ASSUME NEW x \in Seq(Bytes), NEW w \in Seq(Bytes), NEW e \in Bytes
  PROVE  Append(x \o w, e) = x \o Append(w, e)
<1>1. x \o w \in Seq(Bytes) /\ <<e>> \in Seq(Bytes)
  BY ConcatFacts
<1>2. Append(x \o w, e) = (x \o w) \o <<e>>
  BY ONLY <1>1, e \in Bytes, AppendIsConcat
<1>3. Append(w, e) = w \o <<e>>
  BY AppendIsConcat
<1>4. (x \o w) \o <<e>> = x \o (w \o <<e>>)
  BY <1>1, Regroup
<1> QED
  BY <1>2, <1>3, <1>4

\* Bytes are read from the socket into the line buffer.
LEMMA ReadParts ==
  \A u, a, b, c, w \in Seq(Bytes) :
    b = <<>> => ((u \o a) \o b) \o (c \o w) = ((u \o (a \o c)) \o b) \o w
<1> SUFFICES ASSUME NEW u \in Seq(Bytes), NEW a \in Seq(Bytes), NEW b \in Seq(Bytes),
                    NEW c \in Seq(Bytes), NEW w \in Seq(Bytes), b = <<>>
             PROVE  ((u \o a) \o b) \o (c \o w) = ((u \o (a \o c)) \o b) \o w
  OBVIOUS
<1>1. u \o a \in Seq(Bytes) /\ a \o c \in Seq(Bytes)
  BY ConcatFacts
<1>2. u \o (a \o c) \in Seq(Bytes)
  BY <1>1, ConcatFacts
<1>3. (u \o a) \o b = u \o a /\ (u \o (a \o c)) \o b = u \o (a \o c)
  BY <1>1, <1>2, ConcatEmptySeq
<1>4. (u \o a) \o (c \o w) = ((u \o a) \o c) \o w
  <2> DEFINE x == u \o a
  <2>1. x \in Seq(Bytes) /\ c \in Seq(Bytes) /\ w \in Seq(Bytes)
    BY <1>1
  <2> HIDE DEF x
  <2>2. (x \o c) \o w = x \o (c \o w)
    BY ONLY <2>1, Regroup, SMTT(30)
  <2> QED
    BY <2>2 DEF x
<1>5. (u \o a) \o c = u \o (a \o c)
  BY Regroup, SMTT(30)
<1> QED
  BY <1>3, <1>4, <1>5

\* The line buffer, with a line l and the rest r, is taken apart.
LEMMA SplitParts ==
  \A u, l, r, b, w \in Seq(Bytes) :
    b = <<>> => ((u \o (l \o r)) \o b) \o w = (((u \o l) \o b) \o r) \o w
<1> SUFFICES ASSUME NEW u \in Seq(Bytes), NEW l \in Seq(Bytes), NEW r \in Seq(Bytes),
                    NEW b \in Seq(Bytes), NEW w \in Seq(Bytes), b = <<>>
             PROVE  ((u \o (l \o r)) \o b) \o w = (((u \o l) \o b) \o r) \o w
  OBVIOUS
<1>1. u \o l \in Seq(Bytes) /\ l \o r \in Seq(Bytes)
  BY ConcatFacts
<1>2. u \o (l \o r) \in Seq(Bytes)
  BY <1>1, ConcatFacts
<1>3. (u \o l) \o b = u \o l /\ (u \o (l \o r)) \o b = u \o (l \o r)
  BY <1>1, <1>2, ConcatEmptySeq
<1>4. (u \o l) \o r = u \o (l \o r)
  BY Regroup
<1> QED
  BY <1>3, <1>4

----------------------------------------------------------------------------
(* The invariant.                                                          *)

\* No NUL byte was sent and the stream has not ended.
Clean == Nuls(sent) = {} /\ pc # "gone" /\ ret.kind # "error" /\ ret.kind # "eof"

\* u was used up: its lines were returned.
Used(u) == sent = ((u \o linebuf) \o buffer) \o wire /\ LinesAre(u, lines)

\* Between calls the line buffer is empty, during one the client's buffer is.
\* A newline is found as soon as it is in the line buffer, and it is the first.
Framing ==
  /\ call = "none" => linebuf = <<>>
  /\ call # "none" => buffer = <<>>
  /\ ret.kind \in {"error", "eof"} => pc \in {"creadline", "gone"}
  /\ Clean => \E u \in Seq(Bytes) : Used(u)
  /\ Clean /\ call \in {"room", "read"} => \A i \in 1 .. Len(linebuf) : linebuf[i] # "nl"
  /\ Clean /\ call = "split" => \A i \in 1 .. nl_pos - 1 : linebuf[i] # "nl"

\* The places of the bytes hold bytes, and no NUL byte while none was sent.
LEMMA NoNulsHeld ==
  TypeInv /\ Clean =>
    \A u \in Seq(Bytes) : Used(u) => Nuls(linebuf) = {} /\ Nuls(buffer) = {} /\ Nuls(wire) = {}
<1> SUFFICES ASSUME TypeInv, Clean, NEW u \in Seq(Bytes), Used(u)
             PROVE  Nuls(linebuf) = {} /\ Nuls(buffer) = {} /\ Nuls(wire) = {}
  OBVIOUS
<1>1. /\ u \in Seq(Bytes) /\ linebuf \in Seq(Bytes)
      /\ buffer \in Seq(Bytes) /\ wire \in Seq(Bytes)
  BY DEF TypeInv, LineBuffer
<1>2. Nuls(((u \o linebuf) \o buffer) \o wire) = {}
  BY DEF Used, Clean
<1> QED
  BY <1>1, <1>2, NoNulsIn

\* Steps that leave the bytes and the call alone.
LEMMA FramingElsewhere ==
  ASSUME Framing, UNCHANGED <<wire, crl, history>>, Clean' => Clean,
         ret.kind \in {"error", "eof"} => pc' \in {"creadline", "gone"}
  PROVE  Framing'
<1>1. UNCHANGED <<wire, buffer, linebuf, nl_pos, call, ret, sent, lines>>
  BY DEF crl, history
<1>2. Clean' => \E u \in Seq(Bytes) : Used(u)'
  BY <1>1 DEF Framing, Used
<1> QED
  BY <1>1, <1>2 DEF Framing

LEMMA FramingSend ==
  ASSUME TypeInv, Framing, NEW e \in Bytes, Send(e)
  PROVE  Framing'
<1>1. /\ UNCHANGED <<buffer, linebuf, nl_pos, call, ret, lines, pc>>
      /\ wire' = Append(wire, e) /\ sent' = Append(sent, e)
  BY DEF Send, crl
<1>2. /\ sent \in Seq(Bytes) /\ wire \in Seq(Bytes)
      /\ linebuf \in Seq(Bytes) /\ buffer \in Seq(Bytes)
  BY DEF TypeInv, PeerInv, LineBuffer
<1>3. Clean' => Clean
  <2>1. Len(sent) \in Nat /\ Len(sent') = Len(sent) + 1 /\ \A i \in 1 .. Len(sent) : sent'[i] = sent[i]
        /\ DOMAIN sent = 1 .. Len(sent) /\ DOMAIN sent' = 1 .. Len(sent) + 1
    BY <1>1, <1>2
  <2>2. Nuls(sent') = {} => Nuls(sent) = {}
    BY <2>1 DEF Nuls
  <2>3. Clean' => Nuls(sent') = {}
    BY DEF Clean, Nuls
  <2> QED
    BY <1>1, <2>2, <2>3 DEF Clean
<1>4. ASSUME Clean' PROVE \E u \in Seq(Bytes) : Used(u)'
  <2>1. PICK u \in Seq(Bytes) : Used(u)
    BY <1>3, <1>4 DEF Framing
  <2>2. u \o linebuf \in Seq(Bytes)
    BY <1>2, ConcatFacts
  <2>3. (u \o linebuf) \o buffer \in Seq(Bytes)
    BY <1>2, <2>2, ConcatFacts
  <2>4. \A x \in Seq(Bytes) : Append(x \o wire, e) = x \o Append(wire, e)
    BY <1>2, SendParts
  <2>5. Append(((u \o linebuf) \o buffer) \o wire, e) = ((u \o linebuf) \o buffer) \o Append(wire, e)
    BY <2>3, <2>4, Zenon
  <2>6. Used(u)'
    BY <1>1, <2>1, <2>5 DEF Used
  <2> QED
    BY <2>6
<1> QED
  BY <1>1, <1>3, <1>4 DEF Framing

\* The return of a call that has failed or met the end of the stream: nothing
\* is said of the bytes any more.
LEMMA FramingFails ==
  ASSUME Framing, Return(Error) \/ Return(EndOfFile), UNCHANGED buffer,
         pc' = "creadline", buffer = <<>> \/ call = "none"
  PROVE  Framing'
<1>1. ~Clean'
  BY DEF Return, Error, EndOfFile, Clean
<1> QED
  BY <1>1 DEF Framing, Return, Error, EndOfFile

\* The bytes of the last call are taken up.
LEMMA FramingBegin ==
  ASSUME TypeInv, Framing, Begin, UNCHANGED history, pc = "visit", pc' = "creadline"
  PROVE  Framing'
<1>1. /\ call = "none" /\ linebuf = <<>> /\ linebuf' = Strncpy(buffer) /\ buffer' = <<>>
      /\ nl_pos' = Strnpos(linebuf') /\ call' = (IF nl_pos' = 0 THEN "room" ELSE "split")
      /\ ret' = NoLine /\ UNCHANGED <<wire, sent, lines>>
  BY DEF Framing, Begin, stream, history
<1>2. buffer \in Seq(Bytes) /\ wire \in Seq(Bytes)
  BY DEF TypeInv, LineBuffer
<1>3. ret' = NoLine /\ NoLine.kind = "none"
  BY <1>1 DEF NoLine
<1>4. Clean' => Clean
  BY <1>1 DEF Framing, Clean
<1>5. ASSUME Clean'
      PROVE  /\ \E u \in Seq(Bytes) : Used(u)'
             /\ linebuf' = buffer /\ Nuls(buffer) = {}
  <2>1. \E u \in Seq(Bytes) : Used(u)
    BY <1>4, <1>5 DEF Framing
  <2>2. PICK u \in Seq(Bytes) : Used(u)
    BY <2>1
  <2>3. Nuls(buffer) = {}
    BY <1>4, <1>5, <2>2, NoNulsHeld
  <2>4. linebuf' = buffer
    BY <1>1, <1>2, <2>3, StrncpyCopies
  <2>5. u \o buffer \in Seq(Bytes)
    BY <1>2, ConcatFacts
  <2>6. u \o <<>> = u /\ (u \o buffer) \o <<>> = u \o buffer
    BY <2>5, ConcatEmptySeq
  <2>7. Used(u)'
    BY <1>1, <2>2, <2>4, <2>6 DEF Used
  <2> QED
    BY <2>3, <2>4, <2>7
<1>6. ASSUME Clean'
      PROVE  /\ nl_pos' = 0 => \A i \in 1 .. Len(linebuf') : linebuf'[i] # "nl"
             /\ nl_pos' # 0 => \A i \in 1 .. nl_pos' - 1 : linebuf'[i] # "nl"
  BY <1>1, <1>2, <1>5, <1>6, StrnposFirst
<1>7. call' # "none"
  BY <1>1
<1>8. ret'.kind \notin {"error", "eof"}
  BY <1>3
<1> QED
  BY <1>1, <1>5, <1>6, <1>7, <1>8 DEF Framing

\* read(): the first newline of the new bytes is the first of all.
LEMMA FramingRead ==
  ASSUME TypeInv, Framing, Read, UNCHANGED <<history, pc>>
  PROVE  Framing'
<1>1. /\ call = "read" /\ buffer = <<>> /\ UNCHANGED <<buffer, ret, sent, lines, pc>>
      /\ call' = IF nl_pos' = 0 THEN "room" ELSE "split"
  BY DEF Framing, Read, history
<1>2. PICK n \in 1 .. Block :
        /\ n <= Len(wire)
        /\ linebuf' = linebuf \o SubSeq(wire, 1, n)
        /\ nl_pos' = IF Strnpos(SubSeq(wire, 1, n)) = 0 THEN 0
                     ELSE Len(linebuf) + Strnpos(SubSeq(wire, 1, n))
        /\ wire' = SubSeq(wire, n + 1, Len(wire))
  BY DEF Read
<1>3. linebuf \in Seq(Bytes) /\ wire \in Seq(Bytes) /\ Len(linebuf) \in Nat /\ Len(wire) \in Nat
  BY DEF TypeInv, LineBuffer
<1>4. \E new \in Seq(Bytes), rest \in Seq(Bytes) :
        /\ wire = new \o rest /\ wire' = rest /\ linebuf' = linebuf \o new
        /\ nl_pos' = IF Strnpos(new) = 0 THEN 0 ELSE Len(linebuf) + Strnpos(new)
  <2>1. n \in Nat /\ 1 <= n /\ n <= Len(wire) /\ n + 1 \in Nat \ {0}
    BY <1>2, SizesAssumption
  <2>2. SubSeq(wire, 1, n) \in Seq(Bytes) /\ SubSeq(wire, n + 1, Len(wire)) \in Seq(Bytes)
    BY <1>3, <2>1, SubSeqFacts
  <2>3. n \in 1 - 1 .. Len(wire) /\ 1 \in 1 .. Len(wire) + 1 /\ Len(wire) \in n .. Len(wire)
    BY <1>3, <2>1
  <2>4. SubSeq(wire, 1, n) \o SubSeq(wire, n + 1, Len(wire)) = wire
    BY <1>3, <2>3, ConcatAdjacentSubSeq, SubSeqFull
  <2> QED
    BY <1>2, <2>2, <2>4
<1>5. PICK new \in Seq(Bytes), rest \in Seq(Bytes) :
        /\ wire = new \o rest /\ wire' = rest /\ linebuf' = linebuf \o new
        /\ nl_pos' = IF Strnpos(new) = 0 THEN 0 ELSE Len(linebuf) + Strnpos(new)
  BY <1>4
<1>6. Clean' => Clean
  BY <1>1 DEF Clean
<1>7. ASSUME Clean'
      PROVE  (\E u \in Seq(Bytes) : Used(u)') /\ Nuls(wire) = {}
  <2>1. \E u \in Seq(Bytes) : Used(u)
    BY <1>6, <1>7 DEF Framing
  <2>2. PICK u \in Seq(Bytes) : Used(u)
    BY <2>1
  <2>3. Nuls(wire) = {}
    BY <1>6, <1>7, <2>2, NoNulsHeld
  <2>4. ((u \o linebuf) \o buffer) \o (new \o rest) = ((u \o (linebuf \o new)) \o buffer) \o rest
    <3>1. linebuf \in Seq(Bytes) /\ buffer \in Seq(Bytes) /\ buffer = <<>>
      BY <1>1, <1>3
    <3> QED
      BY <3>1, ReadParts, SMTT(30)
  <2>5. Used(u)'
    BY <1>1, <1>5, <2>2, <2>4 DEF Used
  <2> QED
    BY <2>3, <2>5
<1>8. ASSUME Clean'
      PROVE  /\ nl_pos' = 0 => \A i \in 1 .. Len(linebuf') : linebuf'[i] # "nl"
             /\ nl_pos' # 0 => \A i \in 1 .. nl_pos' - 1 : linebuf'[i] # "nl"
  <2>1. Nuls(new \o rest) = {}
    BY <1>5, <1>7, <1>8
  <2>2. Nuls(new) = {}
    BY ONLY <2>1, new \in Seq(Bytes), rest \in Seq(Bytes), NulsOfConcat
  <2>3. /\ Strnpos(new) \in Nat
        /\ Strnpos(new) = 0 => \A j \in 1 .. Len(new) : new[j] # "nl"
        /\ Strnpos(new) # 0 => \A j \in 1 .. Strnpos(new) - 1 : new[j] # "nl"
    BY <2>2, StrnposFirst
  <2>4. Strnpos(new) # 0 => Strnpos(new) \in 1 .. Len(new)
    BY StrnposFacts
  <2>5. \A i \in 1 .. Len(linebuf) : linebuf[i] # "nl"
    BY <1>1, <1>6, <1>8 DEF Framing
  <2>6. /\ Len(linebuf \o new) = Len(linebuf) + Len(new)
        /\ \A i \in 1 .. Len(linebuf) : (linebuf \o new)[i] = linebuf[i]
        /\ \A i \in 1 .. Len(new) : (linebuf \o new)[i + Len(linebuf)] = new[i]
    <3>1. linebuf \in Seq(Bytes) /\ new \in Seq(Bytes)
      BY <1>3
    <3> QED
      BY ONLY <3>1, ConcatFacts
  <2>7. Len(new) \in Nat
    OBVIOUS
  <2>8. ASSUME NEW m \in 0 .. Len(new), \A j \in 1 .. m : new[j] # "nl",
               NEW i \in 1 .. Len(linebuf) + m
        PROVE  (linebuf \o new)[i] # "nl"
    <3>1. CASE i <= Len(linebuf)
      <4>1. i \in 1 .. Len(linebuf)
        BY <1>3, <2>7, <3>1
      <4> QED
        BY <2>5, <2>6, <4>1
    <3>2. CASE ~(i <= Len(linebuf))
      <4>1. i - Len(linebuf) \in 1 .. m /\ i - Len(linebuf) \in 1 .. Len(new)
            /\ i = (i - Len(linebuf)) + Len(linebuf)
        BY <1>3, <2>7, <3>2
      <4> QED
        BY <2>6, <2>8, <4>1
    <3> QED
      BY <3>1, <3>2
  <2>9. CASE Strnpos(new) = 0
    <3>1. Len(new) \in 0 .. Len(new) /\ Len(linebuf') = Len(linebuf) + Len(new)
      BY <1>5, <2>6, <2>7
    <3> QED
      BY <1>5, <2>3, <2>8, <2>9, <3>1
  <2>10. CASE Strnpos(new) # 0
    <3>1. /\ Strnpos(new) - 1 \in 0 .. Len(new)
          /\ Len(linebuf) + Strnpos(new) - 1 = Len(linebuf) + (Strnpos(new) - 1)
          /\ Len(linebuf) + Strnpos(new) # 0
      BY <1>3, <2>4, <2>7, <2>10
    <3>2. nl_pos' = Len(linebuf) + Strnpos(new) /\ linebuf' = linebuf \o new
      BY <1>5, <2>10
    <3>3. \A i \in 1 .. Len(linebuf) + (Strnpos(new) - 1) : (linebuf \o new)[i] # "nl"
      BY <2>3, <2>8, <2>10, <3>1
    <3> QED
      <4>1. nl_pos' # 0 /\ nl_pos' - 1 = Len(linebuf) + (Strnpos(new) - 1)
        BY <1>3, <1>5, <2>4, <2>7, <2>10
      <4> QED
        BY <3>2, <3>3, <4>1
  <2> QED
    BY <2>9, <2>10
<1>9. call' # "none"
  BY <1>1
<1> QED
  BY <1>1, <1>7, <1>8, <1>9 DEF Framing

\* The return of a line: it was the next one.
LEMMA FramingSplit ==
  ASSUME TypeInv, Framing, Split, pc = "creadline", UNCHANGED <<pc, sent>>,
         lines' = Append(lines, ret'.line)
  PROVE  Framing'
<1>1. /\ call = "split" /\ buffer = <<>> /\ buffer' = Rest /\ ret' = Line(BeforeNewline)
      /\ linebuf' = <<>> /\ call' = "none" /\ wire' = wire
  BY DEF Framing, Split, Return, stream
<1>2. /\ linebuf \in Seq(Bytes) /\ wire \in Seq(Bytes) /\ buffer \in Seq(Bytes)
      /\ lines \in Seq(Seq(Bytes))
      /\ nl_pos \in 1 .. Len(linebuf) /\ linebuf[nl_pos] = "nl" /\ Len(linebuf) \in Nat
  BY <1>1 DEF TypeInv, LineBuffer, CallInv
<1>3. ret'.kind = "line" /\ lines' = Append(lines, Body(SubSeq(linebuf, 1, nl_pos - 1)))
  BY <1>1, BeforeNewlineIs DEF Line, TypeInv
<1>4. ret = NoLine
  BY <1>1 DEF TypeInv, CallInv
<1>5. Clean' => Clean
  BY <1>4 DEF Clean, NoLine
<1>6. \E l \in Seq(Bytes), r \in Seq(Bytes) :
        /\ l = SubSeq(linebuf, 1, nl_pos) /\ r = SubSeq(linebuf, nl_pos + 1, Len(linebuf))
        /\ l \o r = linebuf
  <2>1. nl_pos \in Nat /\ 1 <= nl_pos /\ nl_pos <= Len(linebuf) /\ nl_pos + 1 \in Nat \ {0}
    BY <1>2
  <2>2. /\ SubSeq(linebuf, 1, nl_pos) \in Seq(Bytes)
        /\ SubSeq(linebuf, nl_pos + 1, Len(linebuf)) \in Seq(Bytes)
    BY <1>2, <2>1, SubSeqFacts
  <2>3. /\ nl_pos \in 1 - 1 .. Len(linebuf) /\ 1 \in 1 .. Len(linebuf) + 1
        /\ Len(linebuf) \in nl_pos .. Len(linebuf)
    BY <1>2, <2>1
  <2>4. SubSeq(linebuf, 1, nl_pos) \o SubSeq(linebuf, nl_pos + 1, Len(linebuf)) = linebuf
    BY <1>2, <2>3, ConcatAdjacentSubSeq, SubSeqFull
  <2> QED
    BY <2>2, <2>4
<1>7. PICK l \in Seq(Bytes), r \in Seq(Bytes) :
        /\ l = SubSeq(linebuf, 1, nl_pos) /\ r = SubSeq(linebuf, nl_pos + 1, Len(linebuf))
        /\ l \o r = linebuf
  BY <1>6
<1>8. buffer' = Strncpy(r)
  BY <1>1, <1>7 DEF Rest
<1>9. ASSUME Clean'
      PROVE  \E u \in Seq(Bytes) : Used(u)'
  <2>1. \E u \in Seq(Bytes) : Used(u)
    BY <1>5, <1>9 DEF Framing
  <2>2. PICK u \in Seq(Bytes) : Used(u)
    BY <2>1
  <2>3. Nuls(l \o r) = {}
    BY <1>5, <1>9, <1>7, <2>2, NoNulsHeld
  <2>4. \A j \in 1 .. nl_pos - 1 : linebuf[j] # "nl"
    BY <1>1, <1>5, <1>9 DEF Framing
  <2>5. u \o l \in Seq(Bytes) /\ LinesAre(u \o l, lines')
    <3>1. LinesAre(u, lines)
      BY <2>2 DEF Used
    <3> QED
      BY <1>2, <1>3, <1>7, <2>4, <3>1, NextLine, ZenonT(60)
  <2>6. Nuls(r) = {}
    <3>1. l \in Seq(Bytes) /\ r \in Seq(Bytes)
      OBVIOUS
    <3> QED
      BY ONLY <2>3, <3>1, NulsOfConcat
  <2>7. buffer' = r
    BY <1>8, <2>6, StrncpyCopies
  <2>8. sent = ((u \o linebuf) \o buffer) \o wire
    BY <2>2 DEF Used
  <2>9. ((u \o (l \o r)) \o buffer) \o wire = (((u \o l) \o buffer) \o r) \o wire
    <3>1. /\ u \in Seq(Bytes) /\ l \in Seq(Bytes) /\ r \in Seq(Bytes)
          /\ buffer \in Seq(Bytes) /\ wire \in Seq(Bytes) /\ buffer = <<>>
      BY <1>1, <1>2
    <3> QED
      BY ONLY <3>1, SplitParts, SMTT(60)
  <2>10. sent' = (((u \o l) \o linebuf') \o buffer') \o wire'
    BY <1>1, <1>7, <2>7, <2>8, <2>9
  <2>11. Used(u \o l)'
    BY <2>5, <2>10 DEF Used
  <2> QED
    BY <2>5, <2>11
<1> QED
  BY <1>1, <1>3, <1>9 DEF Framing

\* A sequence ends where the one behind it begins.
LEMMA FirstPart ==
  \A u, r \in Seq(Bytes) : SubSeq(u \o r, 1, Len(u \o r) - Len(r)) = u
<1> SUFFICES ASSUME NEW u \in Seq(Bytes), NEW r \in Seq(Bytes)
             PROVE  SubSeq(u \o r, 1, Len(u \o r) - Len(r)) = u
  OBVIOUS
<1> DEFINE t == u \o r
<1>1. /\ t \in Seq(Bytes) /\ Len(t) = Len(u) + Len(r)
      /\ \A i \in 1 .. Len(u) : t[i] = u[i]
  BY ConcatFacts
<1> HIDE DEF t
<1>2. Len(u) \in Nat /\ Len(r) \in Nat /\ Len(t) - Len(r) = Len(u)
  BY <1>1
<1>3. /\ SubSeq(t, 1, Len(u)) \in Seq(Bytes) /\ Len(SubSeq(t, 1, Len(u))) = Len(u)
      /\ \A i \in 1 .. Len(u) : SubSeq(t, 1, Len(u))[i] = t[i]
  <2>1. \A i \in 1 .. Len(u) : t[i] \in Bytes
    BY <1>1
  <2> QED
    BY <1>2, <2>1
<1>4. SubSeq(t, 1, Len(u)) = u
  BY <1>1, <1>3, SeqEqual
<1> QED
  BY <1>2, <1>4 DEF t

\* The room for another block is seen to, or a read() is interrupted.
LEMMA FramingRoom ==
  ASSUME Framing, call \in {"room", "read"}, call' \in {"room", "read"},
         UNCHANGED <<wire, buffer, linebuf, nl_pos, ret, pc, history>>
  PROVE  Framing'
<1>1. UNCHANGED <<sent, lines>> /\ (Clean' => Clean)
  BY DEF history, Clean
<1>2. Clean' => \E u \in Seq(Bytes) : Used(u)'
  BY <1>1 DEF Framing, Used
<1> QED
  BY <1>1, <1>2 DEF Framing

LEMMA FramingCall ==
  ASSUME TypeInv, Framing, Creadline_r
  PROVE  Framing'
<1>1. /\ pc = "creadline" /\ pc' = pc /\ sent' = sent /\ CrlStep
      /\ lines' = IF ret'.kind = "line" THEN Append(lines, ret'.line) ELSE lines
  BY DEF Creadline_r
<1>2. call # "none" /\ ret = NoLine /\ NoLine.kind # "line" /\ buffer = <<>>
  BY <1>1 DEF TypeInv, CallInv, Framing, NoLine, CrlStep, Room, Grow, GrowFails, Read,
     ReadInterrupted, ReadEnds, ReadFails, Split
<1>3. CASE Room \/ Grow \/ ReadInterrupted
  BY <1>1, <1>2, <1>3, FramingRoom DEF Room, Grow, ReadInterrupted, stream, history
<1>4. CASE GrowFails \/ ReadEnds \/ ReadFails
  BY <1>1, <1>2, <1>4, FramingFails DEF GrowFails, ReadEnds, ReadFails, stream
<1>5. CASE Read
  BY <1>1, <1>2, <1>5, FramingRead DEF Read, history
<1>6. CASE Split
  <2>1. ret'.kind = "line"
    BY <1>6 DEF Split, Return, Line
  <2> QED
    BY <1>1, <1>6, <2>1, FramingSplit
<1> QED
  BY <1>1, <1>3, <1>4, <1>5, <1>6 DEF CrlStep

LEMMA FramingNext ==
  ASSUME TypeInv, Framing, [Next]_vars
  PROVE  Framing'
<1>1. CASE Call
  <2>1. pc = "visit" /\ pc' = "creadline" /\ UNCHANGED history /\ (Begin \/ BeginFails)
    BY <1>1 DEF Call
  <2>2. CASE Begin
    BY <2>1, <2>2, FramingBegin
  <2>3. CASE BeginFails
    BY <2>1, <2>3, FramingFails DEF BeginFails
  <2> QED
    BY <2>1, <2>2, <2>3
<1>2. CASE Creadline_r
  BY <1>2, FramingCall
<1>3. ASSUME NEW e \in Bytes, Send(e)
      PROVE  Framing'
  BY <1>3, FramingSend
<1>4. ASSUME UNCHANGED <<wire, crl, history, pc>> PROVE Framing'
  <2>1. Clean' => Clean
    BY <1>4 DEF Clean, history, crl
  <2>2. ret.kind \in {"error", "eof"} => pc' \in {"creadline", "gone"}
    BY <1>4 DEF Framing
  <2> QED
    BY <1>4, <2>1, <2>2, FramingElsewhere
<1>5. ASSUME UNCHANGED <<wire, crl, history>>, pc # "gone",
             pc # "creadline" \/ ret.kind \notin {"error", "eof"} \/ pc' = "gone"
      PROVE  Framing'
  <2>1. Clean' => Clean
    BY <1>5 DEF Clean, history, crl
  <2>2. ret.kind \in {"error", "eof"} => pc' \in {"creadline", "gone"}
    BY <1>5 DEF Framing
  <2> QED
    BY <1>5, <2>1, <2>2, FramingElsewhere
<1>6. CASE Setup \/ Hangup \/ UNCHANGED vars
           \/ (\E p \in Pushers : Push(p) \/ PushWrite(p) \/ PushFails(p))
  BY <1>4, <1>6 DEF Setup, Hangup, Push, PushWrite, PushFails, vars, stream
<1>7. CASE Accept \/ Select \/ Write \/ WriteFails
  BY <1>5, <1>7 DEF Accept, Select, Write, WriteFails, stream
<1>8. CASE NoResponse \/ Respond \/ Abandon
  BY <1>5, <1>8 DEF NoResponse, Respond, Abandon, stream
<1>9. CASE NoMoreLines
  BY <1>5, <1>9 DEF NoMoreLines, RemoveClient, stream
<1> QED
  BY <1>1, <1>2, <1>3, <1>6, <1>7, <1>8, <1>9 DEF Next

\* creadline_r neither loses, repeats, changes nor invents a byte: what it has
\* returned are the lines of what was used up of the stream, and the rest of
\* what was sent is in the line buffer, the client's buffer or the socket.
THEOREM LinesExact == Spec => []FramingExact
<1>1. ASSUME Init PROVE Framing
  <2>1. /\ call = "none" /\ linebuf = <<>> /\ buffer = <<>> /\ wire = <<>> /\ sent = <<>>
        /\ lines = <<>> /\ ret.kind = "none"
    BY <1>1 DEF Init, CrlInit, NoLine
  <2>2. <<>> \in Seq(Bytes) /\ <<>> \o <<>> = <<>>
    OBVIOUS
  <2>3. LinesAre(<<>>, <<>>)
    <3>1. [k \in 0 .. 0 |-> 0] \in [0 .. Len(<<>>) -> 0 .. Len(<<>>)]
      OBVIOUS
    <3>2. IsCut(<<>>, Len(<<>>), [k \in 0 .. 0 |-> 0])
      BY DEF IsCut
    <3> QED
      BY <3>1, <3>2 DEF LinesAre
  <2>4. Used(<<>>)
    BY <2>1, <2>2, <2>3 DEF Used
  <2> QED
    BY <2>1, <2>2, <2>4 DEF Framing
<1>2. ASSUME TypeInv, Framing, Clean
      PROVE  LET rest == linebuf \o buffer \o wire
                 used == SubSeq(sent, 1, Len(sent) - Len(rest))
             IN  sent = used \o rest /\ LinesAre(used, lines)
  <2>1. \E u \in Seq(Bytes) : Used(u)
    BY <1>2 DEF Framing
  <2>2. PICK u \in Seq(Bytes) : Used(u)
    BY <2>1
  <2>3. linebuf \in Seq(Bytes) /\ buffer \in Seq(Bytes) /\ wire \in Seq(Bytes)
    BY <1>2 DEF TypeInv, LineBuffer
  <2> DEFINE rest == linebuf \o buffer \o wire
  <2>4. rest \in Seq(Bytes) /\ sent = u \o rest
    <3>1. sent = ((u \o linebuf) \o buffer) \o wire
      BY <2>2 DEF Used
    <3> DEFINE x == linebuf \o buffer
    <3>2. x \in Seq(Bytes)
      BY <2>3, ConcatFacts
    <3>3. (u \o linebuf) \o buffer = u \o x
      <4>1. u \in Seq(Bytes)
        OBVIOUS
      <4> QED
        BY ONLY <2>3, <4>1, Regroup, SMTT(30)
    <3>4. rest = x \o wire
      OBVIOUS
    <3> HIDE DEF x, rest
    <3>5. u \in Seq(Bytes) /\ x \in Seq(Bytes) /\ wire \in Seq(Bytes)
      BY <2>3, <3>2
    <3>6. x \o wire \in Seq(Bytes)
      BY ONLY <3>5, ConcatFacts
    <3>7. (u \o x) \o wire = u \o (x \o wire)
      BY ONLY <3>5, Regroup, SMTT(30)
    <3> QED
      BY <3>1, <3>3, <3>4, <3>6, <3>7
  <2> HIDE DEF rest
  <2>5. SubSeq(u \o rest, 1, Len(u \o rest) - Len(rest)) = u
    BY <2>4, FirstPart
  <2>6. SubSeq(sent, 1, Len(sent) - Len(rest)) = u
    BY <2>4, <2>5
  <2>7. LinesAre(u, lines)
    BY <2>2 DEF Used
  <2> QED
    BY <2>4, <2>6, <2>7 DEF rest
<1>3. TypeInv /\ Framing => FramingExact
  BY <1>2 DEF FramingExact, Clean
<1>4. TypeInv /\ Framing /\ [Next]_vars => Framing'
  BY FramingNext
<1> QED
  BY <1>1, <1>3, <1>4, TypesAlways, PTL DEF Spec
=============================================================================
