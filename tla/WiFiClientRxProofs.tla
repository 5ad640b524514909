-------------------------- MODULE WiFiClientRxProofs --------------------------
(***************************************************************************)
(* The receiving side of a WiFiClient keeps the peer's stream, for every   *)
(* size of the buffer, every length that is read and every interleaving    *)
(* with the network; and a byte that available() counts can be read.       *)
(***************************************************************************)
EXTENDS WiFiClientRxProperties, SequenceTheorems, FiniteSetTheorems, TLAPS

RxType == [buf : Seq(Byte), pos : Nat, allocated : BOOLEAN, failed : BOOLEAN]
CallType == [op : {"none", "fast", "slow", "flush"}, left : Nat, out : Seq(Byte)]

\* A receive buffer the code can build, and the bytes still in front of the sketch.
RxOK(r) == r \in RxType /\ r.pos <= Len(r.buf) /\ Len(r.buf) <= Size
Flow(r, k) == Rest(r.buf, r.pos) \o k

Ordered(s) == \A i, j \in 1..Len(s) : i < j => s[i] < s[j]
All == (got \o call.out) \o Flow(rx, kernel)

\* StreamKept with any two bytes compared; it is inductive because only the
\* read loop holds bytes of its own, and because what was thrown away had
\* been sent, so that a byte the peer sends next is a new one.
Inv ==
    /\ TypeOK
    /\ call.op # "slow" => call.out = <<>>
    /\ call.op # "none" => open
    /\ open /\ ~rx.failed =>
        /\ Ordered(All)
        /\ BytesOf(All) = 1..sent \ thrown
        /\ thrown \subseteq 1..sent

(***************************************************************************)
(* Sequences cut in two.                                                   *)
(***************************************************************************)
\* First and Rest are the two parts of a sequence.
LEMMA Cut ==
    ASSUME NEW S, NEW s \in Seq(S), NEW n \in 0..Len(s)
    PROVE  /\ First(s, n) \in Seq(S) /\ Len(First(s, n)) = n
           /\ \A i \in 1..n : First(s, n)[i] = s[i]
           /\ Rest(s, n) \in Seq(S) /\ Len(Rest(s, n)) = Len(s) - n
           /\ \A i \in 1..Len(s) - n : Rest(s, n)[i] = s[n + i]
           /\ First(s, n) \o Rest(s, n) = s
<1> DEFINE L == Len(s)
<1>1. L \in Nat /\ n \in Nat /\ n <= L /\ \A i \in 1..L : s[i] \in S
  BY LenProperties, ElementOfSeq
<1>2. /\ First(s, n) \in Seq(S) /\ Len(First(s, n)) = n
      /\ \A i \in 1..n : First(s, n)[i] = s[i]
  <2>1. \A i \in 1..n : s[i] \in S
    BY <1>1
  <2>2. /\ SubSeq(s, 1, n) \in Seq(S)
        /\ Len(SubSeq(s, 1, n)) = IF 1 <= n THEN n - 1 + 1 ELSE 0
        /\ \A i \in 1..n - 1 + 1 : SubSeq(s, 1, n)[i] = s[1 + i - 1]
    BY <1>1, <2>1, SubSeqProperties
  <2>3. n - 1 + 1 = n /\ \A i \in 1..n : 1 + i - 1 = i
    BY <1>1
  <2> QED
    BY <1>1, <2>2, <2>3 DEF First
<1>3. /\ Rest(s, n) \in Seq(S) /\ Len(Rest(s, n)) = L - n
      /\ \A i \in 1..L - n : Rest(s, n)[i] = s[n + i]
  <2>1. \A i \in n + 1..L : s[i] \in S
    BY <1>1
  <2>2. /\ SubSeq(s, n + 1, L) \in Seq(S)
        /\ Len(SubSeq(s, n + 1, L)) = IF n + 1 <= L THEN L - (n + 1) + 1 ELSE 0
        /\ \A i \in 1..L - (n + 1) + 1 : SubSeq(s, n + 1, L)[i] = s[n + 1 + i - 1]
    BY <1>1, <2>1, SubSeqProperties
  <2>3. L - (n + 1) + 1 = L - n /\ \A i \in 1..L - n : n + 1 + i - 1 = n + i
    BY <1>1
  <2>4. (IF n + 1 <= L THEN L - (n + 1) + 1 ELSE 0) = L - n
    BY <1>1
  <2>5. Rest(s, n) = SubSeq(s, n + 1, L)
    BY DEF Rest
  <2> HIDE DEF L
  <2> QED
    BY <2>2, <2>3, <2>4, <2>5
<1>4. First(s, n) \o Rest(s, n) = s
  <2>1. SubSeq(s, 1, n) \o SubSeq(s, n + 1, L) = SubSeq(s, 1, L)
    <3>1. 1 \in 1..L + 1 /\ n \in 1 - 1..L /\ L \in n..L
      BY <1>1
    <3> QED
      BY <3>1, ConcatAdjacentSubSeq
  <2> QED
    BY <2>1, SubSeqFull DEF First, Rest
<1> QED
  BY <1>2, <1>3, <1>4

\* To cut n more elements off is to cut p + n off.
LEMMA RestOfRest ==
    ASSUME NEW S, NEW s \in Seq(S), NEW p \in Nat, NEW n \in Nat, p + n <= Len(s)
    PROVE  Rest(Rest(s, p), n) = Rest(s, p + n)
<1>1. Len(s) \in Nat /\ p \in 0..Len(s) /\ p + n \in 0..Len(s) /\ n \in 0..Len(s) - p
  BY LenProperties
<1>2. /\ Rest(s, p) \in Seq(S) /\ Len(Rest(s, p)) = Len(s) - p
      /\ \A i \in 1..Len(s) - p : Rest(s, p)[i] = s[p + i]
  BY <1>1, Cut
<1>3. /\ Rest(s, p + n) \in Seq(S) /\ Len(Rest(s, p + n)) = Len(s) - (p + n)
      /\ \A i \in 1..Len(s) - (p + n) : Rest(s, p + n)[i] = s[(p + n) + i]
  <2> DEFINE m == p + n
  <2>1. m \in 0..Len(s)
    BY <1>1
  <2> HIDE DEF m
  <2>2. /\ Rest(s, m) \in Seq(S) /\ Len(Rest(s, m)) = Len(s) - m
        /\ \A i \in 1..Len(s) - m : Rest(s, m)[i] = s[m + i]
    BY <2>1, Cut
  <2> QED
    BY <2>2 DEF m
<1> DEFINE t == Rest(s, p)
<1> HIDE DEF t
<1>4. /\ Rest(t, n) \in Seq(S) /\ Len(Rest(t, n)) = Len(t) - n
      /\ \A i \in 1..Len(t) - n : Rest(t, n)[i] = t[n + i]
  <2>1. t \in Seq(S) /\ n \in 0..Len(t)
    BY <1>1, <1>2 DEF t
  <2> QED
    BY <2>1, Cut
<1>5. Len(t) - n = Len(s) - (p + n)
  BY <1>1, <1>2 DEF t
<1>6. \A i \in 1..Len(s) - (p + n) : Rest(t, n)[i] = Rest(s, p + n)[i]
  <2>1. \A i \in 1..Len(s) - (p + n) : n + i \in 1..Len(s) - p /\ p + (n + i) = (p + n) + i
    BY <1>1
  <2>2. \A i \in 1..Len(s) - (p + n) : t[n + i] = s[(p + n) + i]
    BY <1>2, <2>1 DEF t
  <2> QED
    BY <1>3, <1>4, <1>5, <2>2
<1>7. Rest(t, n) = Rest(s, p + n)
  <2> DEFINE a == Rest(t, n)
             b == Rest(s, p + n)
  <2>1. /\ a \in Seq(S) /\ b \in Seq(S) /\ Len(a) = Len(b)
        /\ \A i \in 1..Len(a) : a[i] = b[i]
    BY <1>3, <1>4, <1>5, <1>6
  <2> HIDE DEF a, b
  <2>2. a = b
    BY <2>1, SeqEqual
  <2> QED
    BY <2>2 DEF a, b
<1> QED
  BY <1>7 DEF t

\* What stands behind a sequence stays when its front is cut off.
LEMMA RestOfConcat ==
    ASSUME NEW S, NEW s \in Seq(S), NEW t \in Seq(S), NEW n \in 0..Len(s)
    PROVE  Rest(s \o t, n) = Rest(s, n) \o t
<1> DEFINE a == Rest(s \o t, n)
           b == Rest(s, n) \o t
           u == s \o t
<1>1. Len(s) \in Nat /\ Len(t) \in Nat /\ n \in Nat /\ n <= Len(s)
  BY LenProperties
<1>2. /\ u \in Seq(S) /\ Len(u) = Len(s) + Len(t)
      /\ \A i \in 1..Len(s) + Len(t) : u[i] = IF i <= Len(s) THEN s[i] ELSE t[i - Len(s)]
  BY ConcatProperties
<1> HIDE DEF u
<1>3. /\ Rest(u, n) \in Seq(S) /\ Len(Rest(u, n)) = Len(u) - n
      /\ \A i \in 1..Len(u) - n : Rest(u, n)[i] = u[n + i]
  <2>1. n \in 0..Len(u)
    BY <1>1, <1>2
  <2> QED
    BY <1>2, <2>1, Cut
<1>4. /\ Rest(s, n) \in Seq(S) /\ Len(Rest(s, n)) = Len(s) - n
      /\ \A i \in 1..Len(s) - n : Rest(s, n)[i] = s[n + i]
  BY Cut
<1> DEFINE v == Rest(s, n)
<1>5. /\ v \o t \in Seq(S) /\ Len(v \o t) = Len(v) + Len(t)
      /\ \A i \in 1..Len(v) + Len(t) : (v \o t)[i] = IF i <= Len(v) THEN v[i] ELSE t[i - Len(v)]
  <2> HIDE DEF v
  <2>1. v \in Seq(S)
    BY <1>4 DEF v
  <2> QED
    BY <2>1, ConcatProperties
<1> HIDE DEF v
<1>6. ASSUME NEW i \in 1..(Len(s) - n) + Len(t) PROVE Rest(u, n)[i] = (v \o t)[i]
  <2>1. Len(v) = Len(s) - n /\ n + i \in 1..Len(s) + Len(t) /\ i \in 1..Len(u) - n /\ i \in Nat
    BY <1>1, <1>2, <1>4, <1>6 DEF v
  <2>2. CASE i <= Len(s) - n
    <3>1. n + i <= Len(s) /\ i \in 1..Len(s) - n
      BY <1>1, <2>1, <2>2
    <3> QED
      BY <1>2, <1>3, <1>4, <1>5, <1>6, <2>1, <2>2, <3>1 DEF v
  <2>3. CASE ~(i <= Len(s) - n)
    <3>1. ~(n + i <= Len(s)) /\ (n + i) - Len(s) = i - (Len(s) - n)
      BY <1>1, <2>1, <2>3
    <3> QED
      BY <1>2, <1>3, <1>5, <1>6, <2>1, <2>3, <3>1
  <2> QED
    BY <2>2, <2>3
<1>7. Len(Rest(u, n)) = (Len(s) - n) + Len(t) /\ Len(v \o t) = (Len(s) - n) + Len(t)
  BY <1>1, <1>2, <1>3, <1>4, <1>5 DEF v
<1>8. Rest(u, n) = v \o t
  BY <1>3, <1>5, <1>6, <1>7, SeqEqual
<1> QED
  BY <1>8 DEF u, v

\* Three streams of bytes, one behind the other.
LEMMA Concat3 ==
    \A s, t, u \in Seq(Byte) : /\ (s \o t) \o u = s \o (t \o u)
                               /\ s \o t \in Seq(Byte) /\ (s \o t) \o u \in Seq(Byte)
<1> SUFFICES ASSUME NEW s \in Seq(Byte), NEW t \in Seq(Byte), NEW u \in Seq(Byte)
             PROVE  /\ (s \o t) \o u = s \o (t \o u)
                    /\ s \o t \in Seq(Byte) /\ (s \o t) \o u \in Seq(Byte)
  OBVIOUS
<1>1. (s \o t) \o u = s \o (t \o u)
  BY ConcatAssociative
<1>2. s \o t \in Seq(Byte)
  BY ConcatProperties
<1>3. (s \o t) \o u \in Seq(Byte)
  BY <1>2, ConcatProperties
<1> QED
  BY <1>1, <1>2, <1>3

\* The bytes of two streams, and their order, one behind the other.
LEMMA OrderOfConcat ==
    ASSUME NEW s \in Seq(Byte), NEW t \in Seq(Byte)
    PROVE  /\ BytesOf(s \o t) = BytesOf(s) \cup BytesOf(t)
           /\ Ordered(s \o t) <=> /\ Ordered(s) /\ Ordered(t)
                                  /\ \A x \in BytesOf(s), y \in BytesOf(t) : x < y
<1> DEFINE u == s \o t
           m == Len(s)
           n == Len(t)
<1>1. /\ m \in Nat /\ n \in Nat /\ Len(u) = m + n
      /\ \A i \in 1..m + n : u[i] = IF i <= m THEN s[i] ELSE t[i - m]
  BY LenProperties, ConcatProperties
<1> HIDE DEF u, m, n
<1>2. /\ \A i \in 1..m : i \in 1..Len(u) /\ u[i] = s[i]
      /\ \A i \in 1..n : m + i \in 1..Len(u) /\ u[m + i] = t[i]
  <2>1. \A i \in 1..m : i \in 1..m + n /\ i <= m
    BY <1>1
  <2>2. \A i \in 1..n : m + i \in 1..m + n /\ ~(m + i <= m) /\ (m + i) - m = i
    BY <1>1
  <2> QED
    BY <1>1, <2>1, <2>2
<1>3. \A k \in 1..Len(u) : \/ k \in 1..m
                           \/ \E i \in 1..n : k = m + i
  <2> SUFFICES ASSUME NEW k \in 1..Len(u), k \notin 1..m PROVE \E i \in 1..n : k = m + i
    OBVIOUS
  <2>1. k - m \in 1..n /\ k = m + (k - m)
    BY <1>1
  <2> QED
    BY <2>1
<1>4. BytesOf(u) = BytesOf(s) \cup BytesOf(t)
  <2>1. ASSUME NEW k \in 1..Len(u) PROVE u[k] \in BytesOf(s) \cup BytesOf(t)
    <3>1. CASE k \in 1..m
      BY <1>2, <3>1 DEF BytesOf, m
    <3>2. ASSUME NEW i \in 1..n, k = m + i PROVE u[k] \in BytesOf(t)
      BY <1>2, <3>2 DEF BytesOf, n
    <3> QED
      BY <1>3, <2>1, <3>1, <3>2
  <2>2. BytesOf(s) \subseteq BytesOf(u) /\ BytesOf(t) \subseteq BytesOf(u)
    BY <1>2 DEF BytesOf, m, n
  <2> QED
    BY <2>1, <2>2 DEF BytesOf
<1>5. ASSUME Ordered(u)
      PROVE  /\ Ordered(s) /\ Ordered(t)
             /\ \A x \in BytesOf(s), y \in BytesOf(t) : x < y
  <2>1. \A i, j \in 1..Len(u) : i < j => u[i] < u[j]
    BY <1>5 DEF Ordered
  <2>2. Ordered(s)
    BY <1>2, <2>1 DEF Ordered, m
  <2>3. Ordered(t)
    <3> SUFFICES ASSUME NEW i \in 1..n, NEW j \in 1..n, i < j PROVE t[i] < t[j]
      BY DEF Ordered, n
    <3>1. m + i < m + j
      BY <1>1
    <3> QED
      BY <1>2, <2>1, <3>1
  <2>4. ASSUME NEW i \in 1..m, NEW j \in 1..n PROVE s[i] < t[j]
    <3>1. i < m + j
      BY <1>1
    <3> QED
      BY <1>2, <2>1, <3>1
  <2> QED
    BY <2>2, <2>3, <2>4 DEF BytesOf, m, n
<1>6. ASSUME Ordered(s), Ordered(t), \A x \in BytesOf(s), y \in BytesOf(t) : x < y
      PROVE  Ordered(u)
  <2> SUFFICES ASSUME NEW k \in 1..Len(u), NEW l \in 1..Len(u), k < l PROVE u[k] < u[l]
    BY DEF Ordered
  <2>1. CASE k \in 1..m /\ l \in 1..m
    BY <1>2, <1>6, <2>1 DEF Ordered, m
  <2>2. ASSUME k \in 1..m, NEW j \in 1..n, l = m + j PROVE u[k] < u[l]
    <3>1. s[k] \in BytesOf(s) /\ t[j] \in BytesOf(t)
      BY <2>2 DEF BytesOf, m, n
    <3> QED
      BY <1>2, <1>6, <2>2, <3>1
  <2>3. ASSUME NEW i \in 1..n, NEW j \in 1..n, k = m + i, l = m + j PROVE u[k] < u[l]
    <3>1. i < j
      BY <1>1, <2>3
    <3> QED
      BY <1>2, <1>6, <2>3, <3>1 DEF Ordered, n
  <2>4. ~(k \notin 1..m /\ l \in 1..m)
    BY <1>1
  <2> QED
    BY <1>3, <2>1, <2>2, <2>3, <2>4
<1>7. Ordered(u) <=> /\ Ordered(s) /\ Ordered(t)
                     /\ \A x \in BytesOf(s), y \in BytesOf(t) : x < y
  BY <1>5, <1>6
<1> QED
  BY <1>4, <1>7 DEF u

(***************************************************************************)
(* What the calls are made of.                                             *)
(***************************************************************************)
LEMMA TypeParts ==
    TypeOK <=> /\ sent \in 0..Bytes /\ peer \in {"open", "fin", "reset"}
               /\ kernel \in Seq(Byte) /\ RxOK(rx) /\ open \in BOOLEAN
               /\ call \in CallType /\ got \in Seq(Byte) /\ thrown \subseteq Byte
BY DEF TypeOK, RxOK, RxType, CallType

\* What a buffer holds in front of the kernel's bytes.
LEMMA FlowTyped ==
    ASSUME NEW r, RxOK(r), NEW k \in Seq(Byte)
    PROVE  /\ Rest(r.buf, r.pos) \in Seq(Byte) /\ Flow(r, k) \in Seq(Byte)
           /\ Held(r) \in Nat /\ Len(Rest(r.buf, r.pos)) = Held(r)
           /\ Len(r.buf) \in Nat /\ r.pos \in 0..Len(r.buf)
<1>1. r.buf \in Seq(Byte) /\ r.pos \in Nat /\ r.pos <= Len(r.buf)
  BY DEF RxOK, RxType
<1>2. Len(r.buf) \in Nat /\ r.pos \in 0..Len(r.buf)
  BY <1>1, LenProperties
<1>3. Rest(r.buf, r.pos) \in Seq(Byte) /\ Len(Rest(r.buf, r.pos)) = Len(r.buf) - r.pos
  BY <1>1, <1>2, Cut
<1>4. Flow(r, k) \in Seq(Byte)
  BY <1>3, ConcatProperties DEF Flow
<1> QED
  BY <1>1, <1>2, <1>3, <1>4 DEF Held

\* n bytes go from the buffer to the sketch: none is lost or repeated.
LEMMA CopyMoves ==
    ASSUME NEW r, RxOK(r), NEW k \in Seq(Byte), NEW n \in 0..Held(r)
    PROVE  /\ RxOK(Advanced(r, n)) /\ Copied(r, n) \in Seq(Byte)
           /\ Advanced(r, n).failed = r.failed
           /\ Copied(r, n) \o Flow(Advanced(r, n), k) = Flow(r, k)
<1> DEFINE s == Rest(r.buf, r.pos)
           p == r.pos
           b == r.buf
<1>1. /\ s \in Seq(Byte) /\ Len(s) = Held(r) /\ Len(b) \in Nat /\ p \in 0..Len(b)
      /\ b \in Seq(Byte) /\ p \in Nat /\ n \in Nat /\ p + n <= Len(b) /\ n \in 0..Len(s)
  <2>1. /\ s \in Seq(Byte) /\ Len(s) = Held(r) /\ Len(b) \in Nat /\ p \in 0..Len(b)
    BY FlowTyped
  <2>2. b \in Seq(Byte) /\ p \in Nat
    BY DEF RxOK, RxType
  <2> QED
    BY <2>1, <2>2 DEF Held
<1>2. /\ RxOK(Advanced(r, n)) /\ Advanced(r, n).failed = r.failed
      /\ Advanced(r, n).buf = b /\ Advanced(r, n).pos = p + n
  BY <1>1 DEF RxOK, RxType, Advanced
<1> HIDE DEF s, p, b
<1>3. First(s, n) \in Seq(Byte) /\ Rest(s, n) \in Seq(Byte) /\ First(s, n) \o Rest(s, n) = s
  BY <1>1, Cut
<1>4. Rest(s, n) = Rest(b, p + n)
  BY <1>1, RestOfRest DEF s, b, p
<1>5. (First(s, n) \o Rest(s, n)) \o k = First(s, n) \o (Rest(s, n) \o k)
  BY <1>3, Concat3
<1>6. Flow(r, k) = s \o k /\ Flow(Advanced(r, n), k) = Rest(s, n) \o k /\ Copied(r, n) = First(s, n)
  BY <1>2, <1>4 DEF Flow, Copied, s, b, p
<1> QED
  BY <1>2, <1>3, <1>5, <1>6

\* A buffer read to its end is empty, and rewinding it changes nothing else.
LEMMA RewoundEffect ==
    ASSUME TypeOK
    PROVE  LET r == [Rewound(rx) EXCEPT !.allocated = TRUE] IN
           /\ RxOK(r) /\ Held(r) = Held(rx) /\ r.failed = rx.failed
           /\ Rest(r.buf, r.pos) = Rest(rx.buf, rx.pos)
           /\ Held(rx) = 0 => r.buf = <<>>
           /\ RoomIn(r) \in Nat
<1> DEFINE r == [Rewound(rx) EXCEPT !.allocated = TRUE]
<1>1. RxOK(rx) /\ Size \in Nat /\ Size > 0
  BY TypeParts, RxAssumption
<1>2. /\ Rest(rx.buf, rx.pos) \in Seq(Byte) /\ Len(Rest(rx.buf, rx.pos)) = Held(rx)
      /\ Len(rx.buf) \in Nat /\ rx.pos \in 0..Len(rx.buf) /\ Len(rx.buf) <= Size
      /\ rx.buf \in Seq(Byte) /\ Held(rx) = Len(rx.buf) - rx.pos
  <2>1. <<>> \in Seq(Byte)
    OBVIOUS
  <2> QED
    BY <1>1, <2>1, FlowTyped DEF RxOK, RxType, Held
<1>3. CASE rx.pos = Len(rx.buf)
  <2>1. r = [rx EXCEPT !.buf = <<>>, !.pos = 0, !.allocated = TRUE]
    BY <1>3 DEF Rewound
  <2>2. /\ r \in RxType /\ r.buf = <<>> /\ r.pos = 0 /\ r.failed = rx.failed
    <3>1. <<>> \in Seq(Byte) /\ rx \in RxType
      BY <1>1 DEF RxOK
    <3> HIDE DEF r
    <3> QED
      BY <2>1, <3>1 DEF RxType
  <2>3. Len(r.buf) = 0 /\ RxOK(r) /\ Held(r) = 0 /\ Held(rx) = 0 /\ RoomIn(r) \in Nat
    BY <1>1, <1>2, <1>3, <2>2 DEF RxOK, Held, RoomIn
  <2>4. Rest(r.buf, r.pos) = <<>> /\ Rest(rx.buf, rx.pos) = <<>>
    <3>1. Rest(r.buf, r.pos) = <<>>
      BY <2>2, <2>3, SubSeqEmpty DEF Rest
    <3>2. Len(Rest(rx.buf, rx.pos)) = 0
      BY <1>2, <2>3
    <3> QED
      BY <1>2, <3>1, <3>2, EmptySeq
  <2> QED
    BY <2>2, <2>3, <2>4
<1>4. CASE rx.pos # Len(rx.buf)
  <2>1. r = [rx EXCEPT !.allocated = TRUE]
    BY <1>4 DEF Rewound
  <2>2. r \in RxType /\ r.buf = rx.buf /\ r.pos = rx.pos /\ r.failed = rx.failed
    BY <1>1, <2>1 DEF RxOK, RxType
  <2>3. Held(rx) # 0 /\ Held(r) = Held(rx) /\ RxOK(r) /\ RoomIn(r) \in Nat
    BY <1>1, <1>2, <1>4, <2>2 DEF RxOK, Held, RoomIn
  <2> QED
    BY <2>2, <2>3
<1> QED
  BY <1>3, <1>4

\* fillBuffer brings n bytes from the socket behind those it holds, or none.
LEMMA FillEffect ==
    ASSUME TypeOK, NEW f \in Fill
    PROVE  /\ RxOK(f.rx) /\ f.kernel \in Seq(Byte) /\ f.n \in Nat
           /\ Held(f.rx) = Held(rx) + f.n
           /\ ~f.rx.failed => ~rx.failed /\ Flow(f.rx, f.kernel) = Flow(rx, kernel)
<1> DEFINE r == [Rewound(rx) EXCEPT !.allocated = TRUE]
           most == LeastOf(Len(kernel), RoomIn(r))
<1>1. /\ RxOK(rx) /\ kernel \in Seq(Byte) /\ Len(kernel) \in Nat /\ Held(rx) \in Nat
      /\ Size \in Nat /\ <<>> \in Seq(Byte)
  <2>1. /\ RxOK(rx) /\ kernel \in Seq(Byte) /\ Size \in Nat /\ <<>> \in Seq(Byte)
    BY TypeParts, RxAssumption
  <2> QED
    BY <2>1, FlowTyped, LenProperties
<1>2. /\ RxOK(r) /\ Held(r) = Held(rx) /\ r.failed = rx.failed
      /\ Rest(r.buf, r.pos) = Rest(rx.buf, rx.pos) /\ RoomIn(r) \in Nat
  BY RewoundEffect
<1> HIDE DEF r
<1>3. \/ f = Outcome([rx EXCEPT !.failed = TRUE], kernel, 0)
      \/ f = Outcome(r, kernel, 0)
      \/ f = Outcome([r EXCEPT !.failed = TRUE], kernel, 0)
      \/ f = Outcome([r EXCEPT !.failed = TRUE], <<>>, 0)
      \/ \E n \in 1..most :
            f = Outcome([r EXCEPT !.buf = @ \o First(kernel, n)], Rest(kernel, n), n)
  BY DEF Fill, r
<1> DEFINE a == [rx EXCEPT !.failed = TRUE]
           b == [r EXCEPT !.failed = TRUE]
<1>4. /\ RxOK(a) /\ Held(a) = Held(rx) /\ a.failed
      /\ RxOK(b) /\ Held(b) = Held(r) /\ b.failed
  BY <1>1, <1>2 DEF RxOK, RxType, Held
<1> HIDE DEF a, b
<1>5. CASE f = Outcome(a, kernel, 0)
  BY <1>1, <1>4, <1>5 DEF Outcome
<1>6. CASE f = Outcome(r, kernel, 0)
  BY <1>1, <1>2, <1>6 DEF Outcome, Flow
<1>7. ASSUME NEW k \in Seq(Byte), f = Outcome(b, k, 0)
      PROVE  /\ RxOK(f.rx) /\ f.kernel \in Seq(Byte) /\ f.n \in Nat
             /\ Held(f.rx) = Held(rx) + f.n /\ f.rx.failed
  BY <1>1, <1>2, <1>4, <1>7 DEF Outcome
<1>8. ASSUME NEW n \in 1..most,
             f = Outcome([r EXCEPT !.buf = @ \o First(kernel, n)], Rest(kernel, n), n)
      PROVE  /\ RxOK(f.rx) /\ f.kernel \in Seq(Byte) /\ f.n \in Nat
             /\ Held(f.rx) = Held(rx) + f.n
             /\ f.rx.failed = rx.failed /\ Flow(f.rx, f.kernel) = Flow(rx, kernel)
  <2> DEFINE k == First(kernel, n)
             s == Rest(r.buf, r.pos)
  <2>1. n \in Nat /\ n \in 0..Len(kernel) /\ n <= RoomIn(r)
    BY <1>1, <1>2, <1>8 DEF LeastOf
  <2>2. /\ k \in Seq(Byte) /\ Len(k) = n /\ Rest(kernel, n) \in Seq(Byte)
        /\ k \o Rest(kernel, n) = kernel
    BY <1>1, <2>1, Cut
  <2>3. /\ r \in RxType /\ r.buf \in Seq(Byte) /\ Len(r.buf) \in Nat
        /\ r.pos \in 0..Len(r.buf) /\ s \in Seq(Byte)
    BY <1>1, <1>2, FlowTyped DEF RxOK, RxType
  <2> HIDE DEF k
  <2>4. r.buf \o k \in Seq(Byte) /\ Len(r.buf \o k) = Len(r.buf) + n
    BY <2>2, <2>3, ConcatProperties
  <2>5. /\ f.kernel = Rest(kernel, n) /\ f.n = n /\ f.rx = [r EXCEPT !.buf = r.buf \o k]
    BY <1>8, <2>3 DEF Outcome, k, RxType
  <2>6. /\ f.rx \in RxType /\ f.rx.buf = r.buf \o k /\ f.rx.pos = r.pos
        /\ f.rx.failed = r.failed
    BY <2>3, <2>4, <2>5 DEF RxType
  <2>7. RxOK(f.rx) /\ Held(f.rx) = Held(r) + n
    <3>1. r.pos <= Len(r.buf) + n /\ Len(r.buf) + n <= Size
      BY <1>1, <2>1, <2>3 DEF RoomIn
    <3>2. (Len(r.buf) + n) - r.pos = (Len(r.buf) - r.pos) + n
      BY <2>1, <2>3
    <3> QED
      BY <2>4, <2>6, <3>1, <3>2 DEF RxOK, Held
  <2>8. Rest(f.rx.buf, f.rx.pos) = s \o k
    BY <2>2, <2>3, <2>6, RestOfConcat
  <2> HIDE DEF s
  <2>9. (s \o k) \o Rest(kernel, n) = s \o (k \o Rest(kernel, n))
    <3>1. s \in Seq(Byte) /\ k \in Seq(Byte) /\ Rest(kernel, n) \in Seq(Byte)
      BY <2>2, <2>3
    <3> QED
      BY <3>1, Concat3
  <2>10. Flow(f.rx, f.kernel) = Flow(rx, kernel)
    BY <1>2, <2>2, <2>5, <2>8, <2>9 DEF Flow, s
  <2> QED
    BY <1>2, <2>1, <2>2, <2>5, <2>6, <2>7, <2>10
<1> QED
  BY <1>1, <1>3, <1>5, <1>6, <1>7, <1>8 DEF a, b

(***************************************************************************)
(* The steps.                                                              *)
(***************************************************************************)
LEMMA AllTyped ==
    ASSUME TypeOK
    PROVE  /\ All \in Seq(Byte) /\ got \o call.out \in Seq(Byte)
           /\ got \in Seq(Byte) /\ call.out \in Seq(Byte) /\ Flow(rx, kernel) \in Seq(Byte)
           /\ All = got \o (call.out \o Flow(rx, kernel))
<1>1. got \in Seq(Byte) /\ call.out \in Seq(Byte) /\ RxOK(rx) /\ kernel \in Seq(Byte)
  BY TypeParts DEF CallType
<1>2. Flow(rx, kernel) \in Seq(Byte)
  BY <1>1, FlowTyped
<1>3. got \o call.out \in Seq(Byte)
  BY <1>1, <1>2, Concat3
<1>4. All \in Seq(Byte)
  BY <1>2, <1>3, Concat3 DEF All
<1>5. All = got \o (call.out \o Flow(rx, kernel))
  <2> DEFINE o == call.out
             w == Flow(rx, kernel)
  <2>1. got \in Seq(Byte) /\ o \in Seq(Byte) /\ w \in Seq(Byte)
    BY <1>1, <1>2
  <2> HIDE DEF o, w
  <2>2. (got \o o) \o w = got \o (o \o w)
    BY <2>1, Concat3
  <2> QED
    BY <2>2 DEF All, o, w
<1> QED
  BY <1>1, <1>2, <1>3, <1>4, <1>5

\* A step that only hands bytes on keeps the stream.
LEMMA MoveKeeps ==
    ASSUME Inv, UNCHANGED <<sent, peer, thrown>>,
           RxOK(rx'), kernel' \in Seq(Byte), call' \in CallType, got' \in Seq(Byte),
           open' \in BOOLEAN, call'.op # "slow" => call'.out = <<>>,
           call'.op # "none" => open',
           open' /\ ~rx'.failed => open /\ ~rx.failed /\ All' = All
    PROVE  Inv'
<1>1. TypeOK'
  <2>1. sent' \in 0..Bytes /\ peer' \in {"open", "fin", "reset"} /\ thrown' \subseteq Byte
    BY DEF Inv, TypeOK
  <2> QED
    BY <2>1 DEF TypeOK, RxOK, RxType, CallType
<1> QED
  BY <1>1 DEF Inv

\* The call gives out to the sketch and leaves buffer r and bytes k behind.
HandsOver(out, r, k) ==
    ~r.failed => ~rx.failed /\ out \o Flow(r, k) = call.out \o Flow(rx, kernel)

\* A call that returns out has taken it from what was in front of the sketch.
LEMMA ReturnKeeps ==
    ASSUME Inv, UNCHANGED <<sent, peer, thrown>>, open,
           NEW r, RxOK(r), NEW out \in Seq(Byte), Return(r, out), kernel' \in Seq(Byte),
           HandsOver(out, r, kernel')
    PROVE  Inv'
<1>1. /\ got' = got \o out /\ rx' = r /\ open' = ~r.failed /\ call' = NoCall
  BY DEF Return
<1>2. /\ got \in Seq(Byte) /\ call.out \in Seq(Byte) /\ Flow(rx, kernel) \in Seq(Byte)
      /\ Flow(r, kernel') \in Seq(Byte) /\ got \o out \in Seq(Byte)
  <2>1. got \in Seq(Byte) /\ call.out \in Seq(Byte) /\ Flow(rx, kernel) \in Seq(Byte)
    BY AllTyped DEF Inv
  <2> QED
    BY <2>1, FlowTyped, Concat3
<1>3. NoCall \in CallType /\ NoCall.op = "none" /\ NoCall.out = <<>> /\ r.failed \in BOOLEAN
  <2>1. <<>> \in Seq(Byte)
    OBVIOUS
  <2> QED
    BY <2>1 DEF NoCall, CallType, RxOK, RxType
<1>4. ASSUME ~r.failed PROVE All' = All
  <2>1. All' = ((got \o out) \o <<>>) \o Flow(r, kernel')
    BY <1>1, <1>3 DEF All, Flow
  <2>2. (got \o out) \o <<>> = got \o out
    BY <1>2, ConcatEmptySeq
  <2>3. (got \o out) \o Flow(r, kernel') = got \o (out \o Flow(r, kernel'))
    <3> DEFINE w == Flow(r, kernel')
    <3>1. got \in Seq(Byte) /\ out \in Seq(Byte) /\ w \in Seq(Byte)
      BY <1>2
    <3> HIDE DEF w
    <3>2. (got \o out) \o w = got \o (out \o w)
      BY <3>1, Concat3
    <3> QED
      BY <3>2 DEF w
  <2>4. All = got \o (call.out \o Flow(rx, kernel))
    BY AllTyped DEF Inv
  <2> QED
    BY <1>4, <2>1, <2>2, <2>3, <2>4 DEF HandsOver
<1>5. open' \in BOOLEAN
  BY <1>1
<1>6. ~r.failed => ~rx.failed
  BY DEF HandsOver
<1> QED
  BY <1>1, <1>2, <1>3, <1>4, <1>5, <1>6, MoveKeeps

\* A read that goes on has copied n bytes of buffer r behind those it holds.
LEMMA SlowGoesOn ==
    ASSUME Inv, UNCHANGED <<sent, peer, thrown, open, got>>, open,
           NEW r, RxOK(r), NEW n \in 0..Held(r),
           rx' = Advanced(r, n), kernel' \in Seq(Byte),
           call' \in CallType, call'.op = "slow", call'.out = call.out \o Copied(r, n),
           ~r.failed => ~rx.failed /\ Flow(r, kernel') = Flow(rx, kernel)
    PROVE  Inv'
<1>1. /\ RxOK(rx') /\ Copied(r, n) \in Seq(Byte) /\ rx'.failed = r.failed
      /\ Copied(r, n) \o Flow(rx', kernel') = Flow(r, kernel')
      /\ Flow(rx', kernel') \in Seq(Byte)
  BY CopyMoves, FlowTyped
<1>2. got \in Seq(Byte) /\ call.out \in Seq(Byte) /\ open \in BOOLEAN
  BY AllTyped DEF Inv, TypeOK
<1>3. ASSUME ~r.failed PROVE All' = All
  <2> DEFINE c == Copied(r, n)
             w == Flow(rx', kernel')
  <2>1. All' = (got \o (call.out \o c)) \o w
    BY DEF All, Flow
  <2> HIDE DEF c, w
  <2>2. c \in Seq(Byte) /\ w \in Seq(Byte) /\ got \o call.out \in Seq(Byte)
    BY <1>1, <1>2, Concat3 DEF c, w
  <2>3. got \o (call.out \o c) = (got \o call.out) \o c
    <3> DEFINE o == call.out
    <3>1. got \in Seq(Byte) /\ o \in Seq(Byte) /\ c \in Seq(Byte)
      BY <1>2, <2>2
    <3> HIDE DEF o
    <3>2. (got \o o) \o c = got \o (o \o c)
      BY <3>1, Concat3
    <3> QED
      BY <3>2 DEF o
  <2>4. ((got \o call.out) \o c) \o w = (got \o call.out) \o (c \o w)
    BY <2>2, Concat3
  <2>5. c \o w = Flow(rx, kernel)
    BY <1>1, <1>3 DEF c, w
  <2> QED
    BY <2>1, <2>3, <2>4, <2>5 DEF All
<1> QED
  BY <1>1, <1>2, <1>3, MoveKeeps

\* read() with something buffered, or with a first fillBuffer.
LEMMA ReadKeeps ==
    ASSUME Inv, NEW len \in Lengths, Read(len)
    PROVE  Inv'
<1> DEFINE fast == [NoCall EXCEPT !.op = "fast", !.left = len]
<1>1. /\ TypeOK /\ RxOK(rx) /\ kernel \in Seq(Byte) /\ got \in Seq(Byte) /\ open
      /\ call = NoCall /\ call.out = <<>> /\ len \in Nat /\ open \in BOOLEAN
      /\ UNCHANGED <<sent, peer, thrown>> /\ <<>> \in Seq(Byte)
  BY TypeParts, RxAssumption DEF Inv, Read, NoCall
<1>2. fast \in CallType /\ fast.op = "fast" /\ fast.out = <<>>
  BY <1>1 DEF NoCall, CallType
<1> HIDE DEF fast
<1>3. CASE Held(rx) > 0
  <2>1. call' = fast /\ UNCHANGED <<rx, kernel, open, got>>
    BY <1>3 DEF Read, fast
  <2>2. All' = All
    BY <1>1, <1>2, <2>1 DEF All, Flow
  <2> QED
    BY <1>1, <1>2, <2>1, <2>2, MoveKeeps
<1>4. CASE ~(Held(rx) > 0)
  <2>1. PICK f \in Fill :
          /\ kernel' = f.kernel
          /\ IF f.n = 0 THEN Return(f.rx, <<>>)
             ELSE call' = fast /\ rx' = f.rx /\ UNCHANGED <<open, got>>
    BY <1>4 DEF Read, fast
  <2>2. /\ RxOK(f.rx) /\ f.kernel \in Seq(Byte) /\ f.n \in Nat
        /\ ~f.rx.failed => ~rx.failed /\ Flow(f.rx, f.kernel) = Flow(rx, kernel)
    BY <1>1, FillEffect
  <2>3. CASE f.n = 0
    <3>1. Return(f.rx, <<>>) /\ kernel' = f.kernel
      BY <2>1, <2>3
    <3> QED
      BY <1>1, <2>2, <3>1, ReturnKeeps DEF HandsOver
  <2>4. CASE f.n # 0
    <3>1. call' = fast /\ rx' = f.rx /\ kernel' = f.kernel /\ UNCHANGED <<open, got>>
      BY <2>1, <2>4
    <3>2. ~f.rx.failed => ~rx.failed /\ All' = All
      BY <1>1, <1>2, <2>2, <3>1 DEF All, Flow
    <3> QED
      BY <1>1, <1>2, <2>2, <3>1, <3>2, MoveKeeps
  <2> QED
    BY <2>3, <2>4
<1> QED
  BY <1>3, <1>4

\* A read that the buffer can serve moves bytes from the buffer to the sketch.
LEMMA ReadFastKeeps ==
    ASSUME Inv, ReadFast
    PROVE  Inv'
<1> DEFINE len == call.left
           a == Held(rx)
<1>1. /\ TypeOK /\ RxOK(rx) /\ kernel \in Seq(Byte) /\ call \in CallType /\ open
      /\ call.op = "fast" /\ call.out = <<>> /\ len \in Nat /\ <<>> \in Seq(Byte)
      /\ UNCHANGED <<sent, peer, thrown>> /\ Flow(rx, kernel) \in Seq(Byte) /\ a \in Nat
  <2>1. /\ TypeOK /\ RxOK(rx) /\ kernel \in Seq(Byte) /\ call \in CallType /\ open
        /\ call.op = "fast" /\ call.out = <<>> /\ <<>> \in Seq(Byte)
        /\ UNCHANGED <<sent, peer, thrown>>
    <3>1. call.op = "fast" /\ UNCHANGED <<sent, peer, thrown>>
      BY DEF ReadFast
    <3>2. TypeOK /\ call.out = <<>> /\ open
      BY <3>1 DEF Inv
    <3>3. <<>> \in Seq(Byte)
      OBVIOUS
    <3> QED
      BY <3>1, <3>2, <3>3, TypeParts
  <2> QED
    BY <2>1, FlowTyped DEF CallType
<1>2. call.out \o Flow(rx, kernel) = Flow(rx, kernel)
  BY <1>1, ConcatEmptySeq
<1>3. ASSUME NEW r, RxOK(r), NEW k \in Seq(Byte), kernel' = k, len <= Held(r),
             ~r.failed => ~rx.failed /\ Flow(r, k) = Flow(rx, kernel),
             Return(Advanced(r, len), Copied(r, len))
      PROVE  Inv'
  <2>1. len \in 0..Held(r)
    BY <1>1, <1>3, FlowTyped
  <2>2. /\ RxOK(Advanced(r, len)) /\ Copied(r, len) \in Seq(Byte)
        /\ Advanced(r, len).failed = r.failed
        /\ Copied(r, len) \o Flow(Advanced(r, len), k) = Flow(r, k)
    BY <1>3, <2>1, CopyMoves
  <2> QED
    BY <1>1, <1>2, <1>3, <2>2, ReturnKeeps DEF HandsOver
<1>4. ASSUME NEW r, RxOK(r), NEW k \in Seq(Byte), kernel' = k, a <= Held(r), len > a,
             ~r.failed => ~rx.failed /\ Flow(r, k) = Flow(rx, kernel),
             call' = [call EXCEPT !.op = "slow", !.left = len - a, !.out = Copied(r, a)],
             rx' = Advanced(r, a), UNCHANGED <<open, got>>
      PROVE  Inv'
  <2>1. a \in 0..Held(r) /\ len - a \in Nat
    BY <1>1, <1>4, FlowTyped
  <2>2. Copied(r, a) \in Seq(Byte)
    BY <1>4, <2>1, CopyMoves
  <2>3. call' \in CallType /\ call'.op = "slow" /\ call'.out = call.out \o Copied(r, a)
    <3>1. call.out \o Copied(r, a) = Copied(r, a)
      BY <1>1, <2>2, ConcatEmptySeq
    <3> DEFINE c == Copied(r, a)
               l == len - a
    <3>2. call' = [call EXCEPT !.op = "slow", !.left = l, !.out = c]
      BY <1>4
    <3>3. l \in Nat /\ c \in Seq(Byte)
      BY <2>1, <2>2
    <3> HIDE DEF l, c
    <3>4. call' \in CallType /\ call'.op = "slow" /\ call'.out = c
      BY <1>1, <3>2, <3>3 DEF CallType
    <3> QED
      BY <3>1, <3>4 DEF c
  <2> QED
    BY <1>1, <1>4, <2>1, <2>3, SlowGoesOn
<1>5. \A f \in Fill :
        /\ RxOK(f.rx) /\ f.kernel \in Seq(Byte) /\ f.n \in Nat
        /\ Held(f.rx) = a + f.n
        /\ ~f.rx.failed => ~rx.failed /\ Flow(f.rx, f.kernel) = Flow(rx, kernel)
  BY <1>1, FillEffect
<1> DEFINE begin(r) ==
             /\ call' = [call EXCEPT !.op = "slow", !.left = len - a, !.out = Copied(r, a)]
             /\ rx' = Advanced(r, a)
             /\ UNCHANGED <<open, got>>
           fits == len - a <= Size - Len(rx.buf)
<1>6. \/ len <= a /\ Return(Advanced(rx, len), Copied(rx, len)) /\ UNCHANGED kernel
      \/ len > a /\ fits /\ \E f \in Fill :
           /\ kernel' = f.kernel
           /\ IF f.n >= len - a
              THEN Return(Advanced(f.rx, len), Copied(f.rx, len))
              ELSE begin(f.rx)
      \/ len > a /\ ~fits /\ begin(rx) /\ UNCHANGED kernel
  BY DEF ReadFast
<1> HIDE DEF len, a, fits
<1>7. CASE len <= a /\ Return(Advanced(rx, len), Copied(rx, len)) /\ UNCHANGED kernel
  <2>1. len <= Held(rx) /\ kernel' = kernel
    BY <1>7 DEF a
  <2> QED
    BY <1>1, <1>3, <1>7, <2>1
<1>8. ASSUME len > a, NEW f \in Fill, kernel' = f.kernel,
             IF f.n >= len - a THEN Return(Advanced(f.rx, len), Copied(f.rx, len))
             ELSE begin(f.rx)
      PROVE  Inv'
  <2>1. a <= Held(f.rx) /\ (f.n >= len - a => len <= Held(f.rx))
    BY <1>1, <1>5, <1>8
  <2>2. CASE f.n >= len - a
    <3> HIDE DEF begin
    <3> QED
      BY <1>3, <1>5, <1>8, <2>1, <2>2
  <2>3. CASE ~(f.n >= len - a)
    BY <1>4, <1>5, <1>8, <2>1, <2>3
  <2> QED
    BY <2>2, <2>3
<1>9. CASE len > a /\ ~fits /\ begin(rx) /\ UNCHANGED kernel
  <2>1. a <= Held(rx)
    BY <1>1 DEF a
  <2> QED
    BY <1>1, <1>4, <1>9, <2>1
<1> QED
  BY <1>6, <1>7, <1>8, <1>9

\* A longer read refills the buffer between two copies and keeps the order of bytes.
LEMMA ReadSlowKeeps ==
    ASSUME Inv, ReadSlow
    PROVE  Inv'
<1>1. /\ TypeOK /\ RxOK(rx) /\ kernel \in Seq(Byte) /\ call \in CallType /\ open
      /\ call.op = "slow" /\ call.out \in Seq(Byte) /\ call.left \in Nat
      /\ UNCHANGED <<sent, peer, thrown>> /\ Flow(rx, kernel) \in Seq(Byte)
  <2>1. /\ TypeOK /\ RxOK(rx) /\ kernel \in Seq(Byte) /\ call \in CallType /\ open
        /\ call.op = "slow" /\ UNCHANGED <<sent, peer, thrown>>
    BY TypeParts DEF Inv, ReadSlow
  <2> QED
    BY <2>1, FlowTyped DEF CallType
<1>2. PICK f \in Fill :
        LET n == LeastOf(Held(f.rx), call.left)
            out == call.out \o Copied(f.rx, n) IN
        /\ kernel' = f.kernel
        /\ IF f.n = 0 THEN Return(f.rx, call.out)
           ELSE IF n = call.left
           THEN Return(Advanced(f.rx, n), out)
           ELSE /\ call' = [call EXCEPT !.left = @ - n, !.out = out]
                /\ rx' = Advanced(f.rx, n)
                /\ UNCHANGED <<open, got>>
  BY DEF ReadSlow
<1>3. /\ RxOK(f.rx) /\ f.kernel \in Seq(Byte) /\ f.n \in Nat /\ kernel' = f.kernel
      /\ ~f.rx.failed => ~rx.failed /\ Flow(f.rx, f.kernel) = Flow(rx, kernel)
  BY <1>1, <1>2, FillEffect
<1> DEFINE n == LeastOf(Held(f.rx), call.left)
           c == Copied(f.rx, n)
           r == Advanced(f.rx, n)
           out == call.out \o c
<1>4. n \in 0..Held(f.rx) /\ n \in Nat /\ call.left - n \in Nat
  <2>1. Held(f.rx) \in Nat
    BY <1>3, FlowTyped
  <2> QED
    BY <1>1, <2>1 DEF LeastOf
<1>5. CASE f.n = 0
  <2>1. Return(f.rx, call.out)
    BY <1>2, <1>5
  <2> QED
    BY <1>1, <1>3, <2>1, ReturnKeeps DEF HandsOver
<1>6. CASE f.n # 0 /\ n = call.left
  <2>1. Return(r, out)
    BY <1>2, <1>6
  <2> HIDE DEF n
  <2>2. /\ RxOK(r) /\ c \in Seq(Byte) /\ r.failed = f.rx.failed
        /\ c \o Flow(r, f.kernel) = Flow(f.rx, f.kernel) /\ Flow(r, f.kernel) \in Seq(Byte)
    BY <1>3, <1>4, CopyMoves, FlowTyped
  <2> HIDE DEF c, r
  <2>3. out \in Seq(Byte) /\ out \o Flow(r, f.kernel) = call.out \o (c \o Flow(r, f.kernel))
    <3> DEFINE o == call.out
               w == Flow(r, f.kernel)
    <3>1. o \in Seq(Byte) /\ c \in Seq(Byte) /\ w \in Seq(Byte)
      BY <1>1, <2>2
    <3> HIDE DEF o, w
    <3>2. (o \o c) \o w = o \o (c \o w) /\ o \o c \in Seq(Byte)
      BY <3>1, Concat3
    <3> QED
      BY <3>2 DEF o, w
  <2> HIDE DEF out
  <2> QED
    BY <1>1, <1>3, <2>1, <2>2, <2>3, ReturnKeeps DEF HandsOver
<1>7. CASE f.n # 0 /\ n # call.left
  <2>1. /\ call' = [call EXCEPT !.left = call.left - n, !.out = out]
        /\ rx' = r /\ UNCHANGED <<open, got>>
    BY <1>1, <1>2, <1>7 DEF CallType
  <2>2. c \in Seq(Byte) /\ out \in Seq(Byte)
    <3> HIDE DEF n
    <3>1. c \in Seq(Byte)
      BY <1>3, <1>4, CopyMoves
    <3> HIDE DEF c
    <3> QED
      BY <1>1, <3>1, Concat3
  <2>3. call' \in CallType /\ call'.op = "slow" /\ call'.out = out
    <3> DEFINE l == call.left - n
    <3>1. l \in Nat /\ call' = [call EXCEPT !.left = l, !.out = out]
      BY <1>4, <2>1
    <3> HIDE DEF n, c, out, l
    <3> QED
      BY <1>1, <2>2, <3>1 DEF CallType
  <2> HIDE DEF n
  <2> QED
    BY <1>1, <1>3, <1>4, <2>1, <2>3, SlowGoesOn
<1> QED
  BY <1>5, <1>6, <1>7

\* peek() may refill the buffer, and takes nothing.
LEMMA PeekKeeps ==
    ASSUME Inv, Peek
    PROVE  Inv'
<1>1. /\ TypeOK /\ RxOK(rx) /\ kernel \in Seq(Byte) /\ call \in CallType /\ got \in Seq(Byte)
      /\ call = NoCall /\ open /\ NoCall.op = "none" /\ NoCall.out = <<>>
      /\ UNCHANGED <<sent, peer, call, got, thrown>> /\ open \in BOOLEAN
  BY TypeParts DEF Inv, Peek, NoCall
<1>2. CASE Held(rx) > 0
  <2>1. UNCHANGED <<rx, kernel, open>>
    BY <1>2 DEF Peek
  <2>2. All' = All
    BY <1>1, <2>1 DEF All, Flow
  <2> QED
    BY <1>1, <2>1, <2>2, MoveKeeps
<1>3. CASE ~(Held(rx) > 0)
  <2>1. PICK f \in Fill : kernel' = f.kernel /\ rx' = f.rx /\ open' = ~f.rx.failed
    BY <1>3 DEF Peek
  <2>2. /\ RxOK(f.rx) /\ f.kernel \in Seq(Byte)
        /\ ~f.rx.failed => ~rx.failed /\ Flow(f.rx, f.kernel) = Flow(rx, kernel)
    BY <1>1, FillEffect
  <2>3. ~f.rx.failed => ~rx.failed /\ All' = All
    BY <1>1, <2>1, <2>2 DEF All, Flow
  <2>4. open' \in BOOLEAN
    BY <2>1
  <2> QED
    BY <1>1, <2>1, <2>2, <2>3, <2>4, MoveKeeps
<1> QED
  BY <1>2, <1>3

\* flush() begins, the client stops, the peer closes or resets.
LEMMA QuietKeeps ==
    ASSUME Inv, Flush \/ Stop \/ PeerEnds \/ FlushSpins \/ UNCHANGED vars
    PROVE  Inv'
<1>1. /\ TypeOK /\ RxOK(rx) /\ kernel \in Seq(Byte) /\ call \in CallType /\ got \in Seq(Byte)
      /\ NoCall.op = "none" /\ NoCall.out = <<>> /\ open \in BOOLEAN
  BY TypeParts DEF Inv, NoCall
<1>2. CASE Flush
  <2>1. /\ call' = [NoCall EXCEPT !.op = "flush", !.left = Available] /\ call = NoCall /\ open
        /\ UNCHANGED <<sent, peer, kernel, rx, open, got, thrown>>
    BY <1>2 DEF Flush
  <2>2. Available \in Nat
    <3>1. Held(rx) \in Nat /\ Len(kernel) \in Nat
      BY <1>1, FlowTyped, LenProperties
    <3> QED
      BY <3>1 DEF Available
  <2>3. call' \in CallType /\ call'.op = "flush" /\ call'.out = <<>>
    <3> DEFINE l == Available
    <3> HIDE DEF l
    <3>1. l \in Nat /\ call' = [call EXCEPT !.op = "flush", !.left = l]
      BY <2>1, <2>2 DEF l
    <3> QED
      BY <1>1, <2>1, <3>1 DEF CallType
  <2>4. All' = All
    BY <1>1, <2>1, <2>3 DEF All, Flow
  <2> QED
    BY <1>1, <2>1, <2>3, <2>4, MoveKeeps
<1>3. CASE Stop
  <2>1. /\ ~open' /\ open' \in BOOLEAN /\ call = NoCall
        /\ UNCHANGED <<sent, peer, kernel, rx, call, got, thrown>>
    BY <1>3 DEF Stop
  <2> QED
    BY <1>1, <2>1, MoveKeeps
<1>4. CASE PeerEnds
  <2>1. /\ peer' \in {"open", "fin", "reset"}
        /\ UNCHANGED <<sent, kernel, rx, open, call, got, thrown>>
    BY <1>4 DEF PeerEnds
  <2> QED
    BY <2>1 DEF Inv, TypeOK, All, Flow
<1>5. CASE FlushSpins \/ UNCHANGED vars
  <2>1. UNCHANGED vars
    BY <1>5 DEF FlushSpins
  <2> QED
    BY <2>1 DEF vars, Inv, TypeOK, All, Flow
<1> QED
  BY <1>2, <1>3, <1>4, <1>5

\* A byte the peer sends is younger than all before it.
LEMMA PeerSendKeeps ==
    ASSUME Inv, PeerSend
    PROVE  Inv'
<1> DEFINE x == sent + 1
           b == <<x>>
           m == Rest(rx.buf, rx.pos)
           g == got \o call.out
<1>1. /\ TypeOK /\ RxOK(rx) /\ kernel \in Seq(Byte) /\ sent \in Nat /\ Bytes \in Nat
      /\ sent < Bytes /\ sent' = x /\ kernel' = Append(kernel, x)
      /\ UNCHANGED <<peer, rx, open, call, got, thrown>> /\ thrown \subseteq Byte
  BY TypeParts, RxAssumption DEF Inv, PeerSend
<1>2. x \in Byte /\ x \in 0..Bytes /\ b \in Seq(Byte) /\ Len(b) = 1 /\ b[1] = x
  BY <1>1 DEF Byte
<1>3. kernel' = kernel \o b /\ kernel' \in Seq(Byte)
  BY <1>1, <1>2, AppendIsConcat, AppendProperties
<1>4. All \in Seq(Byte) /\ g \in Seq(Byte) /\ m \in Seq(Byte)
  BY <1>1, AllTyped, FlowTyped
<1>5. All' = All \o b
  <2>1. All' = g \o (m \o (kernel \o b)) /\ All = g \o (m \o kernel)
    BY <1>1, <1>3 DEF All, Flow
  <2> HIDE DEF b, g, m
  <2>2. m \o (kernel \o b) = (m \o kernel) \o b /\ m \o kernel \in Seq(Byte)
    <3>1. m \in Seq(Byte) /\ kernel \in Seq(Byte) /\ b \in Seq(Byte)
      BY <1>1, <1>2, <1>4
    <3> QED
      BY <3>1, Concat3
  <2>3. g \o ((m \o kernel) \o b) = (g \o (m \o kernel)) \o b
    <3> DEFINE w == m \o kernel
    <3>1. g \in Seq(Byte) /\ w \in Seq(Byte) /\ b \in Seq(Byte)
      BY <1>2, <1>4, <2>2
    <3> HIDE DEF w
    <3>2. g \o (w \o b) = (g \o w) \o b
      BY <3>1, Concat3
    <3> QED
      BY <3>2 DEF w
  <2> QED
    BY <2>1, <2>2, <2>3
<1>6. TypeOK'
  BY <1>1, <1>2, <1>3 DEF TypeOK
<1>7. ASSUME open', ~rx'.failed
      PROVE  Ordered(All') /\ BytesOf(All') = 1..sent' \ thrown' /\ thrown' \subseteq 1..sent'
  <2>1. Ordered(All) /\ BytesOf(All) = 1..sent \ thrown /\ thrown \subseteq 1..sent
    BY <1>1, <1>7 DEF Inv
  <2>2. Ordered(b) /\ BytesOf(b) = {x}
    BY <1>2 DEF Ordered, BytesOf
  <2> HIDE DEF b
  <2>3. \A y \in 1..sent \ thrown : y < x
    BY <1>1
  <2>4. \A y \in BytesOf(All), z \in BytesOf(b) : y < z
    BY <2>1, <2>2, <2>3
  <2>5. Ordered(All') /\ BytesOf(All') = BytesOf(All) \cup {x}
    BY <1>2, <1>4, <1>5, <2>1, <2>2, <2>4, OrderOfConcat
  <2>6. 1..x = (1..sent) \cup {x} /\ x \notin 1..sent
    BY <1>1
  <2> QED
    BY <1>1, <2>1, <2>5, <2>6
<1>8. (call.op # "slow" => call.out = <<>>) /\ (call.op # "none" => open)
  BY DEF Inv
<1> QED
  BY <1>1, <1>6, <1>7, <1>8 DEF Inv

\* What flush() receives and drops was at the front of the socket.
LEMMA FlushRecvKeeps ==
    ASSUME Inv, FlushRecv
    PROVE  Inv'
<1>1. /\ TypeOK /\ RxOK(rx) /\ kernel \in Seq(Byte) /\ call \in CallType /\ got \in Seq(Byte)
      /\ call.op = "flush" /\ call.out = <<>> /\ open /\ thrown \subseteq Byte
      /\ UNCHANGED <<sent, peer, rx, got>> /\ Len(kernel) \in Nat /\ call.left \in Nat
      /\ open \in BOOLEAN /\ sent \in Nat
  <2>1. call.op = "flush" /\ UNCHANGED <<sent, peer, rx, got>>
    BY DEF FlushRecv
  <2>2. TypeOK /\ call.out = <<>> /\ open
    BY <2>1 DEF Inv
  <2>3. /\ RxOK(rx) /\ kernel \in Seq(Byte) /\ call \in CallType /\ got \in Seq(Byte)
        /\ thrown \subseteq Byte /\ open \in BOOLEAN /\ sent \in 0..Bytes
    BY <2>2, TypeParts
  <2>4. Len(kernel) \in Nat /\ call.left \in Nat /\ sent \in Nat
    BY <2>3, LenProperties, RxAssumption DEF CallType
  <2> QED
    BY <2>1, <2>2, <2>3, <2>4
<1>2. NoCall \in CallType /\ NoCall.op = "none" /\ NoCall.out = <<>> /\ <<>> \in Seq(Byte)
  BY DEF NoCall, CallType
<1>3. CASE open' = FALSE /\ call' = NoCall /\ kernel' = <<>> /\ UNCHANGED thrown
  BY <1>1, <1>2, <1>3, MoveKeeps
<1>4. ASSUME NEW n \in 1..LeastOf(Len(kernel), LeastOf(call.left, Chunk)),
             kernel' = Rest(kernel, n),
             thrown' = thrown \cup BytesOf(First(kernel, n)),
             call' = (IF n = call.left THEN NoCall ELSE [call EXCEPT !.left = call.left - n]),
             UNCHANGED open
      PROVE  Inv'
  <2> DEFINE f == First(kernel, n)
             r == Rest(kernel, n)
             m == Rest(rx.buf, rx.pos)
             g == got \o call.out
  <2>1. n \in 0..Len(kernel) /\ n \in Nat /\ call.left - n \in Nat
    BY <1>1, <1>4, RxAssumption DEF LeastOf
  <2>2. f \in Seq(Byte) /\ r \in Seq(Byte) /\ f \o r = kernel
    BY <1>1, <2>1, Cut
  <2>3. call' \in CallType /\ call'.out = <<>>
    <3> DEFINE l == call.left - n
    <3> HIDE DEF l
    <3>1. l \in Nat /\ (call' = NoCall \/ call' = [call EXCEPT !.left = l])
      BY <1>4, <2>1 DEF l
    <3>2. CASE call' = NoCall
      BY <1>2, <3>2
    <3>3. CASE call' = [call EXCEPT !.left = l]
      BY <1>1, <3>1, <3>3 DEF CallType
    <3> QED
      BY <3>1, <3>2, <3>3
  <2>4. All \in Seq(Byte) /\ g \in Seq(Byte) /\ m \in Seq(Byte)
    BY <1>1, AllTyped, FlowTyped
  <2>5. BytesOf(f) \subseteq Byte
    BY <2>2, LenProperties DEF BytesOf
  <2>6. TypeOK'
    <3>1. thrown' \subseteq Byte
      BY <1>1, <1>4, <2>5
    <3> QED
      BY <1>1, <1>4, <2>2, <2>3, <3>1 DEF TypeOK, CallType
  <2>7. ASSUME open', ~rx'.failed
        PROVE  /\ Ordered(All') /\ BytesOf(All') = 1..sent' \ thrown'
               /\ thrown' \subseteq 1..sent'
    <3> DEFINE h == g \o m
    <3>1. Ordered(All) /\ BytesOf(All) = 1..sent \ thrown /\ thrown \subseteq 1..sent
      BY <1>1, <1>4, <2>7 DEF Inv
    <3>2. All' = g \o (m \o r) /\ All = g \o (m \o (f \o r))
      BY <1>1, <1>4, <2>2, <2>3 DEF All, Flow
    <3>3. thrown' = thrown \cup BytesOf(f) /\ sent' = sent
      BY <1>1, <1>4
    <3> HIDE DEF f, r, m, g
    <3>4. h \in Seq(Byte) /\ f \o r \in Seq(Byte) /\ h \o r \in Seq(Byte)
      BY <2>2, <2>4, Concat3
    <3>5. All' = h \o r
      <4>1. g \in Seq(Byte) /\ m \in Seq(Byte) /\ r \in Seq(Byte)
        BY <2>2, <2>4
      <4>2. (g \o m) \o r = g \o (m \o r)
        BY <4>1, Concat3
      <4> QED
        BY <3>2, <4>2
    <3>6. All = h \o (f \o r)
      <4> DEFINE w == f \o r
      <4>1. g \in Seq(Byte) /\ m \in Seq(Byte) /\ w \in Seq(Byte)
        BY <2>4, <3>4
      <4> HIDE DEF w
      <4>2. (g \o m) \o w = g \o (m \o w)
        BY <4>1, Concat3
      <4> QED
        BY <3>2, <4>2 DEF w
    <3> HIDE DEF h
    <3>7. /\ Ordered(h) /\ Ordered(f \o r) /\ BytesOf(All) = BytesOf(h) \cup BytesOf(f \o r)
          /\ \A x \in BytesOf(h), y \in BytesOf(f \o r) : x < y
      BY <3>1, <3>4, <3>6, OrderOfConcat
    <3>8. /\ Ordered(r) /\ BytesOf(f \o r) = BytesOf(f) \cup BytesOf(r)
          /\ \A x \in BytesOf(f), y \in BytesOf(r) : x < y
      BY <2>2, <3>7, OrderOfConcat
    <3>9. Ordered(All') /\ BytesOf(All') = BytesOf(h) \cup BytesOf(r)
      BY <2>2, <3>4, <3>5, <3>7, <3>8, OrderOfConcat
    <3>10. \A x \in BytesOf(f) : x \in Nat /\ x \notin BytesOf(h) /\ x \notin BytesOf(r)
      <4>1. \A x \in BytesOf(f) : x \in Nat /\ ~(x < x)
        BY <2>5 DEF Byte
      <4> QED
        BY <3>7, <3>8, <4>1
    <3>11. /\ BytesOf(All') = BytesOf(All) \ BytesOf(f)
           /\ BytesOf(f) \subseteq BytesOf(All)
      BY <3>7, <3>8, <3>9, <3>10
    <3> QED
      BY <3>1, <3>3, <3>9, <3>11
  <2> QED
    BY <1>1, <1>4, <2>3, <2>6, <2>7 DEF Inv
<1> QED
  BY <1>3, <1>4 DEF FlushRecv

(***************************************************************************)
(* What a sketch may rely on.                                              *)
(***************************************************************************)
LEMMA InitInv == Init => Inv
<1> SUFFICES ASSUME Init PROVE Inv
  OBVIOUS
<1>1. /\ sent = 0 /\ peer = "open" /\ kernel = <<>> /\ open = TRUE /\ call = NoCall
      /\ got = <<>> /\ thrown = {} /\ NoCall.out = <<>> /\ NoCall.op = "none"
      /\ rx = [buf |-> <<>>, pos |-> 0, allocated |-> FALSE, failed |-> FALSE]
      /\ <<>> \in Seq(Byte) /\ Len(<<>>) = 0 /\ Bytes \in Nat /\ Size \in Nat
  BY RxAssumption DEF Init, NoCall
<1>2. RxOK(rx) /\ rx.buf = <<>> /\ rx.pos = 0
  BY <1>1 DEF RxOK, RxType
<1>3. NoCall \in CallType
  BY <1>1 DEF NoCall, CallType
<1>4. TypeOK
  BY <1>1, <1>2, <1>3, TypeParts
<1>5. All = <<>>
  <2>1. Rest(<<>>, 0) = <<>>
    BY <1>1, SubSeqEmpty DEF Rest
  <2>2. <<>> \o <<>> = <<>>
    BY <1>1, ConcatEmptySeq
  <2> QED
    BY <1>1, <1>2, <2>1, <2>2 DEF All, Flow
<1>6. Ordered(<<>>) /\ BytesOf(<<>>) = {} /\ 1..0 = {}
  BY <1>1 DEF Ordered, BytesOf
<1> QED
  BY <1>1, <1>4, <1>5, <1>6 DEF Inv

\* Every step of a call and of the peer keeps the invariant.
LEMMA NextInv == Inv /\ [Next]_vars => Inv'
<1> SUFFICES ASSUME Inv, [Next]_vars PROVE Inv'
  OBVIOUS
<1>1. CASE \E len \in Lengths : Read(len)
  BY <1>1, ReadKeeps
<1>2. CASE ReadFast
  BY <1>2, ReadFastKeeps
<1>3. CASE ReadSlow
  BY <1>3, ReadSlowKeeps
<1>4. CASE Peek
  BY <1>4, PeekKeeps
<1>5. CASE FlushRecv
  BY <1>5, FlushRecvKeeps
<1>6. CASE PeerSend
  BY <1>6, PeerSendKeeps
<1>7. CASE Flush \/ Stop \/ PeerEnds \/ FlushSpins \/ UNCHANGED vars
  BY <1>7, QuietKeeps
<1> QED
  BY <1>1, <1>2, <1>3, <1>4, <1>5, <1>6, <1>7 DEF Next, Peer, Sketch, Running

\* Reading, being copied, buffered and received bytes are in the order of the
\* sender, none missing and none twice, and the buffer never overflows.
THEOREM RxInvariant == Spec => []Inv
BY InitInv, NextInv, PTL DEF Spec

\* Every byte the peer sent is in exactly one place, in the order it was sent,
\* while no socket call failed: read(), peek() and flush() over refills of any
\* size neither repeat, lose nor reorder one.
THEOREM NoByteLost == Spec => []StreamKept
<1>1. Inv => StreamKept
  <2> SUFFICES ASSUME Inv, open, ~rx.failed
               PROVE  /\ Increasing(All)
                      /\ BytesOf(All) = 1..sent \ thrown
                      /\ Len(All) = Cardinality(1..sent \ thrown)
    BY DEF StreamKept, All, Flow, Unread
  <2>1. Ordered(All) /\ BytesOf(All) = 1..sent \ thrown /\ All \in Seq(Byte)
    BY AllTyped DEF Inv
  <2> DEFINE a == All
             L == Len(a)
  <2>2. L \in Nat /\ a \in [1..L -> Byte]
    BY <2>1, LenProperties
  <2> HIDE DEF a
  <2>3. \A i, j \in 1..L : i < j => a[i] < a[j]
    BY <2>1 DEF Ordered, a
  <2>4. Increasing(a)
    <3>1. \A i \in 1..L - 1 : i \in 1..L /\ i + 1 \in 1..L /\ i < i + 1
      BY <2>2
    <3> QED
      BY <2>3, <3>1 DEF Increasing
  <2>5. a \in Bijection(1..L, BytesOf(a))
    <3>1. \A i, j \in 1..L : a[i] = a[j] => i = j
      <4> SUFFICES ASSUME NEW i \in 1..L, NEW j \in 1..L, i # j PROVE a[i] # a[j]
        OBVIOUS
      <4>1. a[i] < a[j] \/ a[j] < a[i]
        BY <2>2, <2>3
      <4>2. a[i] \in Nat /\ a[j] \in Nat
        BY <2>2 DEF Byte
      <4> QED
        BY <4>1, <4>2
    <3>2. a \in [1..L -> BytesOf(a)]
      BY <2>2 DEF BytesOf
    <3>3. \A x \in BytesOf(a) : \E i \in 1..L : a[i] = x
      BY DEF BytesOf
    <3> QED
      BY <3>1, <3>2, <3>3 DEF Bijection, Injection, Surjection, IsInjective
  <2>6. Cardinality(BytesOf(a)) = L
    BY <2>2, <2>5, FS_CountingElements DEF ExistsBijection
  <2> QED
    BY <2>1, <2>4, <2>6 DEF a
<1> QED
  BY <1>1, RxInvariant, PTL

\* If available() counts a byte, the buffer holds one or fillBuffer brings one:
\* a buffer that was read to its end is rewound, so it never has no room.
THEOREM NoByteStuck == Spec => []AvailableIsReadable
<1>1. Inv => AvailableIsReadable
  <2> SUFFICES ASSUME Inv, Available > 0, ~(Held(rx) > 0), NEW f \in Fill
               PROVE  f.n > 0 \/ f.rx.failed
    BY DEF AvailableIsReadable
  <2> DEFINE r == [Rewound(rx) EXCEPT !.allocated = TRUE]
             most == LeastOf(Len(kernel), RoomIn(r))
  <2>1. /\ RxOK(rx) /\ kernel \in Seq(Byte) /\ TypeOK
    BY TypeParts DEF Inv
  <2>2. Held(rx) = 0 /\ Len(kernel) \in Nat /\ Len(kernel) # 0
    <3>1. Held(rx) \in Nat /\ Len(kernel) \in Nat
      BY <2>1, FlowTyped, LenProperties
    <3> QED
      BY <3>1 DEF Available
  <2>3. RxOK(r) /\ r.buf = <<>>
    BY <2>1, <2>2, RewoundEffect
  <2> HIDE DEF r
  <2>4. RoomIn(r) # 0
    BY <2>3, RxAssumption DEF RoomIn
  <2>5. \/ f = Outcome([rx EXCEPT !.failed = TRUE], kernel, 0)
        \/ f = Outcome([r EXCEPT !.failed = TRUE], kernel, 0)
        \/ f = Outcome([r EXCEPT !.failed = TRUE], <<>>, 0)
        \/ \E n \in 1..most :
              f = Outcome([r EXCEPT !.buf = @ \o First(kernel, n)], Rest(kernel, n), n)
    BY <2>2, <2>4 DEF Fill, r
  <2>6. [rx EXCEPT !.failed = TRUE].failed /\ [r EXCEPT !.failed = TRUE].failed
    BY <2>1, <2>3 DEF RxOK, RxType
  <2>7. \A n \in 1..most : n > 0
    BY <2>2
  <2> DEFINE a == [rx EXCEPT !.failed = TRUE]
             b == [r EXCEPT !.failed = TRUE]
  <2> HIDE DEF a, b, most
  <2>8. CASE f = Outcome(a, kernel, 0)
    BY <2>6, <2>8 DEF Outcome, a
  <2>9. ASSUME NEW k, f = Outcome(b, k, 0)
        PROVE  f.rx.failed
    BY <2>6, <2>9 DEF Outcome, b
  <2>10. ASSUME NEW n \in 1..most,
                f = Outcome([r EXCEPT !.buf = @ \o First(kernel, n)], Rest(kernel, n), n)
         PROVE  f.n > 0
    BY <2>7, <2>10 DEF Outcome
  <2> QED
    BY <2>5, <2>8, <2>9, <2>10 DEF a, b
<1> QED
  BY <1>1, RxInvariant, PTL
===============================================================================
