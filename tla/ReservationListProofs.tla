------------------------ MODULE ReservationListProofs ------------------------
(***************************************************************************)
(* The pointers of aws_server.c form a list, whatever commands run and in  *)
(* whatever order, and that list is the queue of ReservationQueue.         *)
(***************************************************************************)
EXTENDS ReservationListProperties, SequenceTheorems, WellFoundedInduction, TLAPS

Node == [user: Text, start: Text, end: Text, next: Nat \cup {NULL}]

\* Path and Listed of any head and any cells.
PathOf(h, cs) ==
    LET follow[k \in 0 .. Len(cs)] ==
            IF k = 0 THEN h
            ELSE IF follow[k - 1] = NULL THEN NULL
            ELSE cs[follow[k - 1]].next
    IN  follow

ListOf(p, cs) ==
    LET size == CHOOSE k \in 0 .. Len(cs) :
                    p[k] = NULL /\ \A j \in 0 .. k - 1 : p[j] # NULL
    IN  [ k \in 1 .. size |->
            [ user  |-> cs[p[k - 1]].user,
              start |-> cs[p[k - 1]].start,
              end   |-> cs[p[k - 1]].end ] ]

\* p visits n cells, each younger than the one before, and ends.
IsChain(p, n, h, cs) ==
    /\ n \in 0 .. Len(cs) /\ p \in [0 .. n -> 1 .. Len(cs) \cup {NULL}]
    /\ p[0] = h /\ p[n] = NULL
    /\ \A k \in 0 .. n - 1 : p[k] \in 1 .. Len(cs) /\ p[k + 1] = cs[p[k]].next
    /\ \A j, k \in 0 .. n - 1 : j < k => p[j] < p[k]

\* The list holds a reservation from the first one on, until the process ends.
ListInv ==
    /\ TypeOK
    /\ ~allocated => cells = <<>> /\ head = NULL
    /\ \E n \in 0 .. Len(cells) : \E p \in [0 .. n -> 1 .. Len(cells) \cup {NULL}] :
          IsChain(p, n, head, cells)
    /\ running /\ allocated => head # NULL /\ USER = cells[head].user /\ LOCKED = 1

\* A set of natural numbers that is not empty has a least element.
LEMMA NatHasLeast ==
    ASSUME NEW T \in SUBSET Nat, T # {}
    PROVE  \E x \in T : \A y \in T : x <= y
<1>1. PICK x \in T : \A y \in T : ~ (<<y, x>> \in OpToRel(<, Nat))
  BY NatLessThanWellFounded, WFMin
<1>2. \A y \in T : ~(y < x)
  BY <1>1 DEF OpToRel
<1> QED
  BY <1>2

\* Following the pointers visits the chain and stays at its end.
LEMMA PathOfChain ==
    ASSUME NEW h, NEW n, NEW p, NEW cs \in Seq(Node), IsChain(p, n, h, cs)
    PROVE  \A k \in 0 .. Len(cs) : PathOf(h, cs)[k] = IF k <= n THEN p[k] ELSE NULL
<1> DEFINE Rule(f) == [k \in 0 .. Len(cs) |->
                          IF k = 0 THEN h
                          ELSE IF f[k - 1] = NULL THEN NULL
                          ELSE cs[f[k - 1]].next]
           g == [k \in 0 .. Len(cs) |-> IF k <= n THEN p[k] ELSE NULL]
           path == PathOf(h, cs)
<1>1. Len(cs) \in Nat /\ n \in 0 .. Len(cs) /\ NULL \notin Nat
  BY LenProperties, ListAssumption DEF IsChain
<1>2. g = Rule(g)
  <2> SUFFICES ASSUME NEW k \in 0 .. Len(cs) PROVE g[k] = Rule(g)[k]
    OBVIOUS
  <2>1. CASE k = 0
    BY <1>1, <2>1 DEF IsChain
  <2>2. CASE k > 0 /\ k <= n
    <3>1. k - 1 \in 0 .. n - 1 /\ k - 1 \in 0 .. Len(cs) /\ (k - 1) + 1 = k
      BY <1>1, <2>2
    <3>2. g[k - 1] = p[k - 1] /\ g[k] = p[k] /\ p[k - 1] # NULL
      BY <1>1, <2>2, <3>1 DEF IsChain
    <3>3. p[k] = cs[p[k - 1]].next
      BY <3>1 DEF IsChain
    <3> QED
      BY <1>1, <2>2, <3>2, <3>3
  <2>3. CASE k > n
    <3>1. k - 1 \in 0 .. Len(cs) /\ k # 0
      BY <1>1, <2>3
    <3>2. g[k - 1] = NULL
      BY <1>1, <2>3, <3>1 DEF IsChain
    <3> QED
      BY <1>1, <2>3, <3>1, <3>2
  <2> QED
    BY <1>1, <2>1, <2>2, <2>3
<1>3. path = CHOOSE f : f = Rule(f)
  BY DEF PathOf
<1> HIDE DEF g, path
<1>4. path = Rule(path)
  BY <1>2, <1>3
<1>5. \A k \in 0 .. Len(cs) : path[k] = g[k]
  <2> DEFINE T == {k \in 0 .. Len(cs) : path[k] # g[k]}
  <2> SUFFICES ASSUME T # {} PROVE FALSE
    OBVIOUS
  <2>1. PICK m \in T : \A y \in T : m <= y
    <3>1. T \in SUBSET Nat
      BY <1>1
    <3> QED
      BY <3>1, NatHasLeast
  <2>2. m # 0
    BY <1>2, <1>4
  <2>3. m - 1 \in 0 .. Len(cs) /\ m - 1 \notin T
    BY <1>1, <2>1, <2>2
  <2> QED
    BY <1>2, <1>4, <2>1, <2>2, <2>3
<1> QED
  BY <1>5 DEF g, path

\* The list that print_reservations would walk.
LEMMA ListOfChain ==
    ASSUME NEW h, NEW n, NEW p, NEW cs \in Seq(Node), IsChain(p, n, h, cs)
    PROVE  ListOf(PathOf(h, cs), cs) =
              [ k \in 1 .. n |-> [ user  |-> cs[p[k - 1]].user,
                                   start |-> cs[p[k - 1]].start,
                                   end   |-> cs[p[k - 1]].end ] ]
<1> DEFINE q == PathOf(h, cs)
<1>1. \A k \in 0 .. Len(cs) : q[k] = IF k <= n THEN p[k] ELSE NULL
  BY PathOfChain
<1>2. Len(cs) \in Nat /\ n \in 0 .. Len(cs) /\ NULL \notin Nat
  BY LenProperties, ListAssumption DEF IsChain
<1>3. p[n] = NULL /\ \A k \in 0 .. n - 1 : p[k] # NULL
  BY <1>2 DEF IsChain
<1> HIDE DEF q
<1> DEFINE size == CHOOSE k \in 0 .. Len(cs) :
                     q[k] = NULL /\ \A j \in 0 .. k - 1 : q[j] # NULL
<1>4. q[n] = NULL /\ \A j \in 0 .. n - 1 : q[j] # NULL
  BY <1>1, <1>2, <1>3
<1>5. \A k \in 0 .. Len(cs) :
         q[k] = NULL /\ (\A j \in 0 .. k - 1 : q[j] # NULL) => k = n
  BY <1>2, <1>4
<1>6. size = n
  BY <1>2, <1>4, <1>5
<1>7. \A k \in 1 .. n : q[k - 1] = p[k - 1]
  BY <1>1, <1>2
<1> QED
  BY <1>6, <1>7 DEF ListOf, q

Reservations(p, n, cs) ==
    [ k \in 1 .. n |-> [ user  |-> cs[p[k - 1]].user,
                         start |-> cs[p[k - 1]].start,
                         end   |-> cs[p[k - 1]].end ] ]

\* What the variables show of a chain.
LEMMA ListedIs ==
    ASSUME TypeOK, NEW n, NEW p, IsChain(p, n, head, cells)
    PROVE  /\ cells \in Seq(Node) /\ Len(cells) \in Nat
           /\ Linked = {p[k] : k \in 0 .. n - 1}
           /\ Listed = Reservations(p, n, cells)
           /\ \A k \in 0 .. Len(cells) : Path[k] = IF k <= n THEN p[k] ELSE NULL
<1>1. cells \in Seq(Node) /\ Len(cells) \in Nat
  <2>1. cells \in Seq([user: Text, start: Text, end: Text, next: Pointer])
    BY DEF TypeOK
  <2>2. Len(cells) \in Nat
    BY <2>1, LenProperties
  <2>3. [user: Text, start: Text, end: Text, next: Pointer] \subseteq Node
    BY <2>2 DEF Node, Pointer, Cell
  <2> QED
    BY <2>1, <2>2, <2>3, SeqMonotonic
<1>2. Path = PathOf(head, cells)
  BY DEF Path, PathOf
<1>3. \A k \in 0 .. Len(cells) : Path[k] = IF k <= n THEN p[k] ELSE NULL
  BY <1>1, <1>2, PathOfChain
<1>4. Listed = ListOf(Path, cells)
  BY DEF Listed, ListOf
<1>5. Listed = Reservations(p, n, cells)
  BY <1>1, <1>2, <1>4, ListOfChain DEF Reservations
<1>6. Linked = {p[k] : k \in 0 .. n - 1}
  <2>1. /\ n \in 0 .. Len(cells) /\ p[n] = NULL /\ NULL \notin Nat
        /\ \A k \in 0 .. n - 1 : p[k] \in 1 .. Len(cells)
    BY ListAssumption DEF IsChain
  <2>2. \A k \in 0 .. n - 1 : k \in 0 .. Len(cells) /\ Path[k] = p[k] /\ p[k] # NULL
    BY <1>1, <1>3, <2>1
  <2>3. \A k \in 0 .. Len(cells) : Path[k] # NULL => k \in 0 .. n - 1 /\ Path[k] = p[k]
    BY <1>1, <1>3, <2>1
  <2> QED
    BY <2>2, <2>3 DEF Linked
<1> QED
  BY <1>1, <1>3, <1>5, <1>6

\* What a chain is made of.
LEMMA ChainParts ==
    ASSUME NEW h, NEW n, NEW p, NEW cs \in Seq(Node), IsChain(p, n, h, cs)
    PROVE  /\ Len(cs) \in Nat /\ n \in Nat /\ n <= Len(cs) /\ NULL \notin Nat
           /\ \A k \in 0 .. n : p[k] \in Nat \cup {NULL}
           /\ \A k \in 0 .. n - 1 : /\ p[k] \in 1 .. Len(cs) /\ p[k] \in Nat /\ p[k] # NULL
                                    /\ p[k + 1] = cs[p[k]].next
           /\ p[0] = h /\ p[n] = NULL
           /\ \A j, k \in 0 .. n - 1 : j # k => p[j] # p[k]
<1>1. Len(cs) \in Nat /\ NULL \notin Nat
  BY LenProperties, ListAssumption
<1>2. n \in Nat /\ n <= Len(cs) /\ p[0] = h /\ p[n] = NULL
  BY <1>1 DEF IsChain
<1>3. \A k \in 0 .. n - 1 : /\ p[k] \in 1 .. Len(cs) /\ p[k] \in Nat /\ p[k] # NULL
                            /\ p[k + 1] = cs[p[k]].next
  BY <1>1 DEF IsChain
<1>4. \A k \in 0 .. n : p[k] \in Nat \cup {NULL}
  BY <1>2, <1>3
<1>5. \A j, k \in 0 .. n - 1 : j # k => p[j] # p[k]
  <2> SUFFICES ASSUME NEW j \in 0 .. n - 1, NEW k \in 0 .. n - 1, j # k PROVE p[j] # p[k]
    OBVIOUS
  <2>1. j < k \/ k < j
    BY <1>2
  <2>2. \A a, b \in 0 .. n - 1 : a < b => p[a] < p[b]
    BY DEF IsChain
  <2> QED
    BY <1>3, <2>1, <2>2
<1> QED
  BY <1>1, <1>2, <1>3, <1>4, <1>5

\* The reservations along a chain are as many as its cells.
LEMMA ReservationsAreSeq ==
    ASSUME NEW h, NEW n, NEW p, NEW cs \in Seq(Node), IsChain(p, n, h, cs)
    PROVE  /\ Reservations(p, n, cs) \in Seq(Queue!Reservation)
           /\ Len(Reservations(p, n, cs)) = n
           /\ \A k \in 0 .. n - 1 : cs[p[k]] \in Node
<1>1. /\ n \in Nat /\ \A k \in 0 .. n - 1 : p[k] \in 1 .. Len(cs)
  BY ChainParts
<1>2. \A k \in 0 .. n - 1 : cs[p[k]] \in Node
  BY <1>1, ElementOfSeq
<1>3. \A k \in 1 .. n : k - 1 \in 0 .. n - 1
  BY <1>1
<1>4. \A k \in 1 .. n : Reservations(p, n, cs)[k] \in Queue!Reservation
  BY <1>2, <1>3 DEF Reservations, Node, Queue!Reservation
<1> QED
  BY <1>1, <1>2, <1>4 DEF Reservations

\* The chain, the cells and the reservation after cell r was appended.
Longer(p, n, L) ==
    [k \in 0 .. n + 1 |-> IF k < n THEN p[k] ELSE IF k = n THEN L + 1 ELSE NULL]

Extended(cs, last, r) == Append([cs EXCEPT ![last].next = Len(cs) + 1], r)

Entry(r) == [user |-> r.user, start |-> r.start, end |-> r.end]

\* A new cell at the end.
LEMMA ChainGrows ==
    ASSUME NEW h, NEW n, NEW p, NEW cs \in Seq(Node), IsChain(p, n, h, cs), n > 0,
           NEW r \in Node, r.next = NULL
    PROVE  /\ IsChain(Longer(p, n, Len(cs)), n + 1, h, Extended(cs, p[n - 1], r))
           /\ Reservations(Longer(p, n, Len(cs)), n + 1, Extended(cs, p[n - 1], r)) =
                 Append(Reservations(p, n, cs), Entry(r))
<1> DEFINE q == [k \in 0 .. n + 1 |-> IF k < n THEN p[k]
                                      ELSE IF k = n THEN Len(cs) + 1 ELSE NULL]
           L == Len(cs)
           last == p[n - 1]
           es == [cs EXCEPT ![last].next = L + 1]
           ds == Append(es, r)
<1>1. /\ L \in Nat /\ n \in Nat /\ n <= L /\ NULL \notin Nat
      /\ \A k \in 0 .. n - 1 : p[k] \in 1 .. L /\ p[k + 1] = cs[p[k]].next
      /\ p[0] = h
      /\ \A j, k \in 0 .. n - 1 : j # k => p[j] # p[k]
  BY ChainParts
<1>2. last \in 1 .. L /\ n - 1 \in 0 .. n - 1
  BY <1>1
<1>3. cs \in [1 .. L -> Node]
  BY LenProperties
<1>4. /\ es \in [1 .. L -> Node]
      /\ es[last] = [cs[last] EXCEPT !.next = L + 1]
      /\ \A c \in 1 .. L : c # last => es[c] = cs[c]
  <2>1. cs[last] \in Node /\ L + 1 \in Nat
    BY <1>1, <1>2, <1>3
  <2>2. [cs[last] EXCEPT !.next = L + 1] \in Node
    BY <2>1 DEF Node
  <2> QED
    BY <1>2, <1>3, <2>2
<1>5. es \in Seq(Node) /\ Len(es) = L
  BY <1>1, <1>4, SeqDef
<1> HIDE DEF es
<1>6. /\ ds \in Seq(Node) /\ Len(ds) = L + 1 /\ ds[L + 1] = r
      /\ \A c \in 1 .. L : ds[c] = es[c]
  BY <1>1, <1>5, AppendProperties
<1>7. \A k \in 0 .. n - 1 : q[k] = p[k]
  BY <1>1
<1>8. q[n] = L + 1 /\ q[n + 1] = NULL /\ q[0] = h
  BY <1>1
<1>9. q \in [0 .. n + 1 -> 1 .. Len(ds) \cup {NULL}]
  BY <1>1, <1>6
<1> HIDE DEF q, ds
<1>10. ASSUME NEW k \in 0 .. (n + 1) - 1
       PROVE  q[k] \in 1 .. Len(ds) /\ q[k + 1] = ds[q[k]].next
  <2>1. CASE k < n - 1
    <3>1. k \in 0 .. n - 1 /\ k + 1 \in 0 .. n - 1
      BY <1>1, <1>10, <2>1
    <3>2. p[k] # last
      BY <1>1, <1>2, <2>1, <3>1
    <3>3. /\ q[k] = p[k] /\ q[k + 1] = p[k + 1] /\ p[k] \in 1 .. L
          /\ p[k + 1] = cs[p[k]].next
      BY <1>1, <1>7, <3>1
    <3>4. p[k] \in 1 .. Len(ds) /\ ds[p[k]] = cs[p[k]]
      BY <1>1, <1>4, <1>6, <3>2, <3>3
    <3> QED
      BY <3>3, <3>4
  <2>2. CASE k = n - 1
    BY <1>1, <1>2, <1>3, <1>4, <1>6, <1>7, <1>8, <2>2 DEF Node
  <2>3. CASE k = n
    BY <1>1, <1>6, <1>8, <2>3
  <2> QED
    BY <1>1, <1>10, <2>1, <2>2, <2>3
<1>11. ASSUME NEW j \in 0 .. (n + 1) - 1, NEW k \in 0 .. (n + 1) - 1, j < k
       PROVE  q[j] < q[k]
  <2>1. j \in 0 .. n - 1 /\ p[j] \in 1 .. L
    BY <1>1, <1>11
  <2>2. CASE k = n
    BY <1>1, <1>7, <1>8, <2>1, <2>2
  <2>3. CASE k # n
    <3>1. k \in 0 .. n - 1
      BY <1>1, <1>11, <2>3
    <3> QED
      BY <1>7, <1>11, <2>1, <3>1 DEF IsChain
  <2> QED
    BY <2>2, <2>3
<1>12. IsChain(q, n + 1, h, ds)
  BY <1>1, <1>6, <1>8, <1>9, <1>10, <1>11 DEF IsChain
<1> DEFINE x == [user |-> r.user, start |-> r.start, end |-> r.end]
           old == Reservations(p, n, cs)
           new == Reservations(q, n + 1, ds)
<1>13. old \in Seq(Queue!Reservation) /\ Len(old) = n
  BY ReservationsAreSeq
<1>14. x \in Queue!Reservation
  BY DEF Node, Queue!Reservation
<1>15. /\ Append(old, x) \in Seq(Queue!Reservation) /\ Len(Append(old, x)) = n + 1
       /\ Append(old, x)[n + 1] = x /\ \A k \in 1 .. n : Append(old, x)[k] = old[k]
  BY <1>13, <1>14, AppendProperties
<1>16. new \in Seq(Queue!Reservation) /\ Len(new) = n + 1
  BY <1>6, <1>12, ReservationsAreSeq
<1>17. ASSUME NEW k \in 1 .. n PROVE new[k] = old[k]
  <2>1. k - 1 \in 0 .. n - 1 /\ q[k - 1] = p[k - 1] /\ p[k - 1] \in 1 .. L /\ k \in 1 .. n + 1
    BY <1>1, <1>7, <1>17
  <2>2. /\ ds[p[k - 1]].user = cs[p[k - 1]].user /\ ds[p[k - 1]].start = cs[p[k - 1]].start
        /\ ds[p[k - 1]].end = cs[p[k - 1]].end
    <3>1. ds[p[k - 1]] = es[p[k - 1]] /\ cs[p[k - 1]] \in Node
      BY <1>3, <1>6, <2>1
    <3>2. CASE p[k - 1] = last
      BY <1>4, <3>1, <3>2 DEF Node
    <3>3. CASE p[k - 1] # last
      BY <1>4, <2>1, <3>1, <3>3
    <3> QED
      BY <3>2, <3>3
  <2> QED
    BY <2>1, <2>2 DEF Reservations
<1>18. new[n + 1] = x
  <2>1. n + 1 \in 1 .. n + 1 /\ (n + 1) - 1 = n
    BY <1>1
  <2> QED
    BY <1>6, <1>8, <2>1 DEF Reservations
<1>19. new = Append(old, x)
  <2> HIDE DEF new, old, x
  <2>1. \A k \in 1 .. n + 1 : new[k] = Append(old, x)[k]
    <3>1. \A k \in 1 .. n + 1 : k \in 1 .. n \/ k = n + 1
      BY <1>1
    <3> QED
      BY <1>15, <1>17, <1>18, <3>1
  <2> QED
    BY <1>15, <1>16, <2>1, SeqEqual
<1> QED
  BY <1>12, <1>19 DEF q, ds, es, Longer, Extended, Entry

\* A sequence without its i-th element, entry by entry.
LEMMA SkipProperties ==
    ASSUME NEW S, NEW s \in Seq(S), NEW i \in 1 .. Len(s)
    PROVE  LET t == SubSeq(s, 1, i - 1) \o SubSeq(s, i + 1, Len(s)) IN
           /\ t \in Seq(S) /\ Len(t) = Len(s) - 1
           /\ \A j \in 1 .. Len(s) - 1 : t[j] = IF j < i THEN s[j] ELSE s[j + 1]
<1> DEFINE L == Len(s)
           a == SubSeq(s, 1, i - 1)
           b == SubSeq(s, i + 1, L)
<1>1. L \in Nat /\ i \in Nat /\ 1 <= i /\ i <= L
  BY LenProperties
<1>2. \A j \in 1 .. L : s[j] \in S
  BY ElementOfSeq
<1>3. /\ a \in Seq(S) /\ Len(a) = i - 1
      /\ \A j \in 1 .. i - 1 : a[j] = s[j]
  BY <1>1, <1>2, SubSeqProperties
<1>4. /\ b \in Seq(S) /\ Len(b) = L - i
      /\ \A j \in 1 .. L - i : b[j] = s[i + j]
  BY <1>1, <1>2, SubSeqProperties
<1> HIDE DEF a, b, L
<1>5. /\ a \o b \in Seq(S) /\ Len(a \o b) = Len(a) + Len(b)
      /\ \A j \in 1 .. Len(a) + Len(b) :
            (a \o b)[j] = IF j <= Len(a) THEN a[j] ELSE b[j - Len(a)]
  BY <1>3, <1>4, ConcatProperties
<1>6. Len(a) + Len(b) = L - 1
  BY <1>1, <1>3, <1>4
<1>7. ASSUME NEW j \in 1 .. L - 1 PROVE (a \o b)[j] = IF j < i THEN s[j] ELSE s[j + 1]
  <2>1. j \in Nat /\ j \in 1 .. Len(a) + Len(b)
    BY <1>1, <1>6, <1>7
  <2>2. CASE j < i
    <3>1. j \in 1 .. i - 1 /\ j <= Len(a)
      BY <1>1, <1>3, <1>7, <2>2
    <3>2. (a \o b)[j] = a[j]
      BY <1>5, <2>1, <3>1
    <3> QED
      BY <1>3, <2>2, <3>1, <3>2
  <2>3. CASE j >= i
    <3>1. /\ j - (i - 1) \in 1 .. L - i /\ i + (j - (i - 1)) = j + 1
          /\ ~(j <= Len(a)) /\ ~(j < i)
      BY <1>1, <1>3, <1>7, <2>3
    <3>2. (a \o b)[j] = b[j - (i - 1)]
      BY <1>3, <1>5, <2>1, <3>1
    <3> QED
      BY <1>4, <3>1, <3>2
  <2> QED
    BY <1>1, <2>1, <2>2, <2>3
<1> QED
  BY <1>5, <1>6, <1>7 DEF a, b, L

\* The chain, its head and its cells after the i-th cell was taken out.
Shorter(p, n, i) == [k \in 0 .. n - 1 |-> IF k < i - 1 THEN p[k] ELSE p[k + 1]]

HeadWithout(i, h, cs) == IF i = 1 THEN cs[h].next ELSE h

CellsWithout(i, p, cs) ==
    IF i = 1 THEN cs ELSE [cs EXCEPT ![p[i - 2]].next = cs[p[i - 1]].next]

Skip(i, n, s) == SubSeq(s, 1, i - 1) \o SubSeq(s, i + 1, n)

\* The i-th cell of a chain is skipped: by the pointer before it, or by head.
LEMMA ChainShrinks ==
    ASSUME NEW h, NEW n, NEW p, NEW cs \in Seq(Node), IsChain(p, n, h, cs),
           NEW i \in 1 .. n
    PROVE  /\ IsChain(Shorter(p, n, i), n - 1, HeadWithout(i, h, cs), CellsWithout(i, p, cs))
           /\ Reservations(Shorter(p, n, i), n - 1, CellsWithout(i, p, cs)) =
                 Skip(i, n, Reservations(p, n, cs))
<1> DEFINE q == [k \in 0 .. n - 1 |-> IF k < i - 1 THEN p[k] ELSE p[k + 1]]
           g == IF i = 1 THEN cs[h].next ELSE h
           ds == IF i = 1 THEN cs
                 ELSE [cs EXCEPT ![p[i - 2]].next = cs[p[i - 1]].next]
           L == Len(cs)
           m == n - 1
<1>1. /\ L \in Nat /\ n \in Nat /\ n <= L /\ NULL \notin Nat
      /\ \A k \in 0 .. n - 1 : p[k] \in 1 .. L /\ p[k + 1] = cs[p[k]].next
      /\ p[0] = h /\ p[n] = NULL
      /\ \A j, k \in 0 .. n - 1 : j # k => p[j] # p[k]
  BY ChainParts
<1>2. cs \in [1 .. L -> Node] /\ i \in Nat /\ 1 <= i /\ i <= n
  BY <1>1, LenProperties
<1>3. /\ \A k \in 0 .. i - 2 : q[k] = p[k]
      /\ \A k \in i - 1 .. n - 1 : q[k] = p[k + 1]
      /\ q \in [0 .. n - 1 -> 1 .. L \cup {NULL}]
  <2>1. \A k \in 0 .. i - 2 : k \in 0 .. n - 1 /\ k < i - 1
    BY <1>1, <1>2
  <2>2. \A k \in i - 1 .. n - 1 : k \in 0 .. n - 1 /\ ~(k < i - 1)
    BY <1>1, <1>2
  <2>3. \A k \in 0 .. n - 1 : k \in 0 .. n /\ k + 1 \in 0 .. n
    BY <1>1
  <2>4. \A k \in 0 .. n : p[k] \in 1 .. L \cup {NULL}
    BY DEF IsChain
  <2> QED
    BY <2>1, <2>2, <2>3, <2>4
<1> HIDE DEF q
<1>4. /\ ds \in Seq(Node) /\ Len(ds) = L
      /\ \A c \in 1 .. L : /\ ds[c].user = cs[c].user /\ ds[c].start = cs[c].start
                           /\ ds[c].end = cs[c].end
      /\ \A c \in 1 .. L : i = 1 \/ c # p[i - 2] => ds[c] = cs[c]
      /\ i > 1 => ds[p[i - 2]].next = p[i]
  <2>1. CASE i = 1
    BY <2>1
  <2>2. CASE i # 1
    <3>1. /\ i - 2 \in 0 .. n - 1 /\ i - 1 \in 0 .. n - 1 /\ (i - 1) + 1 = i
          /\ p[i - 2] \in 1 .. L /\ p[i - 1] \in 1 .. L
      BY <1>1, <1>2, <2>2
    <3>2. cs[p[i - 1]].next = p[i] /\ cs[p[i - 1]].next \in Nat \cup {NULL}
      BY <1>1, <1>2, <3>1 DEF Node
    <3>3. ds = [cs EXCEPT ![p[i - 2]] = [cs[p[i - 2]] EXCEPT !.next = p[i]]]
      BY <1>2, <2>2, <3>1, <3>2
    <3>4. /\ [cs[p[i - 2]] EXCEPT !.next = p[i]] \in Node
          /\ [cs[p[i - 2]] EXCEPT !.next = p[i]].user = cs[p[i - 2]].user
          /\ [cs[p[i - 2]] EXCEPT !.next = p[i]].start = cs[p[i - 2]].start
          /\ [cs[p[i - 2]] EXCEPT !.next = p[i]].end = cs[p[i - 2]].end
          /\ [cs[p[i - 2]] EXCEPT !.next = p[i]].next = p[i]
      BY <1>2, <3>1, <3>2 DEF Node
    <3>5. /\ ds \in Seq(Node) /\ Len(ds) = L
          /\ ds[p[i - 2]] = [cs[p[i - 2]] EXCEPT !.next = p[i]]
          /\ \A c \in 1 .. L : c # p[i - 2] => ds[c] = cs[c]
      <4>1. /\ ds \in [1 .. L -> Node]
            /\ ds[p[i - 2]] = [cs[p[i - 2]] EXCEPT !.next = p[i]]
            /\ \A c \in 1 .. L : c # p[i - 2] => ds[c] = cs[c]
        BY <1>2, <3>1, <3>3, <3>4
      <4> HIDE DEF ds
      <4> QED
        BY <1>1, <4>1, SeqDef
    <3> QED
      BY <2>2, <3>1, <3>4, <3>5
  <2> QED
    BY <2>1, <2>2
<1> HIDE DEF ds
<1>5. q[0] = g /\ q[m] = NULL
  <2>1. CASE i = 1
    <3>1. 0 \in i - 1 .. n - 1 /\ m \in i - 1 .. n - 1 /\ 0 \in 0 .. n - 1 /\ m + 1 = n
      BY <1>1, <1>2, <2>1
    <3> QED
      BY <1>1, <1>3, <2>1, <3>1
  <2>2. CASE i # 1
    <3>1. 0 \in 0 .. i - 2 /\ m \in i - 1 .. n - 1 /\ m + 1 = n
      BY <1>1, <1>2, <2>2
    <3> QED
      BY <1>1, <1>3, <2>2, <3>1
  <2> QED
    BY <2>1, <2>2
<1> HIDE DEF g
<1>6. ASSUME NEW k \in 0 .. m - 1
      PROVE  q[k] \in 1 .. L /\ q[k + 1] = ds[q[k]].next
  <2>1. k \in Nat /\ k + 1 \in 0 .. n - 1 /\ k \in 0 .. n - 1
    BY <1>1, <1>6
  <2>2. CASE k < i - 2
    <3>1. k \in 0 .. i - 2 /\ k + 1 \in 0 .. i - 2 /\ i - 2 \in 0 .. n - 1 /\ k # i - 2
      BY <1>1, <1>2, <2>1, <2>2
    <3>2. /\ q[k] = p[k] /\ q[k + 1] = p[k + 1] /\ p[k] \in 1 .. L
          /\ p[k + 1] = cs[p[k]].next
      BY <1>1, <1>3, <2>1, <3>1
    <3>3. p[k] # p[i - 2]
      BY <1>1, <2>1, <3>1
    <3> QED
      BY <1>4, <3>2, <3>3
  <2>3. CASE k = i - 2
    <3>1. k \in 0 .. i - 2 /\ k + 1 \in i - 1 .. n - 1 /\ (k + 1) + 1 = i /\ i > 1
      BY <1>1, <1>2, <2>1, <2>3
    <3> QED
      BY <1>1, <1>3, <1>4, <2>1, <2>3, <3>1
  <2>4. CASE k > i - 2
    <3>1. k \in i - 1 .. n - 1 /\ k + 1 \in i - 1 .. n - 1
      BY <1>1, <1>2, <2>1, <2>4
    <3>2. q[k] = p[k + 1] /\ q[k + 1] = p[(k + 1) + 1] /\ p[k + 1] \in 1 .. L
          /\ p[(k + 1) + 1] = cs[p[k + 1]].next
      BY <1>1, <1>3, <2>1, <3>1
    <3>3. i = 1 \/ (i - 2 \in 0 .. n - 1 /\ k + 1 # i - 2)
      BY <1>1, <1>2, <2>1, <2>4
    <3>4. i = 1 \/ p[k + 1] # p[i - 2]
      BY <1>1, <2>1, <3>3
    <3> QED
      BY <1>4, <3>2, <3>4
  <2> QED
    BY <1>2, <2>1, <2>2, <2>3, <2>4
<1>7. ASSUME NEW j \in 0 .. m - 1, NEW k \in 0 .. m - 1, j < k PROVE q[j] < q[k]
  <2>1. \A a, b \in 0 .. n - 1 : a < b => p[a] < p[b]
    BY DEF IsChain
  <2>2. PICK a \in 0 .. n - 1, b \in 0 .. n - 1 : a < b /\ q[j] = p[a] /\ q[k] = p[b]
    <3>1. /\ j \in Nat /\ k \in Nat /\ j \in 0 .. n - 1 /\ k \in 0 .. n - 1
          /\ j + 1 \in 0 .. n - 1 /\ k + 1 \in 0 .. n - 1
          /\ j < k + 1 /\ j + 1 < k + 1
      BY <1>1, <1>7
    <3>2. CASE k <= i - 2
      BY <1>2, <1>3, <1>7, <3>1, <3>2
    <3>3. CASE k > i - 2 /\ j <= i - 2
      <4>1. j \in 0 .. i - 2 /\ k \in i - 1 .. n - 1
        BY <1>1, <1>2, <3>1, <3>3
      <4> QED
        BY <1>3, <3>1, <4>1
    <3>4. CASE j > i - 2
      <4>1. j \in i - 1 .. n - 1 /\ k \in i - 1 .. n - 1
        BY <1>1, <1>2, <1>7, <3>1, <3>4
      <4> QED
        BY <1>3, <3>1, <4>1
    <3> QED
      BY <1>2, <1>7, <3>1, <3>2, <3>3, <3>4
  <2> QED
    BY <2>1, <2>2
<1>8. IsChain(q, m, g, ds)
  BY <1>1, <1>2, <1>3, <1>4, <1>5, <1>6, <1>7 DEF IsChain
<1> DEFINE old == Reservations(p, n, cs)
           new == Reservations(q, m, ds)
           rest == SubSeq(old, 1, i - 1) \o SubSeq(old, i + 1, Len(old))
<1>9. old \in Seq(Queue!Reservation) /\ Len(old) = n
  BY ReservationsAreSeq
<1>10. new \in Seq(Queue!Reservation) /\ Len(new) = m
  BY <1>4, <1>8, ReservationsAreSeq
<1>11. /\ rest \in Seq(Queue!Reservation) /\ Len(rest) = n - 1
       /\ \A j \in 1 .. n - 1 : rest[j] = IF j < i THEN old[j] ELSE old[j + 1]
  <2>1. i \in 1 .. Len(old)
    BY <1>9
  <2> HIDE DEF old
  <2> QED
    BY <1>9, <2>1, SkipProperties
<1>12. ASSUME NEW j \in 1 .. m PROVE new[j] = IF j < i THEN old[j] ELSE old[j + 1]
  <2>0. n \in Nat
    BY <1>1
  <2>1. j \in Nat /\ j - 1 \in 0 .. n - 1 /\ j \in 1 .. n /\ j + 1 \in 1 .. n /\ (j + 1) - 1 = j
    BY <2>0, <1>12
  <2>2. CASE j < i
    <3>1. q[j - 1] = p[j - 1] /\ p[j - 1] \in 1 .. L
      BY <1>1, <1>2, <1>3, <2>1, <2>2
    <3> QED
      BY <1>4, <1>12, <2>1, <2>2, <3>1 DEF Reservations
  <2>3. CASE j >= i
    <3>1. q[j - 1] = p[j] /\ p[j] \in 1 .. L
      <4>1. j - 1 \in i - 1 .. n - 1 /\ (j - 1) + 1 = j /\ j \in 0 .. n - 1
        BY <1>1, <1>2, <1>12, <2>1, <2>3
      <4> QED
        BY <1>1, <1>3, <4>1
    <3> QED
      BY <1>2, <1>4, <1>12, <2>1, <2>3, <3>1 DEF Reservations
  <2> QED
    BY <1>2, <2>1, <2>2, <2>3
<1>13. new = rest
  <2> HIDE DEF new, rest, old
  <2>1. \A j \in 1 .. m : new[j] = rest[j]
    BY <1>11, <1>12
  <2> QED
    BY <1>10, <1>11, <2>1, SeqEqual
<1> QED
  BY <1>8, <1>9, <1>13 DEF q, g, ds, Shorter, HeadWithout, CellsWithout, Skip

(***************************************************************************)
(* The commands.                                                           *)
(***************************************************************************)
Nodes(L) == [user: Text, start: Text, end: Text, next: 1 .. L \cup {NULL}]

\* What update_reservation leaves, once the pointers are a chain again.
LEMMA AfterUpdate ==
    ASSUME ListInv, running, allocated', UpdateReservation,
           NEW n, NEW p, IsChain(p, n, head', cells'),
           cells' \in Seq(Nodes(Len(cells'))), n > 0 \/ allocated
    PROVE  /\ ListInv'
           /\ Listed' = Reservations(p, n, cells')
           /\ running' <=> n > 0
<1>1. /\ Len(cells') \in Nat /\ NULL \notin Nat /\ running \in BOOLEAN
      /\ USER \in Text \cup {NULL} /\ LOCKED \in {0, 1}
  BY LenProperties, ListAssumption DEF ListInv, TypeOK
<1>2. /\ n \in 0 .. Len(cells') /\ p \in [0 .. n -> 1 .. Len(cells') \cup {NULL}]
      /\ p[0] = head' /\ p[n] = NULL /\ \A k \in 0 .. n - 1 : p[k] \in 1 .. Len(cells')
  BY DEF IsChain
<1>3. head' \in 1 .. Len(cells') \cup {NULL} /\ (head' = NULL <=> n = 0)
  <2>1. n = 0 \/ 0 \in 0 .. n - 1
    BY <1>1, <1>2
  <2> QED
    BY <1>1, <1>2, <2>1
<1>4. IF head' = NULL THEN running' = FALSE /\ UNCHANGED <<USER, LOCKED>>
      ELSE USER' = cells'[head'].user /\ LOCKED' = 1 /\ UNCHANGED running
  BY DEF UpdateReservation
<1>5. head' # NULL => cells'[head'].user \in Text
  <2>1. ASSUME head' # NULL PROVE cells'[head'] \in Nodes(Len(cells'))
    BY <1>3, <2>1, ElementOfSeq
  <2> QED
    BY <2>1 DEF Nodes
<1>6. TypeOK'
  <2>1. cells' \in Seq([user: Text, start: Text, end: Text, next: Pointer'])
    BY DEF Nodes, Pointer, Cell
  <2> QED
    BY <1>1, <1>3, <1>4, <1>5, <2>1 DEF TypeOK, Pointer, Cell
<1>7. running' <=> n > 0
  <2>1. n = 0 \/ n > 0
    BY <1>1, <1>2
  <2>2. ~(n = 0 /\ n > 0)
    OBVIOUS
  <2> QED
    BY <1>3, <1>4, <2>1, <2>2, Zenon
<1>8. ListInv'
  <2>1. \E m \in 0 .. Len(cells') : \E q \in [0 .. m -> 1 .. Len(cells') \cup {NULL}] :
           IsChain(q, m, head', cells')
    BY <1>2
  <2>2. running' => head' # NULL /\ USER' = cells'[head'].user /\ LOCKED' = 1
    BY <1>4
  <2> QED
    BY <1>6, <2>1, <2>2 DEF ListInv
<1>9. cells' \in Seq(Node)
  <2>1. Nodes(Len(cells')) \subseteq Node
    BY <1>1 DEF Nodes, Node
  <2> QED
    BY <2>1, SeqMonotonic
<1>10. Listed' = Reservations(p, n, cells')
  <2>1. Listed' = ListOf(PathOf(head', cells'), cells')
    BY DEF Listed, ListOf, Path, PathOf
  <2> QED
    BY <1>9, <2>1, ListOfChain DEF Reservations
<1> QED
  BY <1>7, <1>8, <1>10

\* Cells are numbered from 1 and none of them is NULL.
LEMMA CellsTyped ==
    ASSUME ListInv
    PROVE  /\ cells \in Seq(Nodes(Len(cells))) /\ cells \in Seq(Node) /\ Len(cells) \in Nat
           /\ NULL \notin Nat
<1>1. cells \in Seq(Nodes(Len(cells))) /\ Len(cells) \in Nat /\ NULL \notin Nat
  BY LenProperties, ListAssumption DEF ListInv, TypeOK, Nodes, Pointer, Cell
<1>2. Nodes(Len(cells)) \subseteq Node
  BY <1>1 DEF Nodes, Node
<1> QED
  BY <1>1, <1>2, SeqMonotonic

\* Every command keeps the chain, and is a step of the queue or none.
LEMMA CreateFirstStep ==
    ASSUME ListInv, NEW user \in Text, NEW row2 \in Text, NEW row3 \in Text,
           CreateFirst(user, row2, row3)
    PROVE  ListInv' /\ Queue!Next
<1> DEFINE r == [user |-> user, start |-> row3, end |-> row3, next |-> NULL]
           x == [user |-> user, start |-> row3, end |-> row3]
           q == [k \in 0 .. 1 |-> IF k = 0 THEN 1 ELSE NULL]
           none == [k \in 0 .. 0 |-> NULL]
<1>1. /\ running /\ ~allocated /\ allocated' /\ cells = <<>> /\ head = NULL
      /\ head' = 1 /\ cells' = <<r>> /\ UpdateReservation
  BY DEF CreateFirst, ListInv
<1>2. NULL \notin Nat /\ r \in Nodes(1) /\ x \in Queue!Reservation
  BY ListAssumption DEF Nodes, Queue!Reservation
<1>3. cells' \in Seq(Nodes(1)) /\ Len(cells') = 1 /\ cells'[1] = r
  BY <1>1, <1>2
<1>4. IsChain(q, 1, head', cells')
  BY <1>1, <1>2, <1>3 DEF IsChain
<1>5. ListInv' /\ Listed' = Reservations(q, 1, cells') /\ (running' <=> TRUE)
  BY <1>1, <1>3, <1>4, AfterUpdate
<1>6. Reservations(q, 1, cells') = <<x>>
  BY <1>3 DEF Reservations
<1>7. Listed = <<>>
  <2>1. IsChain(none, 0, head, cells)
    BY <1>1, <1>2 DEF IsChain
  <2>2. Listed = Reservations(none, 0, cells)
    BY <2>1, ListedIs DEF ListInv
  <2> QED
    BY <2>2 DEF Reservations
<1>8. running' = running
  BY <1>1, <1>5 DEF ListInv, TypeOK
<1>9. Queue!Reserve(x)
  BY <1>1, <1>5, <1>6, <1>7, <1>8 DEF Queue!Reserve
<1>10. Listed' = <<x>>
  BY <1>5, <1>6
<1> HIDE DEF r, x, q, none
<1>11. 1 \in 1 .. Len(Listed') /\ Listed'[1] = x
  BY <1>10
<1> QED
  BY <1>2, <1>5, <1>9, <1>11 DEF Queue!Next

\* create_reservation on a list that is not empty appends to chain and queue.
LEMMA CreateNextStep ==
    ASSUME ListInv, NEW user \in Text, NEW row2 \in Text, NEW row3 \in Text,
           CreateNext(user, row2, row3)
    PROVE  ListInv' /\ Queue!Next
<1> DEFINE L == Len(cells)
           r == [user |-> user, start |-> row2, end |-> row3, next |-> NULL]
           x == [user |-> user, start |-> row2, end |-> row3]
<1>1. /\ cells \in Seq(Nodes(L)) /\ cells \in Seq(Node) /\ L \in Nat /\ NULL \notin Nat
      /\ running /\ allocated /\ allocated' = allocated /\ head' = head /\ UpdateReservation
  BY CellsTyped DEF CreateNext
<1>2. PICK n, p : IsChain(p, n, head, cells)
  BY DEF ListInv
<1>3. /\ n \in Nat /\ \A k \in 0 .. n - 1 : p[k] \in 1 .. L /\ p[k] # NULL
                                           /\ p[k + 1] = cells[p[k]].next
      /\ p[0] = head
  BY <1>1, <1>2, ChainParts
<1>4. /\ Linked = {p[k] : k \in 0 .. n - 1} /\ Listed = Reservations(p, n, cells)
  BY <1>2, ListedIs DEF ListInv
<1>5. PICK cursor \in Linked :
        /\ cells[cursor].next = NULL
        /\ cells' = Append([cells EXCEPT ![cursor].next = L + 1], r)
  BY DEF CreateNext
<1>6. n > 0 /\ cursor = p[n - 1]
  <2>1. PICK k \in 0 .. n - 1 : cursor = p[k]
    BY <1>4
  <2>2. p[k + 1] = NULL
    BY <1>3, <1>5, <2>1
  <2>3. k + 1 \notin 0 .. n - 1
    BY <1>3, <2>2
  <2>4. k = n - 1
    BY <1>3, <2>3
  <2> QED
    BY <1>3, <2>1, <2>4
<1>7. r \in Node /\ x \in Queue!Reservation
  BY DEF Node, Queue!Reservation
<1> DEFINE q == Longer(p, n, L)
<1>8. /\ IsChain(q, n + 1, head, cells')
      /\ Reservations(q, n + 1, cells') = Append(Reservations(p, n, cells), x)
  <2>1. cells' = Extended(cells, p[n - 1], r)
    BY <1>5, <1>6 DEF Extended
  <2>2. Entry(r) = x /\ r.next = NULL
    BY DEF Entry
  <2> HIDE DEF r, x
  <2> QED
    BY <1>1, <1>2, <1>6, <1>7, <2>1, <2>2, ChainGrows
<1>9. cells' \in Seq(Nodes(Len(cells')))
  <2> DEFINE es == [cells EXCEPT ![cursor] = [cells[cursor] EXCEPT !.next = L + 1]]
  <2>1. cursor \in 1 .. L /\ \A c \in 1 .. L : cells[c] \in Nodes(L)
    BY <1>1, <1>3, <1>6, ElementOfSeq
  <2>2. /\ [cells[cursor] EXCEPT !.next = L + 1] \in Nodes(L + 1)
        /\ Nodes(L) \subseteq Nodes(L + 1) /\ r \in Nodes(L + 1)
    BY <1>1, <2>1 DEF Nodes
  <2>3. es \in Seq(Nodes(L + 1)) /\ Len(es) = L
    <3>1. cells \in Seq(Nodes(L + 1))
      BY <1>1, <2>2, SeqMonotonic
    <3> QED
      BY <2>1, <2>2, <3>1, ExceptSeq
  <2>4. cells' = Append(es, r)
    BY <1>1, <1>5, <2>1
  <2> HIDE DEF es
  <2> QED
    BY <1>1, <2>2, <2>3, <2>4, AppendProperties
<1> HIDE DEF q
<1>10. /\ ListInv' /\ Listed' = Reservations(q, n + 1, cells') /\ (running' <=> n + 1 > 0)
  BY <1>1, <1>8, <1>9, AfterUpdate
<1>11. running' = running
  <2>1. n + 1 > 0
    BY <1>3
  <2>2. running \in BOOLEAN /\ running' \in BOOLEAN
    BY <1>10 DEF ListInv, TypeOK
  <2> QED
    BY <1>1, <1>10, <2>1, <2>2, Zenon
<1>12. Queue!Reserve(x)
  BY <1>1, <1>4, <1>8, <1>10, <1>11 DEF Queue!Reserve
<1>13. Listed \in Seq(Queue!Reservation) /\ Listed' = Append(Listed, x)
  BY <1>1, <1>2, <1>4, <1>8, <1>10, ReservationsAreSeq
<1> HIDE DEF r, x
<1>14. Len(Listed) + 1 \in 1 .. Len(Listed') /\ Listed'[Len(Listed) + 1] = x
  BY <1>7, <1>13, AppendProperties
<1> QED
  BY <1>7, <1>10, <1>12, <1>14 DEF Queue!Next

\* delete_reservation, at the head or behind it, removes the same reservation from both.
LEMMA DeleteStep ==
    ASSUME ListInv, NEW u \in Text, DeleteHead(u) \/ DeleteInner(u)
    PROVE  ListInv' /\ Queue!Next
<1> DEFINE L == Len(cells)
<1>1. /\ cells \in Seq(Nodes(L)) /\ cells \in Seq(Node) /\ L \in Nat /\ NULL \notin Nat
      /\ running /\ allocated /\ allocated' = allocated /\ UpdateReservation
  BY CellsTyped DEF DeleteHead, DeleteInner
<1>2. PICK n, p : IsChain(p, n, head, cells)
  BY DEF ListInv
<1>3. /\ n \in Nat /\ n <= L
      /\ \A k \in 0 .. n - 1 : p[k] \in 1 .. L /\ p[k] # NULL /\ p[k + 1] = cells[p[k]].next
      /\ p[0] = head
  BY <1>1, <1>2, ChainParts
<1>4. /\ Listed = Reservations(p, n, cells)
      /\ \A k \in 0 .. L : Path[k] = IF k <= n THEN p[k] ELSE NULL
  BY <1>2, ListedIs DEF ListInv
<1>5. PICK k \in 0 .. L :
        /\ FirstOf(u, k)
        /\ IF k = 0 THEN head' = cells[head].next /\ cells' = cells
           ELSE head' = head
                /\ cells' = [cells EXCEPT ![Path[k - 1]].next = cells[Path[k]].next]
  <2>1. CASE DeleteHead(u)
    BY <1>1, <2>1 DEF DeleteHead
  <2>2. CASE DeleteInner(u)
    <3>1. PICK k \in 1 .. L :
            /\ FirstOf(u, k)
            /\ cells' = [cells EXCEPT ![Path[k - 1]].next = cells[Path[k]].next]
      BY <2>2 DEF DeleteInner
    <3>2. k \in 0 .. L /\ k # 0
      BY <1>1
    <3> QED
      BY <2>2, <3>1, <3>2 DEF DeleteInner
  <2> QED
    BY <2>1, <2>2
<1>6. k < n /\ \A j \in 0 .. k : Path[j] = p[j]
  <2>1. k < n
    <3>1. CASE k > n
      BY <1>1, <1>3, <1>4, <1>5, <3>1 DEF FirstOf
    <3>2. CASE k = n
      BY <1>1, <1>2, <1>3, <1>4, <1>5, <3>2 DEF FirstOf, IsChain
    <3> QED
      BY <1>1, <1>3, <3>1, <3>2
  <2>2. \A j \in 0 .. k : j \in 0 .. L /\ j <= n
    BY <1>1, <1>3, <2>1
  <2> QED
    BY <1>4, <2>1, <2>2
<1> DEFINE i == k + 1
           g == HeadWithout(i, head, cells)
           ds == CellsWithout(i, p, cells)
           q == Shorter(p, n, i)
<1>7. i \in 1 .. n /\ i - 1 = k /\ (i = 1 <=> k = 0)
  BY <1>1, <1>3, <1>6
<1>8. head' = g /\ cells' = ds
  <2>1. CASE k = 0
    BY <1>5, <1>7, <2>1 DEF HeadWithout, CellsWithout
  <2>2. CASE k # 0
    <3>1. k - 1 \in 0 .. k /\ k \in 0 .. k /\ i - 2 = k - 1 /\ i - 1 = k
      BY <1>1, <2>2
    <3> QED
      BY <1>5, <1>6, <1>7, <2>2, <3>1 DEF HeadWithout, CellsWithout
  <2> QED
    BY <2>1, <2>2
<1>9. /\ IsChain(q, n - 1, g, ds)
      /\ Reservations(q, n - 1, ds) = Skip(i, n, Reservations(p, n, cells))
  <2> HIDE DEF i
  <2> QED
    BY <1>1, <1>2, <1>7, ChainShrinks
<1>10. cells' \in Seq(Nodes(L)) /\ Len(cells') = L
  <2>1. CASE k = 0
    BY <1>1, <1>5, <2>1
  <2>2. CASE k # 0
    <3>1. k - 1 \in 0 .. n - 1 /\ k \in 0 .. n - 1 /\ k - 1 \in 0 .. k /\ k \in 0 .. k
      BY <1>1, <1>3, <1>6, <2>2
    <3>2. p[k - 1] \in 1 .. L /\ p[k] \in 1 .. L
      BY <1>3, <3>1
    <3>3. cells[p[k - 1]] \in Nodes(L) /\ cells[p[k]] \in Nodes(L)
      BY <1>1, <3>2, ElementOfSeq
    <3>4. [cells[p[k - 1]] EXCEPT !.next = cells[p[k]].next] \in Nodes(L)
      BY <3>3 DEF Nodes
    <3>5. cells' = [cells EXCEPT ![p[k - 1]] = [cells[p[k - 1]] EXCEPT !.next = cells[p[k]].next]]
      BY <1>1, <1>5, <1>6, <2>2, <3>1, <3>2
    <3> QED
      BY <1>1, <3>2, <3>4, <3>5, ExceptSeq
  <2> QED
    BY <2>1, <2>2
<1> DEFINE m == n - 1
<1>11. IsChain(q, m, head', cells')
  BY <1>8, <1>9
<1> HIDE DEF q, m, g, ds
<1>12. ListInv' /\ Listed' = Reservations(q, m, cells') /\ (running' <=> m > 0)
  BY <1>1, <1>10, <1>11, AfterUpdate
<1>13. Len(Listed) = n
  BY <1>1, <1>2, <1>4, ReservationsAreSeq
<1>14. Listed' = Queue!Without(i)
  BY <1>4, <1>8, <1>9, <1>12, <1>13 DEF Queue!Without, Skip, m
<1>15. Queue!OldestOf(u, i)
  <2>1. \A j \in 1 .. n : Listed[j].user = cells[p[j - 1]].user
    BY <1>4 DEF Reservations
  <2>2. cells[p[k]].user = u /\ \A j \in 0 .. k - 1 : cells[p[j]].user # u
    <3>1. \A j \in 0 .. k - 1 : j \in 0 .. k
      BY <1>1
    <3>2. k \in 0 .. k
      BY <1>1
    <3> QED
      BY <1>5, <1>6, <3>1, <3>2 DEF FirstOf
  <2>3. \A j \in 1 .. i - 1 : j \in 1 .. n /\ j - 1 \in 0 .. k - 1
    BY <1>1, <1>3, <1>6
  <2> QED
    BY <1>7, <2>1, <2>2, <2>3 DEF Queue!OldestOf
<1>16. running' = (Len(Listed) > 1)
  <2>1. m > 0 <=> Len(Listed) > 1
    BY <1>3, <1>13 DEF m
  <2>2. running' \in BOOLEAN
    BY <1>12 DEF ListInv, TypeOK
  <2> QED
    BY <1>12, <2>1, <2>2
<1>17. i \in 1 .. Len(Listed) /\ Listed[i].user = u
  BY <1>7, <1>13, <1>15 DEF Queue!OldestOf
<1>18. Queue!Cancel(u)
  BY <1>1, <1>14, <1>15, <1>16, <1>17 DEF Queue!Cancel
<1> QED
  BY <1>12, <1>17, <1>18 DEF Queue!Next

\* update_reservation changes cells' outputs only: chain and queue stay.
LEMMA QuietStep ==
    ASSUME ListInv, running, UNCHANGED <<allocated, head, cells>>, UpdateReservation
    PROVE  ListInv' /\ UNCHANGED <<Listed, running>>
<1>1. PICK n, p : IsChain(p, n, head, cells)
  BY DEF ListInv
<1>2. /\ n \in Nat /\ (n = 0 => head = NULL) /\ cells' \in Seq(Nodes(Len(cells')))
  BY <1>1, CellsTyped, ChainParts
<1>3. Listed' = Listed
  BY DEF Listed, Path
<1>4. CASE ~allocated
  <2>1. UNCHANGED vars
    BY <1>4 DEF UpdateReservation, vars
  <2> QED
    BY <1>3, <2>1 DEF vars, ListInv, TypeOK, Pointer, Cell
<1>5. CASE allocated
  <2>1. IsChain(p, n, head', cells') /\ allocated'
    BY <1>1, <1>5
  <2>2. ListInv' /\ (running' <=> n > 0)
    BY <1>2, <1>5, <2>1, AfterUpdate
  <2>3. n > 0
    BY <1>2, <1>5 DEF ListInv
  <2>4. running' \in BOOLEAN /\ running \in BOOLEAN
    BY <2>2 DEF ListInv, TypeOK
  <2>5. running' = running
    BY <2>2, <2>3, <2>4, Zenon
  <2> QED
    BY <1>3, <2>2, <2>5
<1> QED
  BY <1>4, <1>5

\* The empty list is the empty queue.
LEMMA InitInv ==
    ASSUME Init
    PROVE  ListInv /\ Queue!Init
<1> DEFINE none == [k \in 0 .. 0 |-> NULL]
<1>1. NULL \notin Nat /\ Len(cells) = 0 /\ cells = <<>> /\ head = NULL
  BY ListAssumption DEF Init
<1>2. IsChain(none, 0, head, cells)
  BY <1>1 DEF IsChain
<1>3. TypeOK
  <2>1. cells \in Seq([user: Text, start: Text, end: Text, next: Pointer])
    BY <1>1
  <2>2. head \in Pointer
    BY <1>1 DEF Pointer
  <2> QED
    BY <2>1, <2>2 DEF Init, TypeOK
<1>4. ListInv
  <2>1. 0 \in 0 .. Len(cells) /\ none \in [0 .. 0 -> 1 .. Len(cells) \cup {NULL}]
    BY <1>1
  <2> HIDE DEF none
  <2> QED
    BY <1>1, <1>2, <1>3, <2>1 DEF ListInv, Init
<1>5. Listed = <<>>
  <2>1. Listed = Reservations(none, 0, cells)
    BY <1>2, <1>3, ListedIs
  <2> QED
    BY <2>1 DEF Reservations
<1> QED
  BY <1>4, <1>5 DEF Queue!Init, Init

\* Every step keeps the list's shape and is a step of the queue or leaves it alone.
LEMMA NextStep ==
    ASSUME ListInv, [Next]_vars
    PROVE  ListInv' /\ [Queue!Next]_Queue!vars
<1>1. CASE Create
  BY <1>1, CreateFirstStep, CreateNextStep DEF Create
<1>2. CASE Delete
  BY <1>2, DeleteStep DEF Delete
<1>3. CASE CreateRefused \/ OtherCommand
  BY <1>3, QuietStep DEF CreateRefused, OtherCommand, Queue!vars
<1>4. CASE UNCHANGED vars
  <2>1. Listed' = Listed /\ running' = running
    BY <1>4 DEF vars, Listed, Path
  <2>2. ListInv'
    BY <1>4 DEF vars, ListInv, TypeOK, Pointer, Cell
  <2> QED
    BY <2>1, <2>2 DEF Queue!vars
<1> QED
  BY <1>1, <1>2, <1>3, <1>4 DEF Next

\* Whatever commands run, the pointers form a chain that ends, whose cells are
\* in the order in which malloc returned them, and update_reservation has
\* stored the user of its first cell.
THEOREM ListInvariant == Spec => []ListInv
<1>1. Init => ListInv
  BY InitInv
<1>2. ListInv /\ [Next]_vars => ListInv'
  BY NextStep
<1> QED
  BY <1>1, <1>2, PTL DEF Spec

\* While the server runs and holds a reservation structure, the locker is
\* locked for the user of the oldest reservation on the list.
THEOREM LockedForTheFirst == Spec => []LockedForTheOldest
<1>1. ListInv => LockedForTheOldest
  <2> SUFFICES ASSUME ListInv, running, allocated
               PROVE  /\ Linked # {}
                      /\ LOCKED = 1
                      /\ \A c \in Linked :
                            (\A d \in Linked : c <= d) => USER = cells[c].user
    BY DEF LockedForTheOldest
  <2>1. PICK n, p : IsChain(p, n, head, cells)
    BY DEF ListInv
  <2>2. /\ head # NULL /\ USER = cells[head].user /\ LOCKED = 1
    BY DEF ListInv
  <2>3. Linked = {p[k] : k \in 0 .. n - 1} /\ cells \in Seq(Node)
    BY <2>1, ListedIs DEF ListInv
  <2>4. /\ n \in Nat /\ p[0] = head /\ p[n] = NULL
        /\ \A k \in 0 .. n - 1 : p[k] \in Nat
    BY <2>1, <2>3, ChainParts
  <2>5. n > 0 /\ head \in Linked /\ head \in Nat
    <3>1. n > 0
      BY <2>2, <2>4
    <3>2. 0 \in 0 .. n - 1
      BY <2>4, <3>1
    <3> QED
      BY <2>3, <2>4, <3>1, <3>2
  <2>6. ASSUME NEW c \in Linked, \A d \in Linked : c <= d PROVE c = head
    <3>1. PICK k \in 0 .. n - 1 : c = p[k]
      BY <2>3
    <3>2. k = 0 \/ p[0] < p[k]
      <4>1. \A a, b \in 0 .. n - 1 : a < b => p[a] < p[b]
        BY <2>1 DEF IsChain
      <4>2. 0 \in 0 .. n - 1 /\ (k = 0 \/ 0 < k)
        BY <2>4, <2>5
      <4> QED
        BY <4>1, <4>2
    <3>3. c <= head /\ c \in Nat
      BY <2>4, <2>5, <2>6, <3>1
    <3> QED
      BY <2>4, <2>5, <3>1, <3>2, <3>3
  <2> QED
    BY <2>2, <2>5, <2>6
<1> QED
  BY <1>1, ListInvariant, PTL

\* The linked list implements the queue: a command appends a reservation,
\* takes out the oldest one of a user, or leaves the queue as it is.
THEOREM ListImplementsQueue == Spec => ImplementsQueue
<1>1. Init => Queue!Init
  BY InitInv
<1>2. ListInv /\ [Next]_vars => [Queue!Next]_Queue!vars
  BY NextStep
<1> QED
  BY <1>1, <1>2, ListInvariant, PTL DEF Spec, ImplementsQueue, Queue!Spec
==============================================================================
