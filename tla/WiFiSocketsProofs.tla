--------------------------- MODULE WiFiSocketsProofs ---------------------------
(***************************************************************************)
(* Who owns which descriptor, what a write() sends and who is connected,   *)
(* for any number of clients, handles and descriptors.                     *)
(***************************************************************************)
EXTENDS WiFiSocketsProperties, SequenceTheorems, TLAPS

\* The descriptor of a handle is a connection, that of the server is not; the
\* one of a running connect() belongs to nobody else.
ClientsOwn ==
    /\ \A h \in Used(handle) : fdOf[h] \in Fd /\ sock[fdOf[h]] \in {"up", "dead"}
    /\ \A g, h \in Used(handle) : fdOf[g] = fdOf[h] => g = h

Owners ==
    /\ ClientsOwn /\ Held \cap Others = {}
    /\ server.accepted # None => sock[server.accepted] \in {"up", "dead"}
    /\ server.fd # None => sock[server.fd] \in {"bound", "listening"}
    /\ call.op = "connect" =>
          /\ call.c \in Cl /\ call.fd \in Fd
          /\ sock[call.fd] \in {"connecting", "up", "dead"}
          /\ call.fd # server.accepted

\* A client that is connected has a handle, and a connection is lost only with
\* a fault that says so.
Lives ==
    /\ \A c \in Cl : connected[c] => handle[c] # None
    /\ LiveStaysConnected
    /\ "death" \notin faults => errno # "gone" /\ \A f \in Fd : sock[f] # "dead"

\* Bytes that left are behind what is being sent; if nothing was cut short they
\* are all of it.
Sends ==
    /\ call.op \in {"none", "connect"} => call.retry = 0
    /\ call.op = "stream" => call.c \in Cl
    /\ Writing =>
          /\ call.c \in Cl /\ handle[call.c] # None /\ call.fd = FdOf(call.c)
          /\ call.left > 0 /\ call.next + call.left = call.taken + 1
    /\ call.op \in {"write", "stream"} =>
          /\ \A i \in 1..Len(call.out) - 1 : call.out[i] < call.out[i + 1]
          /\ \A i \in 1..Len(call.out) :
                call.out[i] <= IF call.retry > 0 THEN call.next - 1 ELSE call.taken
          /\ call.op = "write" \/ ~call.cut =>
                \A i \in 1..Len(call.out) : call.out[i] = i
          /\ ~call.cut => Len(call.out) = IF call.retry > 0 THEN call.next - 1 ELSE call.taken
          /\ call.op = "write" /\ call.retry > 0 => Len(call.out) = call.next - 1

Inv == TypeOK /\ Owners /\ NothingLeaks /\ Lives /\ Sends

Sock == [Fd -> {"free", "connecting", "up", "dead", "bound", "listening"}]

\* Clients let go of handles: what the others hold is kept, the rest is closed.
LEMMA Release ==
    ASSUME TypeOK, ClientsOwn, NEW h \in [Cl -> Handle \cup {None}],
           NEW s \in Sock,
           Used(h) \subseteq Used(handle), handle' = h,
           fdOf' = [x \in Handle |-> IF x \in Used(h) THEN fdOf[x] ELSE None],
           sock' = Closed(s, Dropped(h))
    PROVE  /\ fdOf' \in [Handle -> Fd \cup {None}] /\ sock' \in Sock
           /\ \A x \in Used(handle') : x \in Used(handle) /\ fdOf'[x] = fdOf[x]
           /\ Held' = Held \ Dropped(h) /\ Dropped(h) \subseteq Held
<1>1. fdOf' \in [Handle -> Fd \cup {None}] /\ sock' \in Sock
  BY DEF TypeOK, Closed, Sock
<1>2. Used(handle) \subseteq Handle
  BY DEF Used, TypeOK
<1>3. \A x \in Used(handle') : x \in Used(handle) /\ fdOf'[x] = fdOf[x]
  <2>1. Used(handle') = Used(h)
    BY DEF Used
  <2> QED
    BY <1>2, <2>1
<1>4. Used(handle') = Used(h)
  BY DEF Used
<1>5. Held' = {fdOf[x] : x \in Used(h)}
  BY <1>3, <1>4 DEF Held
<1>6. Dropped(h) = {fdOf[x] : x \in Used(handle) \ Used(h)}
  BY DEF Dropped
<1>7. \A x, y \in Used(handle) : fdOf[x] = fdOf[y] => x = y
  BY DEF ClientsOwn
<1>8. Dropped(h) \subseteq Held
  BY <1>6 DEF Held
<1>9. ASSUME NEW f PROVE f \in Held' <=> f \in Held /\ f \notin Dropped(h)
  <2>1. f \in Held' <=> \E x \in Used(h) : f = fdOf[x]
    BY <1>5
  <2>2. f \in Held <=> \E x \in Used(handle) : f = fdOf[x]
    BY DEF Held
  <2>3. f \in Dropped(h) <=> \E x \in Used(handle) \ Used(h) : f = fdOf[x]
    BY <1>6
  <2> QED
    BY <1>7, <2>1, <2>2, <2>3
<1>10. Held' = Held \ Dropped(h)
  BY <1>9
<1> QED
  BY <1>1, <1>3, <1>8, <1>10

\* A client that drops its handle: the last one closes the descriptor.
LEMMA LeaveEffect ==
    ASSUME TypeOK, ClientsOwn, NEW c \in Cl, NEW s \in Sock, Leave(c, s)
    PROVE  /\ handle' \in [Cl -> Handle \cup {None}] /\ connected' \in [Cl -> BOOLEAN]
           /\ fdOf' \in [Handle -> Fd \cup {None}] /\ sock' \in Sock
           /\ \A x \in Used(handle') : x \in Used(handle) /\ fdOf'[x] = fdOf[x]
           /\ \E D \in SUBSET Held : Held' = Held \ D /\ sock' = Closed(s, D)
           /\ \A d \in Cl \ {c} : handle'[d] = handle[d] /\ connected'[d] = connected[d]
           /\ handle'[c] = None /\ ~connected'[c]
<1>1. handle' = Without(c) /\ Without(c) \in [Cl -> Handle \cup {None}]
  BY DEF Leave, Without, TypeOK
<1>2. Used(Without(c)) \subseteq Used(handle)
  BY DEF Used, Without, TypeOK
<1>3. /\ fdOf' = [x \in Handle |-> IF x \in Used(Without(c)) THEN fdOf[x] ELSE None]
      /\ sock' = Closed(s, Dropped(Without(c)))
  BY DEF Leave
<1>4. /\ connected' \in [Cl -> BOOLEAN] /\ handle'[c] = None /\ ~connected'[c]
      /\ \A d \in Cl \ {c} : handle'[d] = handle[d] /\ connected'[d] = connected[d]
  BY <1>1 DEF Leave, Without, TypeOK
<1> HIDE DEF Held
<1>5. /\ fdOf' \in [Handle -> Fd \cup {None}] /\ sock' \in Sock
      /\ \A x \in Used(handle') : x \in Used(handle) /\ fdOf'[x] = fdOf[x]
      /\ Held' = Held \ Dropped(Without(c)) /\ Dropped(Without(c)) \subseteq Held
  BY <1>1, <1>2, <1>3, Release
<1> QED
  BY <1>1, <1>3, <1>4, <1>5

\* A copy shares the handle of its original and counts itself in.
LEMMA AssignEffect ==
    ASSUME TypeOK, ClientsOwn, NEW c \in Cl, NEW d \in Cl, Assign(c, d)
    PROVE  /\ handle' \in [Cl -> Handle \cup {None}] /\ connected' \in [Cl -> BOOLEAN]
           /\ fdOf' \in [Handle -> Fd \cup {None}] /\ sock' \in Sock
           /\ \A x \in Used(handle') : x \in Used(handle) /\ fdOf'[x] = fdOf[x]
           /\ \E D \in SUBSET Held : Held' = Held \ D /\ sock' = Closed(sock, D)
           /\ \A e \in Cl \ {c} : handle'[e] = handle[e] /\ connected'[e] = connected[e]
           /\ \/ handle'[c] = None /\ ~connected'[c]
              \/ handle'[c] = handle[d] /\ connected'[c] = connected[d]
<1> DEFINE h == [Without(c) EXCEPT ![c] = Without(c)[d]]
<1>1. handle' = h /\ h \in [Cl -> Handle \cup {None}]
  BY DEF Assign, Without, TypeOK
<1>2. Used(h) \subseteq Used(handle)
  BY DEF Used, Without, TypeOK
<1>3. /\ fdOf' = [x \in Handle |-> IF x \in Used(h) THEN fdOf[x] ELSE None]
      /\ sock' = Closed(sock, Dropped(h))
  BY DEF Assign
<1>4. /\ connected' \in [Cl -> BOOLEAN]
      /\ \A e \in Cl \ {c} : handle'[e] = handle[e] /\ connected'[e] = connected[e]
      /\ \/ handle'[c] = None /\ ~connected'[c]
         \/ handle'[c] = handle[d] /\ connected'[c] = connected[d]
  <2>1. connected' = [connected EXCEPT ![c] = c # d /\ connected[d]]
    BY DEF Assign
  <2>2. (c # d /\ connected[d]) \in BOOLEAN
    OBVIOUS
  <2>3. connected' \in [Cl -> BOOLEAN] /\ connected'[c] = (c # d /\ connected[d])
    BY <2>1, <2>2 DEF TypeOK
  <2>4. \A e \in Cl \ {c} : handle'[e] = handle[e] /\ connected'[e] = connected[e]
    BY <1>1, <2>1 DEF Without, TypeOK
  <2>5. handle'[c] = IF c = d THEN None ELSE handle[d]
    BY <1>1 DEF Without, TypeOK
  <2> QED
    BY <2>3, <2>4, <2>5 DEF TypeOK
<1>5. sock \in Sock
  BY DEF TypeOK, Sock
<1> HIDE DEF h
<1>6. /\ fdOf' \in [Handle -> Fd \cup {None}] /\ sock' \in Sock
      /\ \A x \in Used(handle') : x \in Used(handle) /\ fdOf'[x] = fdOf[x]
      /\ Held' = Held \ Dropped(h) /\ Dropped(h) \subseteq Held
  BY <1>1, <1>2, <1>3, <1>5, Release
<1> QED
  BY <1>1, <1>3, <1>4, <1>6

\* A client with a fresh handle for a descriptor that nobody else owned.
LEMMA OwnEffect ==
    ASSUME TypeOK, ClientsOwn, NEW c \in Cl, NEW f \in Fd, NEW s \in Sock,
           Own(c, f, s)
    PROVE  /\ handle' \in [Cl -> Handle \cup {None}] /\ connected' \in [Cl -> BOOLEAN]
           /\ fdOf' \in [Handle -> Fd \cup {None}] /\ sock' \in Sock
           /\ handle'[c] \in Handle /\ fdOf'[handle'[c]] = f
           /\ \A x \in Used(handle') \ {handle'[c]} : x \in Used(handle) /\ fdOf'[x] = fdOf[x]
           /\ \E D \in SUBSET Held : Held' = (Held \ D) \cup {f} /\ sock' = Closed(s, D)
           /\ \A d \in Cl \ {c} : handle'[d] = handle[d] /\ connected'[d] = connected[d]
           /\ connected'[c]
<1> DEFINE w == Without(c)
           kept == Used(w)
<1>1. PICK h \in Handle \ kept :
        /\ handle' = [handle EXCEPT ![c] = h]
        /\ fdOf' = [x \in Handle |-> IF x \in kept THEN fdOf[x]
                                     ELSE IF x = h THEN f ELSE None]
        /\ sock' = Closed(s, Dropped(w))
        /\ connected' = [connected EXCEPT ![c] = TRUE]
  BY DEF Own
<1>2. w \in [Cl -> Handle \cup {None}] /\ h \in Handle
  BY DEF Without, TypeOK
<1>3. None \notin Handle
  BY SocketsAssumption
<1>4. kept \subseteq Used(handle) /\ kept \subseteq Handle
  BY DEF Used, Without, TypeOK
<1>5. Used(handle') = kept \cup {h}
  BY <1>1, <1>2, <1>3 DEF Used, Without, TypeOK
<1>6. /\ handle' \in [Cl -> Handle \cup {None}] /\ connected' \in [Cl -> BOOLEAN]
      /\ handle'[c] = h /\ connected'[c]
      /\ \A d \in Cl \ {c} : handle'[d] = handle[d] /\ connected'[d] = connected[d]
  BY <1>1 DEF TypeOK
<1>7. /\ fdOf' \in [Handle -> Fd \cup {None}] /\ fdOf'[h] = f
      /\ \A x \in kept : fdOf'[x] = fdOf[x]
  BY <1>1, <1>4 DEF TypeOK
<1>8. sock' \in Sock
  BY <1>1 DEF Closed, Sock
<1>9. Dropped(w) \subseteq Held
  BY DEF Held, Dropped
<1>10. ASSUME NEW g PROVE g \in Held' <=> (g \in Held /\ g \notin Dropped(w)) \/ g = f
  <2>1. g \in Held' <=> g = f \/ \E x \in kept : g = fdOf[x]
    BY <1>5, <1>7 DEF Held
  <2>2. g \in Held <=> \E x \in Used(handle) : g = fdOf[x]
    BY DEF Held
  <2>3. g \in Dropped(w) <=> \E x \in Used(handle) \ kept : g = fdOf[x]
    BY DEF Dropped
  <2>4. \A x, y \in Used(handle) : fdOf[x] = fdOf[y] => x = y
    BY DEF ClientsOwn
  <2> HIDE DEF kept
  <2> QED
    BY <1>4, <2>1, <2>2, <2>3, <2>4
<1>11. Held' = (Held \ Dropped(w)) \cup {f}
  BY <1>10
<1> HIDE DEF kept, w
<1> QED
  BY <1>1, <1>2, <1>4, <1>5, <1>6, <1>7, <1>8, <1>9, <1>11

\* Clients that let go: nobody else's descriptor is closed.
LEMMA LetGo ==
    ASSUME TypeOK, Owners, NEW s \in Sock,
           \A g \in Fd : sock[g] # "free" => s[g] = sock[g],
           \A x \in Used(handle') : x \in Used(handle) /\ fdOf'[x] = fdOf[x],
           NEW D \in SUBSET Held, Held' = Held \ D, sock' = Closed(s, D)
    PROVE  /\ ClientsOwn' /\ Held' \subseteq Held
           /\ \A g \in Fd : g \notin Held => sock'[g] = s[g]
           /\ \A g \in Fd : g \in Held \ Held' => sock'[g] = "free"
<1>1. \A x \in Used(handle') : fdOf'[x] \in Fd /\ fdOf'[x] \notin D /\ fdOf'[x] \in Held
  <2> SUFFICES ASSUME NEW x \in Used(handle') PROVE fdOf'[x] \in Fd /\ fdOf'[x] \in Held'
    OBVIOUS
  <2>1. x \in Used(handle)' BY DEF Used
  <2>2. fdOf'[x] \in Held' BY <2>1 DEF Held
  <2> QED BY <2>2 DEF Owners, ClientsOwn
<1>2. \A g \in Fd : sock'[g] = IF g \in D THEN "free" ELSE s[g]
  BY DEF Closed
<1>3. \A x \in Used(handle') : sock'[fdOf'[x]] \in {"up", "dead"}
  BY <1>1, <1>2 DEF Owners, ClientsOwn
<1>4. \A g, h \in Used(handle') : fdOf'[g] = fdOf'[h] => g = h
  BY DEF Owners, ClientsOwn
<1>5. Used(handle') = Used(handle)'
  BY DEF Used
<1>6. ClientsOwn'
  BY <1>1, <1>3, <1>4, <1>5 DEF ClientsOwn
<1> QED
  BY <1>2, <1>6

\* A client takes a descriptor that nobody had.
LEMMA TakesUp ==
    ASSUME TypeOK, Owners, NEW c \in Cl, NEW f \in Fd, NEW s \in Sock,
           \A g \in Fd : sock[g] # "free" => s[g] = sock[g],
           f \notin Held, s[f] \in {"up", "dead"},
           fdOf'[handle'[c]] = f,
           \A x \in Used(handle') \ {handle'[c]} : x \in Used(handle) /\ fdOf'[x] = fdOf[x],
           NEW D \in SUBSET Held, Held' = (Held \ D) \cup {f}, sock' = Closed(s, D)
    PROVE  /\ ClientsOwn'
           /\ \A g \in Fd : g \notin Held => sock'[g] = s[g]
           /\ \A g \in Fd : g \in Held \ Held' => sock'[g] = "free"
<1> DEFINE n == handle'[c]
<1>1. \A x \in Used(handle') \ {n} : fdOf'[x] \in Held /\ fdOf'[x] # f
  BY DEF Held
<1>2. \A x \in Used(handle') : fdOf'[x] \in Held'
  <2> SUFFICES ASSUME NEW x \in Used(handle') PROVE fdOf'[x] \in Held'
    OBVIOUS
  <2>1. x \in Used(handle)' BY DEF Used
  <2> QED BY <2>1 DEF Held
<1>3. \A x \in Used(handle') \ {n} : fdOf'[x] \in Fd /\ fdOf'[x] \notin D
  BY <1>1, <1>2 DEF Owners, ClientsOwn
<1>4. \A g \in Fd : sock'[g] = IF g \in D THEN "free" ELSE s[g]
  BY DEF Closed
<1>5. \A x \in Used(handle') \ {n} : sock'[fdOf'[x]] \in {"up", "dead"}
  BY <1>3, <1>4 DEF Owners, ClientsOwn
<1>6. sock'[f] \in {"up", "dead"}
  BY <1>4
<1>7. \A x, y \in Used(handle') : fdOf'[x] = fdOf'[y] => x = y
  BY <1>1 DEF Owners, ClientsOwn
<1>8. Used(handle') = Used(handle)'
  BY DEF Used
<1>9. ClientsOwn'
  BY <1>3, <1>5, <1>6, <1>7, <1>8 DEF ClientsOwn
<1> QED
  BY <1>4, <1>9

\* Clients that are left alone while no connection of theirs changes.
LEMMA LeftAlone ==
    ASSUME TypeOK, Owners, UNCHANGED <<handle, fdOf>>,
           \A g \in Held : sock'[g] \in {"up", "dead"}
    PROVE  ClientsOwn' /\ Held' = Held
<1>1. Used(handle)' = Used(handle)
  BY DEF Used
<1>2. Held' = Held
  BY <1>1 DEF Held
<1>3. \A h \in Used(handle) : fdOf[h] \in Held
  BY DEF Held
<1> QED
  BY <1>1, <1>2, <1>3 DEF ClientsOwn, Owners

(***************************************************************************)
(* Types.                                                                  *)
(***************************************************************************)
Ops == {"none", "connect", "write", "stream"}
Counts == 0..Size
Places == 1..Size + 1
Tries == 0..MaxRetry
Bytes == Seq(1..Size)
Calls == [op : Ops, c : Cl \cup {None}, fd : Fd \cup {None}, taken : Counts, left : Counts,
          next : Places, retry : Tries, out : Bytes, cut : BOOLEAN]

Servers == [fd : Fd \cup {None}, accepted : Fd \cup {None}, listening : BOOLEAN]

\* TypeOK variable by variable, as the steps below need it.
LEMMA TypeParts ==
    TypeOK <=> /\ sock \in Sock
               /\ handle \in [Cl -> Handle \cup {None}]
               /\ fdOf \in [Handle -> Fd \cup {None}]
               /\ connected \in [Cl -> BOOLEAN]
               /\ server \in Servers
               /\ waiting \in BOOLEAN /\ errno \in {"gone", "other"}
               /\ call \in Calls
               /\ faults \subseteq {"option", "pending", "begin", "death"}
BY DEF TypeOK, Sock, Servers, Calls, Ops, Counts, Places, Tries, Bytes

\* What is sent are places of the buffer.
LEMMA SentIsSeq ==
    ASSUME TypeOK, Sends, Writing, NEW k \in 1..call.left
    PROVE  /\ [i \in 1..k |-> call.next + i - 1] \in Bytes
           /\ call.out \o [i \in 1..k |-> call.next + i - 1] \in Bytes
           /\ call.next + k <= call.taken + 1
           /\ call.next + k \in Places /\ call.left - k \in Counts
<1>1. /\ call.next \in 1..Size + 1 /\ call.left \in 0..Size /\ call.taken \in 0..Size
      /\ call.out \in Seq(1..Size) /\ Size \in Nat
  BY SocketsAssumption DEF TypeOK
<1>2. call.next + call.left = call.taken + 1
  BY DEF Sends
<1>3. /\ k \in Nat /\ call.next + k <= call.taken + 1
      /\ call.next + k \in Places /\ call.left - k \in Counts
  BY <1>1, <1>2 DEF Places, Counts
<1>4. \A i \in 1..k : call.next + i - 1 \in 1..Size
  BY <1>1, <1>3
<1>5. [i \in 1..k |-> call.next + i - 1] \in Seq(1..Size)
  BY <1>3, <1>4, IsASeq
<1> QED
  BY <1>1, <1>3, <1>5, ConcatProperties DEF Bytes

\* The call that runs after a step of connect() or write().
LEMMA CallTyped ==
    ASSUME Inv, [Next]_vars
    PROVE  call' \in Calls
<1> USE DEF Inv
<1>1. Size \in Nat /\ MaxRetry \in Nat /\ Chunk \in Nat /\ Chunk > 0
  BY SocketsAssumption
<1>2. 0 \in Tries /\ MaxRetry \in Tries /\ 0 \in Counts /\ 1 \in Places /\ <<>> \in Bytes
  BY <1>1, EmptySeq DEF Tries, Counts, Places, Bytes
<1>3. call \in Calls /\ NoCall \in Calls
  BY <1>2, TypeParts DEF NoCall, Calls, Ops
<1>4. CASE call' = call \/ call' = NoCall
  BY <1>3, <1>4
<1>5. ASSUME NEW c \in Cl, ConnectStart(c) PROVE call' \in Calls
  BY <1>3, <1>5 DEF ConnectStart, Calls, Ops, Free
<1>6. ASSUME NEW c \in Cl, Write(c) PROVE call' \in Calls
  <2>1. PICK n \in 1..Size :
          call' = [NoCall EXCEPT !.op = "write", !.c = c, !.fd = FdOf(c), !.taken = n,
                                 !.left = n, !.retry = MaxRetry]
    BY <1>6 DEF Write
  <2>2. n \in Counts /\ FdOf(c) \in Fd \cup {None}
    BY <1>1 DEF FdOf, TypeOK, Counts
  <2> QED
    BY <1>2, <1>3, <2>1, <2>2 DEF Calls, Ops
<1>7. ASSUME NEW c \in Cl, WriteStream(c) PROVE call' \in Calls
  BY <1>3, <1>7 DEF WriteStream, Calls, Ops
<1>8. CASE NextChunk
  <2> DEFINE k == LeastOf(Chunk, Size - call.taken)
  <2>1. FdOf(call.c) \in Fd \cup {None}
    BY <1>8 DEF NextChunk, Sends, FdOf, TypeOK
  <2>2. call.taken \in 0..Size
    BY <1>3 DEF Calls, Counts
  <2>3. k > 0
    BY <1>8 DEF NextChunk
  <2>4. k \in Counts /\ call.taken + k \in Counts /\ call.taken + 1 \in Places
    BY <1>1, <2>2, <2>3 DEF LeastOf, Counts, Places
  <2>5. \E able \in BOOLEAN :
           call' = [call EXCEPT !.taken = @ + k, !.next = call.taken + 1,
                                !.left = k, !.fd = FdOf(call.c),
                                !.retry = IF able THEN MaxRetry ELSE 0,
                                !.cut = @ \/ ~able]
    BY <1>8 DEF NextChunk
  <2> HIDE DEF k
  <2> QED
    BY <1>2, <1>3, <2>1, <2>4, <2>5 DEF Calls
<1>9. CASE SendSome
  <2> DEFINE sent(k) == call.out \o [i \in 1..k |-> call.next + i - 1]
  <2>1. PICK k \in 1..call.left :
          call' = IF k = call.left
                  THEN [call EXCEPT !.left = 0, !.retry = 0, !.out = sent(k)]
                  ELSE [AfterSend(k) EXCEPT !.out = sent(k)]
    BY <1>9 DEF SendSome
  <2>2. sent(k) \in Bytes /\ call.next + k \in Places /\ call.left - k \in Counts
    BY <1>9, SentIsSeq DEF SendSome
  <2> HIDE DEF sent
  <2> QED
    BY <1>2, <1>3, <2>1, <2>2 DEF Calls, AfterSend
<1>10. CASE SendNothing
  <2>1. PICK n \in Attempts : call' = [call EXCEPT !.retry = n, !.cut = @ \/ n = 0]
    BY <1>10 DEF SendNothing
  <2>2. call.retry \in 0..MaxRetry /\ call.retry > 0
    BY <1>3, <1>10 DEF SendNothing, Writing, Calls, Tries
  <2>3. n \in Tries
    BY <1>1, <2>2 DEF Attempts, Tries
  <2> QED
    BY <1>3, <2>1, <2>3 DEF Calls
<1>11. CASE SendFails
  BY <1>2, <1>3, <1>11 DEF SendFails, Calls
<1> QED
  BY <1>4, <1>5, <1>6, <1>7, <1>8, <1>9, <1>10, <1>11 DEF Next, Network, Running,
     Sketch, vars, Arrives, Established, Dies, ConnectFails, ConnectOptionFails,
     ConnectDone, WriteReturns, Stop, Assign, Connected, Available, Begin, End, HasClient

\* Every step keeps the types.
LEMMA TypeStep ==
    ASSUME Inv, [Next]_vars
    PROVE  TypeOK'
<1> USE DEF Inv
<1>1. call' \in Calls
  BY CallTyped
<1>2. sock \in Sock /\ server \in Servers
  BY TypeParts
<1>3. ASSUME UNCHANGED <<sock, handle, fdOf, server, waiting>>,
             connected' \in [Cl -> BOOLEAN], errno' \in {errno, "gone", "other"},
             faults' \subseteq faults \cup {"option"}
      PROVE  TypeOK'
  BY <1>1, <1>3 DEF TypeOK, Calls, Ops, Counts, Places, Tries, Bytes, Sock, Servers
<1>4. ASSUME UNCHANGED <<handle, fdOf, connected>>,
             sock' \in Sock, server' \in Servers, waiting' \in BOOLEAN,
             errno' \in {errno, "gone", "other"},
             faults' \subseteq faults \cup {"option", "pending", "begin", "death"}
      PROVE  TypeOK'
  BY <1>1, <1>4 DEF TypeOK, Calls, Ops, Counts, Places, Tries, Bytes, Sock, Servers
<1>5. ASSUME handle' \in [Cl -> Handle \cup {None}], connected' \in [Cl -> BOOLEAN],
             fdOf' \in [Handle -> Fd \cup {None}], sock' \in Sock, server' \in Servers,
             waiting' \in BOOLEAN, errno' \in {errno, "gone", "other"},
             faults' \subseteq faults \cup {"option", "death"}
      PROVE  TypeOK'
  BY <1>1, <1>5 DEF TypeOK, Calls, Ops, Counts, Places, Tries, Bytes, Sock, Servers
<1>6. ClientsOwn
  BY DEF Owners
<1>7. \A f \in Fd : [sock EXCEPT ![f] = "up"] \in Sock
  BY <1>2 DEF Sock
<1>8. ASSUME NEW c \in Cl, NEW s \in Sock, Leave(c, s), server' \in Servers,
             waiting' \in BOOLEAN, errno' \in {errno, "gone", "other"},
             faults' \subseteq faults \cup {"option", "death"}
      PROVE  TypeOK'
  BY <1>5, <1>6, <1>8, LeaveEffect
<1>9. ASSUME NEW c \in Cl, NEW s \in Sock, NEW f \in Fd, Own(c, f, s), server' \in Servers,
             waiting' \in BOOLEAN, errno' \in {errno, "gone", "other"},
             faults' \subseteq faults \cup {"option", "death"}
      PROVE  TypeOK'
  BY <1>5, <1>6, <1>9, OwnEffect
<1>10. CASE ConnectFails
  <2>1. sock' \in Sock
    BY <1>2, <1>10 DEF ConnectFails, Closed, Sock
  <2> QED
    BY <1>4, <1>10, <2>1, TypeParts DEF ConnectFails, clients
<1>11. CASE ConnectOptionFails
  BY <1>3, <1>11, TypeParts DEF ConnectOptionFails, clients
<1>12. CASE ConnectDone
  <2>1. call.c \in Cl /\ call.fd \in Fd
    BY <1>12 DEF ConnectDone, Owners
  <2> QED
    BY <1>2, <1>9, <1>12, <2>1, TypeParts DEF ConnectDone
<1>13. CASE NextChunk \/ SendSome \/ SendNothing \/ WriteReturns
  BY <1>3, <1>13, TypeParts DEF NextChunk, SendSome, SendNothing, WriteReturns, clients
<1>14. CASE SendFails
  <2>1. call.c \in Cl
    BY <1>14 DEF SendFails, Sends
  <2> QED
    BY <1>2, <1>8, <1>14, <2>1, TypeParts DEF SendFails
<1>15. ASSUME NEW c \in Cl, Stop(c) PROVE TypeOK'
  BY <1>2, <1>8, <1>15, TypeParts DEF Stop
<1>16. ASSUME NEW c \in Cl, ConnectStart(c) PROVE TypeOK'
  <2>1. sock' \in Sock
    BY <1>2, <1>16 DEF ConnectStart, Free, Sock
  <2> QED
    BY <1>4, <1>16, <2>1, TypeParts DEF ConnectStart, clients
<1>17. ASSUME NEW c \in Cl, Write(c) \/ WriteStream(c) PROVE TypeOK'
  BY <1>3, <1>17, TypeParts DEF Write, WriteStream, clients
<1>18. ASSUME NEW c \in Cl, Connected(c) PROVE TypeOK'
  <2>1. errno' \in {errno, "gone", "other"}
    BY <1>18 DEF Connected
  <2>2. connected' \in [Cl -> BOOLEAN]
    BY <1>18 DEF Connected, TypeOK
  <2> QED
    BY <1>3, <1>18, <2>1, <2>2 DEF Connected
<1>19. ASSUME NEW c \in Cl, Available(c) PROVE TypeOK'
  <2>1. CASE /\ Leave(c, sock) /\ UNCHANGED server
             /\ AcceptFails \/ UNCHANGED <<waiting, errno, faults>>
    <3>1. /\ waiting' \in BOOLEAN /\ errno' \in {errno, "gone", "other"}
          /\ faults' \subseteq faults \cup {"option", "death"}
      BY <2>1, TypeParts DEF AcceptFails
    <3> QED
      BY <1>2, <1>8, <2>1, <3>1
  <2>2. CASE /\ server.accepted # None /\ server' = [server EXCEPT !.accepted = None]
             /\ Hand(c, server.accepted, sock) /\ UNCHANGED <<waiting, errno>>
    <3>1. server' \in Servers /\ server.accepted \in Fd
      BY <1>2, <2>2 DEF Servers
    <3> QED
      BY <1>2, <1>8, <1>9, <2>2, <3>1, TypeParts DEF Hand
  <2>3. ASSUME NEW f \in Fd, Hand(c, f, [sock EXCEPT ![f] = "up"]),
               waiting' = FALSE, UNCHANGED <<server, errno>>
        PROVE  TypeOK'
    BY <1>2, <1>7, <1>8, <1>9, <2>3 DEF Hand
  <2> QED
    BY <1>19, <2>1, <2>2, <2>3 DEF Available, Accepted, Free
<1>20. ASSUME NEW c \in Cl, NEW d \in Cl, Assign(c, d) PROVE TypeOK'
  BY <1>2, <1>5, <1>6, <1>20, AssignEffect, TypeParts DEF Assign
<1>21. CASE Begin
  <2>1. [server EXCEPT !.fd = None] \in Servers
    BY <1>2 DEF Servers
  <2>2. \A f \in Fd : /\ [server EXCEPT !.fd = f] \in Servers
                     /\ [fd |-> f, accepted |-> None, listening |-> TRUE] \in Servers
                     /\ [sock EXCEPT ![f] = "bound"] \in Sock
                     /\ [sock EXCEPT ![f] = "listening"] \in Sock
    BY <1>2 DEF Servers, Sock
  <2>3. \/ UNCHANGED sock /\ server' = [server EXCEPT !.fd = None]
        \/ \E f \in Fd : /\ sock' = [sock EXCEPT ![f] = "bound"]
                         /\ server' = [server EXCEPT !.fd = f]
        \/ \E f \in Fd : /\ sock' = [sock EXCEPT ![f] = "listening"]
                         /\ server' = [fd |-> f, accepted |-> None, listening |-> TRUE]
    BY <1>21 DEF Begin, Free
  <2>4. sock' \in Sock /\ server' \in Servers
    BY <1>2, <2>1, <2>2, <2>3
  <2>5. faults' \subseteq faults \cup {"pending", "begin"}
    BY <1>21 DEF Begin
  <2> QED
    BY <1>4, <1>21, <2>4, <2>5, TypeParts DEF Begin, clients
<1>22. CASE End
  <2>1. sock' \in Sock /\ server' \in Servers
    BY <1>2, <1>22 DEF End, Closed, Sock, Servers
  <2> QED
    BY <1>4, <1>22, <2>1, TypeParts DEF End, clients
<1>23. CASE HasClient
  <2>1. \/ UNCHANGED <<sock, server>>
        \/ \E f \in Fd : /\ sock' = [sock EXCEPT ![f] = "up"]
                         /\ server' = [server EXCEPT !.accepted = f]
    BY <1>23 DEF HasClient, Accepted, Free
  <2>2. sock' \in Sock /\ server' \in Servers
    <3>1. \A f \in Fd : [server EXCEPT !.accepted = f] \in Servers
      BY <1>2 DEF Servers
    <3> QED
      BY <1>2, <1>7, <2>1, <3>1
  <2>3. /\ waiting' \in BOOLEAN /\ errno' \in {errno, "gone", "other"}
        /\ faults' \subseteq faults \cup {"death"}
    BY <1>23, TypeParts DEF HasClient, AcceptFails
  <2> QED
    BY <1>4, <1>23, <2>2, <2>3 DEF HasClient, clients
<1>24. ASSUME NEW f \in Fd, Established(f) \/ Dies(f) PROVE TypeOK'
  <2>1. sock' \in Sock
    BY <1>2, <1>24 DEF Established, Dies, Sock
  <2> QED
    BY <1>4, <1>24, <2>1, TypeParts DEF Established, Dies, clients
<1>25. CASE Arrives
  BY <1>4, <1>25, TypeParts DEF Arrives, clients
<1>26. CASE UNCHANGED vars
  BY <1>3, <1>26, TypeParts DEF vars, clients
<1> QED
  BY <1>10, <1>11, <1>12, <1>13, <1>14, <1>15, <1>16, <1>17, <1>18, <1>19, <1>20,
     <1>21, <1>22, <1>23, <1>24, <1>25, <1>26 DEF Next, Network, Running, Sketch

(***************************************************************************)
(* Owners and leaks.                                                       *)
(***************************************************************************)
\* Neither a client nor the server gets or loses a descriptor.
LEMMA NobodyMoves ==
    ASSUME Inv, UNCHANGED <<sock, handle, fdOf, server>>, faults \subseteq faults',
           \/ call' = call
           \/ /\ call'.op # "connect"
              /\ call.op # "connect" \/ "option" \in faults'
    PROVE  Owners' /\ NothingLeaks'
<1> USE DEF Inv
<1>1. \A g \in Held : sock'[g] \in {"up", "dead"}
  BY DEF Held, Owners, ClientsOwn
<1>2. ClientsOwn' /\ Held' = Held
  BY <1>1, LeftAlone
<1> HIDE DEF Held
<1>3. Others' \subseteq Others /\ ("option" \in faults' \/ Others' = Others)
  BY DEF Others
<1>4. Owners'
  BY <1>2, <1>3 DEF Owners, Others
<1>5. NothingLeaks'
  BY <1>2, <1>3 DEF NothingLeaks
<1> QED
  BY <1>4, <1>5

\* Clients let go; what the server accepted may be given up with them.
LEMMA ClientsLeave ==
    ASSUME Inv, NEW s \in Sock, \A g \in Fd : sock[g] # "free" => s[g] = sock[g],
           \A x \in Used(handle') : x \in Used(handle) /\ fdOf'[x] = fdOf[x],
           NEW D \in SUBSET Held, Held' = Held \ D, sock' = Closed(s, D),
           call.op # "connect", call'.op # "connect", faults \subseteq faults',
           server'.fd = server.fd, server'.accepted \in {server.accepted, None},
           "option" \in faults' \/ (s = sock /\ server' = server)
    PROVE  Owners' /\ NothingLeaks'
<1> USE DEF Inv
<1> HIDE DEF Held
<1>1. /\ ClientsOwn' /\ Held' \subseteq Held
      /\ \A g \in Fd : g \notin Held => sock'[g] = s[g]
      /\ \A g \in Fd : g \in Held \ Held' => sock'[g] = "free"
  BY LetGo
<1>2. None \notin Fd /\ server.fd \in Fd \cup {None} /\ server.accepted \in Fd \cup {None}
  BY SocketsAssumption DEF TypeOK
<1>3. None \notin Held
  BY <1>2 DEF Held, Owners, ClientsOwn
<1>4. Others = {server.fd, server.accepted} /\ Others' = {server'.fd, server'.accepted}
  BY DEF Others
<1>5. Held' \cap Others' = {}
  BY <1>1, <1>3, <1>4 DEF Owners
<1>6. /\ server'.accepted # None => sock'[server'.accepted] \in {"up", "dead"}
      /\ server'.fd # None => sock'[server'.fd] \in {"bound", "listening"}
  BY <1>1, <1>2, <1>4 DEF Owners
<1>7. Owners'
  BY <1>1, <1>5, <1>6 DEF Owners
<1>8. NothingLeaks'
  BY <1>1, <1>4 DEF NothingLeaks, Closed
<1> QED
  BY <1>7, <1>8

\* A client takes up what connect() made, what the server accepted or what it
\* accepts now, and lets go of what it had.
LEMMA ClientTakes ==
    ASSUME Inv, NEW c \in Cl, NEW f \in Fd, NEW s \in Sock,
           \A g \in Fd : g # f => s[g] = sock[g], s[f] \in {"up", "dead"},
           sock[f] # "free" => s[f] = sock[f], f \notin Held, f # server.fd,
           fdOf'[handle'[c]] = f,
           \A x \in Used(handle') \ {handle'[c]} : x \in Used(handle) /\ fdOf'[x] = fdOf[x],
           NEW D \in SUBSET Held, Held' = (Held \ D) \cup {f}, sock' = Closed(s, D),
           call.op = "connect" => call.fd = f, call'.op # "connect", faults' = faults,
           server'.fd = server.fd, f # server'.accepted,
           server'.accepted = server.accepted
              \/ (server'.accepted = None /\ server.accepted = f)
    PROVE  Owners' /\ NothingLeaks'
<1> USE DEF Inv
<1> HIDE DEF Held
<1>1. /\ ClientsOwn'
      /\ \A g \in Fd : g \notin Held => sock'[g] = s[g]
      /\ \A g \in Fd : g \in Held \ Held' => sock'[g] = "free"
  BY TakesUp
<1>2. None \notin Fd /\ server.fd \in Fd \cup {None} /\ server.accepted \in Fd \cup {None}
  BY SocketsAssumption DEF TypeOK
<1>3. None \notin Held
  BY <1>2 DEF Held, Owners, ClientsOwn
<1>4. /\ Others \subseteq {server.fd, server.accepted, f}
      /\ {server.fd, server.accepted} \subseteq Others
      /\ Others' = {server'.fd, server'.accepted}
  BY DEF Others
<1>5. Held' \cap Others' = {}
  BY <1>2, <1>3, <1>4 DEF Owners
<1>6. /\ server'.accepted # None => sock'[server'.accepted] \in {"up", "dead"}
      /\ server'.fd # None => sock'[server'.fd] \in {"bound", "listening"}
  BY <1>1, <1>2, <1>4 DEF Owners
<1>7. Owners'
  BY <1>1, <1>5, <1>6 DEF Owners
<1>8. NothingLeaks'
  BY <1>1, <1>2, <1>4 DEF NothingLeaks
<1> QED
  BY <1>7, <1>8

\* Two calls that begin or end without a move of a client.
LEMMA ConnectFailsOwners ==
    ASSUME Inv, ConnectFails
    PROVE  Owners' /\ NothingLeaks'
<1> USE DEF Inv
<1>1. /\ call.fd \in Fd /\ call.fd \notin Held /\ call.fd # server.accepted
      /\ sock[call.fd] \in {"connecting", "up", "dead"}
  BY DEF ConnectFails, Owners, Others
<1>2. \A g \in Fd : sock'[g] = IF g = call.fd THEN "free" ELSE sock[g]
  BY DEF ConnectFails, Closed
<1>3. \A g \in Held : sock'[g] \in {"up", "dead"}
  BY <1>1, <1>2 DEF Held, Owners, ClientsOwn
<1>4. ClientsOwn' /\ Held' = Held
  BY <1>3, LeftAlone DEF ConnectFails, clients
<1> HIDE DEF Held
<1>5. /\ Others = {server.fd, server.accepted, call.fd}
      /\ Others' = {server.fd, server.accepted} /\ call'.op # "connect"
  BY DEF ConnectFails, Others, NoCall
<1>6. server.fd \in Fd \cup {None} /\ server.accepted \in Fd \cup {None} /\ server' = server
  BY DEF TypeOK, ConnectFails
<1>7. Owners'
  BY <1>1, <1>2, <1>4, <1>5, <1>6 DEF Owners
<1>8. NothingLeaks'
  BY <1>2, <1>4, <1>5 DEF NothingLeaks, ConnectFails
<1> QED
  BY <1>7, <1>8

\* socket() in connect() gives the call a descriptor nobody owned.
LEMMA ConnectStartOwners ==
    ASSUME Inv, NEW c \in Cl, ConnectStart(c)
    PROVE  Owners' /\ NothingLeaks'
<1> USE DEF Inv
<1>1. PICK f \in Fd : /\ sock[f] = "free" /\ sock' = [sock EXCEPT ![f] = "connecting"]
                      /\ call'.op = "connect" /\ call'.c = c /\ call'.fd = f
  BY DEF ConnectStart, Free, NoCall
<1>2. call.op = "none"
  BY DEF ConnectStart, Idle, NoCall
<1>3. /\ f \notin Held /\ \A g \in Held : sock'[g] \in {"up", "dead"}
      /\ \A g \in Fd : g # f => sock'[g] = sock[g]
      /\ sock'[f] = "connecting"
  BY <1>1 DEF Held, Owners, ClientsOwn, TypeOK
<1>4. ClientsOwn' /\ Held' = Held
  BY <1>3, LeftAlone DEF ConnectStart, clients
<1> HIDE DEF Held
<1>5. /\ None \notin Fd
      /\ server.fd \in Fd \cup {None} /\ server.accepted \in Fd \cup {None} /\ server' = server
  BY SocketsAssumption DEF TypeOK, ConnectStart
<1>6. /\ server.fd # f /\ server.accepted # f
      /\ Others = {server.fd, server.accepted}
      /\ Others' = {server.fd, server.accepted, f}
  BY <1>1, <1>2, <1>5 DEF Owners, Others
<1>7. Owners'
  BY <1>1, <1>3, <1>4, <1>5, <1>6 DEF Owners
<1>8. NothingLeaks'
  BY <1>3, <1>4, <1>6 DEF NothingLeaks, ConnectStart
<1> QED
  BY <1>7, <1>8

\* The server: begin(), end() and hasClient().
LEMMA ServerOwners ==
    ASSUME Inv, Idle, UNCHANGED <<handle, fdOf, call>>, TypeOK',
           \A g \in Fd : g # server.fd /\ sock[g] # "free" => sock'[g] = sock[g],
           server'.fd # None => sock'[server'.fd] \in {"bound", "listening"},
           server'.accepted # None => sock'[server'.accepted] \in {"up", "dead"},
           server'.fd # server.fd => server'.fd = None \/ sock[server'.fd] = "free",
           server'.accepted # server.accepted =>
              server'.accepted = None \/ sock[server'.accepted] = "free",
           faults \subseteq faults',
           faults' \cap {"begin", "pending"} = {} =>
              /\ server'.fd # server.fd => server.fd = None \/ sock'[server.fd] = "free"
              /\ server'.accepted # server.accepted => server.accepted = None
              /\ \A g \in Fd : sock[g] = "free" /\ sock'[g] # "free" => g \in Others'
    PROVE  Owners' /\ NothingLeaks'
<1> USE DEF Inv
<1>1. /\ None \notin Fd /\ server.fd \in Fd \cup {None} /\ server.accepted \in Fd \cup {None}
      /\ server'.fd \in Fd \cup {None} /\ server'.accepted \in Fd \cup {None}
  BY SocketsAssumption DEF TypeOK
<1>2. /\ call.op # "connect" /\ call'.op # "connect"
      /\ Others = {server.fd, server.accepted} /\ Others' = {server'.fd, server'.accepted}
  BY DEF Idle, NoCall, Others
<1>3. \A g \in Held : g \in Fd /\ sock[g] \in {"up", "dead"} /\ g # server.fd
  BY <1>2 DEF Held, Owners, ClientsOwn
<1>4. \A g \in Held : sock'[g] \in {"up", "dead"}
  BY <1>3
<1>5. ClientsOwn' /\ Held' = Held
  BY <1>4, LeftAlone
<1> HIDE DEF Held
<1>6. Held \cap Others' = {}
  BY <1>1, <1>2, <1>3 DEF Owners
<1>7. Owners'
  BY <1>2, <1>5, <1>6 DEF Owners
<1>8. NothingLeaks'
  BY <1>1, <1>2, <1>5 DEF NothingLeaks
<1> QED
  BY <1>7, <1>8

\* The network changes the state of descriptors and never their owners.
LEMMA NetworkOwners ==
    ASSUME Inv, NEW f \in Fd, Established(f) \/ Dies(f)
    PROVE  Owners' /\ NothingLeaks'
<1> USE DEF Inv
<1>1. /\ \A g \in Fd : g # f => sock'[g] = sock[g]
      /\ \/ sock[f] = "connecting" /\ sock'[f] = "up"
         \/ sock[f] = "up" /\ sock'[f] = "dead"
  BY DEF Established, Dies, TypeOK
<1>2. UNCHANGED <<handle, fdOf, server, call>> /\ faults \subseteq faults'
  BY DEF Established, Dies, clients
<1>3. \A g \in Held : sock'[g] \in {"up", "dead"}
  BY <1>1 DEF Held, Owners, ClientsOwn
<1>4. ClientsOwn' /\ Held' = Held
  BY <1>2, <1>3, LeftAlone
<1> HIDE DEF Held
<1>5. Others' = Others
  BY <1>2 DEF Others
<1>6. server.fd \in Fd \cup {None} /\ server.accepted \in Fd \cup {None}
  BY DEF TypeOK
<1>7. Owners'
  BY <1>1, <1>2, <1>4, <1>5, <1>6 DEF Owners
<1>8. NothingLeaks'
  BY <1>1, <1>2, <1>4, <1>5 DEF NothingLeaks
<1> QED
  BY <1>7, <1>8

\* Every step keeps owners and leaks accounted for.
LEMMA OwnersStep ==
    ASSUME Inv, [Next]_vars, TypeOK'
    PROVE  Owners' /\ NothingLeaks'
<1> USE DEF Inv
<1>1. sock \in Sock /\ ClientsOwn
  BY TypeParts DEF Owners
<1>2. CASE ConnectOptionFails \/ NextChunk \/ SendSome \/ SendNothing \/ WriteReturns
           \/ Arrives \/ UNCHANGED vars
  <2>1. UNCHANGED <<sock, handle, fdOf, server>> /\ faults \subseteq faults'
    BY <1>2 DEF ConnectOptionFails, NextChunk, SendSome, SendNothing, WriteReturns,
       Arrives, vars, clients
  <2>2. \/ call' = call
        \/ /\ call'.op # "connect"
           /\ call.op # "connect" \/ "option" \in faults'
    <3>1. call \in Calls
      BY TypeParts
    <3>2. CASE NextChunk
      BY <3>1, <3>2 DEF NextChunk, Calls
    <3>3. CASE SendSome
      BY <3>1, <3>3 DEF SendSome, AfterSend, Writing, Calls
    <3>4. CASE SendNothing
      BY <3>1, <3>4 DEF SendNothing, Writing, Calls
    <3> QED
      BY <1>2, <3>2, <3>3, <3>4 DEF ConnectOptionFails, WriteReturns, Arrives, vars, NoCall
  <2> QED
    BY <2>1, <2>2, NobodyMoves
<1>3. ASSUME NEW c \in Cl, Write(c) \/ WriteStream(c) \/ Connected(c)
      PROVE  Owners' /\ NothingLeaks'
  <2>1. UNCHANGED <<sock, handle, fdOf, server, faults>>
    BY <1>3 DEF Write, WriteStream, Connected, clients
  <2>2. call' = call \/ (call'.op # "connect" /\ call.op # "connect")
    <3>1. CASE Write(c)
      BY <3>1 DEF Write, Idle, NoCall
    <3>2. CASE WriteStream(c)
      BY <3>2 DEF WriteStream, Idle, NoCall
    <3> QED
      BY <1>3, <3>1, <3>2 DEF Connected
  <2> QED
    BY <2>1, <2>2, NobodyMoves
<1>4. CASE ConnectFails
  BY <1>4, ConnectFailsOwners
<1>5. ASSUME NEW c \in Cl, ConnectStart(c) PROVE Owners' /\ NothingLeaks'
  BY <1>5, ConnectStartOwners
<1>6. ASSUME NEW f \in Fd, Established(f) \/ Dies(f) PROVE Owners' /\ NothingLeaks'
  BY <1>6, NetworkOwners
<1>7. ASSUME NEW c \in Cl, NEW s \in Sock, \A g \in Fd : sock[g] # "free" => s[g] = sock[g],
             Leave(c, s), call.op # "connect", call'.op # "connect", faults \subseteq faults',
             server'.fd = server.fd, server'.accepted \in {server.accepted, None},
             "option" \in faults' \/ (s = sock /\ server' = server)
      PROVE  Owners' /\ NothingLeaks'
  <2>1. /\ \A x \in Used(handle') : x \in Used(handle) /\ fdOf'[x] = fdOf[x]
        /\ \E D \in SUBSET Held : Held' = Held \ D /\ sock' = Closed(s, D)
    BY <1>1, <1>7, LeaveEffect
  <2> QED
    BY <1>7, <2>1, ClientsLeave
<1>8. ASSUME NEW c \in Cl, Stop(c) PROVE Owners' /\ NothingLeaks'
  BY <1>1, <1>7, <1>8 DEF Stop, Idle, NoCall
<1>9. CASE SendFails
  <2>1. call.c \in Cl /\ call.op # "connect" /\ call'.op # "connect"
    BY <1>9 DEF SendFails, Writing, Sends
  <2> QED
    BY <1>1, <1>7, <1>9, <2>1 DEF SendFails
<1>10. ASSUME NEW c \in Cl, NEW d \in Cl, Assign(c, d) PROVE Owners' /\ NothingLeaks'
  <2>1. /\ \A x \in Used(handle') : x \in Used(handle) /\ fdOf'[x] = fdOf[x]
        /\ \E D \in SUBSET Held : Held' = Held \ D /\ sock' = Closed(sock, D)
    BY <1>1, <1>10, AssignEffect
  <2>2. call.op # "connect" /\ UNCHANGED <<server, call, faults>>
    BY <1>10 DEF Assign, Idle, NoCall
  <2> QED
    BY <1>1, <2>1, <2>2, ClientsLeave
<1>11. ASSUME NEW c \in Cl, NEW f \in Fd, NEW s \in Sock, Own(c, f, s),
              \A g \in Fd : g # f => s[g] = sock[g], s[f] \in {"up", "dead"},
              sock[f] # "free" => s[f] = sock[f], f \notin Held, f # server.fd,
              call.op = "connect" => call.fd = f, call'.op # "connect", faults' = faults,
              server'.fd = server.fd, f # server'.accepted,
              server'.accepted = server.accepted
                 \/ (server'.accepted = None /\ server.accepted = f)
       PROVE  Owners' /\ NothingLeaks'
  <2>1. /\ fdOf'[handle'[c]] = f
        /\ \A x \in Used(handle') \ {handle'[c]} : x \in Used(handle) /\ fdOf'[x] = fdOf[x]
        /\ \E D \in SUBSET Held : Held' = (Held \ D) \cup {f} /\ sock' = Closed(s, D)
    BY <1>1, <1>11, OwnEffect
  <2> QED
    BY <1>11, <2>1, ClientTakes
<1>12. CASE ConnectDone
  <2>1. /\ call.c \in Cl /\ call.fd \in Fd /\ call.fd \notin Held
        /\ call.fd # server.accepted /\ sock[call.fd] = "up"
    BY <1>12 DEF ConnectDone, Owners, Others
  <2>2. call.fd # server.fd
    BY <2>1, SocketsAssumption DEF Owners
  <2>3. /\ Own(call.c, call.fd, sock) /\ call'.op # "connect"
        /\ server' = server /\ faults' = faults
    BY <1>12 DEF ConnectDone, NoCall
  <2> QED
    BY <1>1, <1>11, <2>1, <2>2, <2>3
<1>13. ASSUME NEW c \in Cl, Available(c) PROVE Owners' /\ NothingLeaks'
  <2>1. call.op # "connect" /\ call' = call
    BY <1>13 DEF Available, Idle, NoCall
  <2>2. CASE Leave(c, sock) /\ server' = server /\ faults \subseteq faults'
    BY <1>1, <1>7, <2>1, <2>2
  <2>3. CASE /\ server.accepted # None /\ server' = [server EXCEPT !.accepted = None]
             /\ Hand(c, server.accepted, sock)
    <3> DEFINE f == server.accepted
    <3>1. /\ f \in Fd /\ f \notin Held /\ sock[f] \in {"up", "dead"} /\ f # server.fd
          /\ None \notin Fd
      BY <2>3, SocketsAssumption DEF TypeOK, Owners, Others
    <3>2. server'.fd = server.fd /\ server'.accepted = None
      BY <2>3 DEF TypeOK
    <3>3. CASE Own(c, f, sock) /\ UNCHANGED faults
      BY <1>1, <1>11, <2>1, <3>1, <3>2, <3>3
    <3>4. CASE Leave(c, sock) /\ faults' = faults \cup {"option"}
      BY <1>1, <1>7, <2>1, <3>2, <3>4
    <3> QED
      BY <2>3, <3>3, <3>4 DEF Hand
  <2>4. ASSUME NEW f \in Fd, sock[f] = "free", Hand(c, f, [sock EXCEPT ![f] = "up"]),
               server.accepted = None, server' = server
        PROVE  Owners' /\ NothingLeaks'
    <3> DEFINE s == [sock EXCEPT ![f] = "up"]
    <3>1. /\ s \in Sock /\ s[f] = "up" /\ \A g \in Fd : g # f => s[g] = sock[g]
          /\ f \notin Held /\ f # server.fd /\ f # None
      BY <1>1, <2>4, SocketsAssumption DEF Sock, Owners, ClientsOwn, Held
    <3> HIDE DEF s
    <3>2. CASE Own(c, f, s) /\ UNCHANGED faults
      BY <1>11, <2>1, <2>4, <3>1, <3>2
    <3>3. CASE Leave(c, s) /\ faults' = faults \cup {"option"}
      BY <1>7, <2>1, <2>4, <3>1, <3>3
    <3> QED
      BY <2>4, <3>2, <3>3 DEF Hand, s
  <2> QED
    BY <1>13, <2>2, <2>3, <2>4 DEF Available, AcceptFails, Accepted, Free
<1>14. CASE Begin
  <2>1. Idle /\ UNCHANGED <<handle, fdOf, call>> /\ faults \subseteq faults'
    BY <1>14 DEF Begin, clients
  <2>2. \/ UNCHANGED sock /\ server' = [server EXCEPT !.fd = None]
        \/ \E f \in Free : /\ sock' = [sock EXCEPT ![f] = "bound"]
                           /\ server' = [server EXCEPT !.fd = f]
        \/ \E f \in Free : /\ sock' = [sock EXCEPT ![f] = "listening"]
                           /\ server' = [fd |-> f, accepted |-> None, listening |-> TRUE]
    BY <1>14 DEF Begin
  <2>3. /\ server.fd # None => "begin" \in faults'
        /\ server.accepted # None /\ server'.listening => "pending" \in faults'
    BY <1>14 DEF Begin
  <2>4. /\ server.fd \in Fd \cup {None} /\ server.accepted \in Fd \cup {None}
        /\ server \in Servers
    BY TypeParts DEF Servers
  <2>5. server.accepted # None => sock[server.accepted] \in {"up", "dead"}
    BY DEF Owners
  <2>6. Others' = {server'.fd, server'.accepted}
    BY <2>1 DEF Others, Idle, NoCall
  <2>7. CASE UNCHANGED sock /\ server' = [server EXCEPT !.fd = None]
    <3>1. server'.fd = None /\ server'.accepted = server.accepted
      BY <2>4, <2>7 DEF Servers
    <3> QED
      BY <2>1, <2>3, <2>5, <2>7, <3>1, ServerOwners
  <2>8. ASSUME NEW f \in Free, sock' = [sock EXCEPT ![f] = "bound"],
               server' = [server EXCEPT !.fd = f]
        PROVE  Owners' /\ NothingLeaks'
    <3>1. server'.fd = f /\ server'.accepted = server.accepted
      BY <2>4, <2>8 DEF Servers
    <3>2. /\ f \in Fd /\ sock[f] = "free" /\ sock'[f] = "bound"
          /\ \A g \in Fd : g # f => sock'[g] = sock[g]
      BY <1>1, <2>8 DEF Free, Sock
    <3> QED
      BY <2>1, <2>3, <2>4, <2>5, <2>6, <3>1, <3>2, ServerOwners
  <2>9. ASSUME NEW f \in Free, sock' = [sock EXCEPT ![f] = "listening"],
               server' = [fd |-> f, accepted |-> None, listening |-> TRUE]
        PROVE  Owners' /\ NothingLeaks'
    <3>1. server'.fd = f /\ server'.accepted = None /\ server'.listening
      BY <2>9
    <3>2. /\ f \in Fd /\ sock[f] = "free" /\ sock'[f] = "listening"
          /\ \A g \in Fd : g # f => sock'[g] = sock[g]
      BY <1>1, <2>9 DEF Free, Sock
    <3> QED
      BY <2>1, <2>3, <2>4, <2>6, <3>1, <3>2, ServerOwners
  <2> QED
    BY <2>2, <2>7, <2>8, <2>9
<1>15. CASE End
  <2>1. Idle /\ UNCHANGED <<handle, fdOf, call, faults>>
    BY <1>15 DEF End, clients
  <2>2. server'.fd = None /\ server'.accepted = server.accepted
    BY <1>15 DEF End, TypeOK
  <2>3. \A g \in Fd : sock'[g] = IF g = server.fd THEN "free" ELSE sock[g]
    BY <1>15, SocketsAssumption DEF End, Closed
  <2>4. /\ server.fd \in Fd \cup {None} /\ server.accepted \in Fd \cup {None}
        /\ server.fd # None => sock[server.fd] \in {"bound", "listening"}
        /\ server.accepted # None => sock[server.accepted] \in {"up", "dead"}
    BY DEF TypeOK, Owners
  <2> QED
    BY <2>1, <2>2, <2>3, <2>4, ServerOwners
<1>16. CASE HasClient
  <2>1. /\ Idle /\ UNCHANGED <<handle, fdOf, call>> /\ server.accepted = None
        /\ faults \subseteq faults'
    BY <1>16 DEF HasClient, AcceptFails, clients
  <2>2. CASE UNCHANGED <<sock, server>>
    BY <2>1, <2>2, NobodyMoves
  <2>3. ASSUME NEW f \in Free, sock' = [sock EXCEPT ![f] = "up"],
               server' = [server EXCEPT !.accepted = f]
        PROVE  Owners' /\ NothingLeaks'
    <3>1. server'.fd = server.fd /\ server'.accepted = f
      BY <2>3 DEF TypeOK
    <3>2. /\ f \in Fd /\ sock[f] = "free" /\ sock'[f] = "up"
          /\ \A g \in Fd : g # f => sock'[g] = sock[g]
      BY <1>1, <2>3 DEF Free, Sock
    <3>3. /\ server.fd \in Fd \cup {None}
          /\ server.fd # None => sock[server.fd] \in {"bound", "listening"}
      BY DEF TypeOK, Owners
    <3>4. Others' = {server'.fd, server'.accepted}
      BY <2>1 DEF Others, Idle, NoCall
    <3> QED
      BY <2>1, <3>1, <3>2, <3>3, <3>4, ServerOwners
  <2> QED
    BY <1>16, <2>2, <2>3 DEF HasClient, Accepted
<1> QED
  BY <1>2, <1>3, <1>4, <1>5, <1>6, <1>8, <1>9, <1>10, <1>12, <1>13, <1>14, <1>15, <1>16
     DEF Next, Network, Running, Sketch

(***************************************************************************)
(* Who is connected.                                                       *)
(***************************************************************************)
LEMMA LivesStep ==
    ASSUME Inv, [Next]_vars
    PROVE  Lives'
<1> USE DEF Inv
<1>1. sock \in Sock /\ ClientsOwn
  BY TypeParts DEF Owners
<1>2. /\ \A c \in Cl : connected[c] => handle[c] # None
      /\ \A c \in Cl : "death" \notin faults /\ handle[c] # None => connected[c]
      /\ "death" \notin faults => errno # "gone" /\ \A f \in Fd : sock[f] # "dead"
  BY DEF Lives, LiveStaysConnected
<1>3. ASSUME UNCHANGED <<handle, connected>>, faults \subseteq faults',
             errno' \in {errno, "other"}, \A f \in Fd : sock'[f] = "dead" => sock[f] = "dead"
      PROVE  Lives'
  BY <1>2, <1>3 DEF Lives, LiveStaysConnected
<1>4. CASE \/ ConnectFails \/ ConnectOptionFails \/ NextChunk \/ SendSome \/ SendNothing
           \/ WriteReturns \/ Begin \/ End \/ Arrives \/ UNCHANGED vars
  <2>1. UNCHANGED <<handle, connected>> /\ faults \subseteq faults' /\ errno' \in {errno, "other"}
    BY <1>4 DEF ConnectFails, ConnectOptionFails, NextChunk, SendSome, SendNothing,
       WriteReturns, Begin, End, Arrives, vars, clients
  <2>2. \A f \in Fd : sock'[f] = "dead" => sock[f] = "dead"
    BY <1>1, <1>4 DEF ConnectFails, ConnectOptionFails, NextChunk, SendSome, SendNothing,
       WriteReturns, Begin, End, Arrives, vars, Closed, Free, Sock
  <2> QED
    BY <1>3, <2>1, <2>2
<1>16. CASE HasClient
  <2>1. /\ UNCHANGED <<handle, connected>> /\ faults \subseteq faults'
        /\ "death" \notin faults' => errno' \in {errno, "other"}
    BY <1>16 DEF HasClient, AcceptFails, clients
  <2>2. \A f \in Fd : sock'[f] = "dead" => sock[f] = "dead"
    BY <1>1, <1>16 DEF HasClient, Accepted, Free, Sock
  <2> QED
    BY <1>2, <2>1, <2>2 DEF Lives, LiveStaysConnected
<1>5. ASSUME NEW c \in Cl, ConnectStart(c) \/ Write(c) \/ WriteStream(c) PROVE Lives'
  <2>1. UNCHANGED <<handle, connected, faults>> /\ errno' \in {errno, "other"}
    BY <1>5 DEF ConnectStart, Write, WriteStream, clients
  <2>2. \A f \in Fd : sock'[f] = "dead" => sock[f] = "dead"
    BY <1>1, <1>5 DEF ConnectStart, Write, WriteStream, Free, Sock
  <2> QED
    BY <1>3, <2>1, <2>2
<1>6. ASSUME NEW f \in Fd, Established(f) PROVE Lives'
  BY <1>1, <1>3, <1>6 DEF Established, clients, Sock
<1>7. ASSUME NEW f \in Fd, Dies(f) PROVE Lives'
  BY <1>2, <1>7 DEF Dies, clients, Lives, LiveStaysConnected
<1>8. ASSUME NEW c \in Cl, Connected(c) PROVE Lives'
  <2>1. /\ connected[c] /\ UNCHANGED <<sock, handle, faults>>
        /\ errno' \in {errno, IF FdOf(c) # None /\ sock[FdOf(c)] = "dead"
                              THEN "gone" ELSE "other"}
        /\ connected' = [connected EXCEPT ![c] = errno' # "gone"]
    BY <1>8 DEF Connected, Gone
  <2>2. /\ handle[c] \in Used(handle) /\ FdOf(c) = fdOf[handle[c]]
    BY <1>2, <2>1 DEF Used, FdOf
  <2>3. FdOf(c) \in Fd /\ None \notin Fd /\ sock[FdOf(c)] \in {"up", "dead"}
    BY <2>2, <1>1, SocketsAssumption DEF ClientsOwn
  <2>4. "death" \notin faults => errno' \in {errno, "other"} /\ errno' # "gone"
    BY <1>2, <2>1, <2>3
  <2>5. \A d \in Cl : connected'[d] = IF d = c THEN errno' # "gone" ELSE connected[d]
    BY <2>1 DEF TypeOK
  <2> QED
    BY <1>2, <2>1, <2>4, <2>5 DEF Lives, LiveStaysConnected
<1>9. ASSUME NEW c \in Cl, NEW s \in Sock, \A f \in Fd : s[f] = "dead" => sock[f] = "dead",
             Leave(c, s), faults \subseteq faults',
             "death" \notin faults' => errno' \in {errno, "other"}
      PROVE  Lives'
  <2>1. /\ handle'[c] = None /\ ~connected'[c]
        /\ \A d \in Cl \ {c} : handle'[d] = handle[d] /\ connected'[d] = connected[d]
    BY <1>1, <1>9, LeaveEffect
  <2>2. \A f \in Fd : sock'[f] = "dead" => sock[f] = "dead"
    BY <1>9 DEF Leave, Closed
  <2> QED
    BY <1>2, <1>9, <2>1, <2>2 DEF Lives, LiveStaysConnected
<1>10. ASSUME NEW c \in Cl, NEW g \in Fd, NEW s \in Sock,
              \A f \in Fd : s[f] = "dead" => sock[f] = "dead",
              Own(c, g, s), faults' = faults, errno' = errno
       PROVE  Lives'
  <2>1. /\ handle'[c] \in Handle /\ connected'[c] /\ None \notin Handle
        /\ \A d \in Cl \ {c} : handle'[d] = handle[d] /\ connected'[d] = connected[d]
    BY <1>1, <1>10, OwnEffect, SocketsAssumption
  <2>2. \A f \in Fd : sock'[f] = "dead" => sock[f] = "dead"
    BY <1>10 DEF Own, Closed
  <2> QED
    BY <1>2, <1>10, <2>1, <2>2 DEF Lives, LiveStaysConnected
<1>11. ASSUME NEW c \in Cl, Stop(c) PROVE Lives'
  BY <1>1, <1>9, <1>11 DEF Stop
<1>12. CASE SendFails
  <2>1. call.c \in Cl /\ handle[call.c] # None /\ call.fd = FdOf(call.c)
    BY <1>12 DEF SendFails, Sends
  <2>2. call.fd \in Fd
    BY <1>1, <2>1 DEF FdOf, Used, ClientsOwn
  <2>3. "death" \notin faults => errno' = "other"
    BY <1>2, <1>12, <2>2 DEF SendFails
  <2> QED
    BY <1>1, <1>9, <1>12, <2>1, <2>3 DEF SendFails
<1>13. CASE ConnectDone
  <2>1. call.c \in Cl /\ call.fd \in Fd
    BY <1>13 DEF ConnectDone, Owners
  <2> QED
    BY <1>1, <1>10, <1>13, <2>1 DEF ConnectDone
<1>14. ASSUME NEW c \in Cl, NEW d \in Cl, Assign(c, d) PROVE Lives'
  <2>1. /\ \A e \in Cl \ {c} : handle'[e] = handle[e] /\ connected'[e] = connected[e]
        /\ \/ handle'[c] = None /\ ~connected'[c]
           \/ handle'[c] = handle[d] /\ connected'[c] = connected[d]
    BY <1>1, <1>14, AssignEffect
  <2>2. \A f \in Fd : sock'[f] = "dead" => sock[f] = "dead"
    BY <1>14 DEF Assign, Closed
  <2>3. \A e \in Cl : \/ handle'[e] = None /\ ~connected'[e]
                     \/ \E x \in Cl : handle'[e] = handle[x] /\ (connected'[e] <=> connected[x])
    BY <2>1, Zenon
  <2>4. \A e \in Cl : connected'[e] => handle'[e] # None
    BY <1>2, <2>3, Zenon
  <2>5. "death" \notin faults => \A e \in Cl : handle'[e] # None => connected'[e]
    BY <1>2, <2>3, Zenon
  <2>6. faults' = faults /\ errno' = errno
    BY <1>14 DEF Assign
  <2> QED
    BY <1>2, <2>2, <2>4, <2>5, <2>6 DEF Lives, LiveStaysConnected
<1>15. ASSUME NEW c \in Cl, Available(c) PROVE Lives'
  <2>1. CASE Leave(c, sock) /\ (AcceptFails \/ UNCHANGED <<errno, faults>>)
    <3>1. faults \subseteq faults' /\ ("death" \notin faults' => errno' \in {errno, "other"})
      BY <2>1 DEF AcceptFails
    <3> QED
      BY <1>1, <1>9, <2>1, <3>1
  <2>2. CASE /\ server.accepted # None /\ Hand(c, server.accepted, sock) /\ UNCHANGED errno
    <3>1. server.accepted \in Fd
      BY <2>2 DEF TypeOK
    <3> QED
      BY <1>1, <1>9, <1>10, <2>2, <3>1 DEF Hand
  <2>3. ASSUME NEW f \in Fd, Hand(c, f, [sock EXCEPT ![f] = "up"]), UNCHANGED errno
        PROVE  Lives'
    <3> DEFINE s == [sock EXCEPT ![f] = "up"]
    <3>1. s \in Sock /\ \A g \in Fd : s[g] = "dead" => sock[g] = "dead"
      BY <1>1 DEF Sock
    <3>2. Hand(c, f, s)
      BY <2>3
    <3> HIDE DEF s
    <3> QED
      BY <1>9, <1>10, <2>3, <3>1, <3>2 DEF Hand
  <2> QED
    BY <1>15, <2>1, <2>2, <2>3 DEF Available, Accepted, Free
<1> QED
  BY <1>4, <1>5, <1>6, <1>7, <1>8, <1>11, <1>12, <1>13, <1>14, <1>15,
     <1>16 DEF Next, Network, Running, Sketch

(***************************************************************************)
(* What is sent.                                                           *)
(***************************************************************************)
\* A sequence goes on with m, m + 1, ..., m + k - 1.
LEMMA GoesOn ==
    ASSUME NEW s \in Seq(Nat), NEW k \in Nat, NEW m \in Nat,
           \A i \in 1..Len(s) - 1 : s[i] < s[i + 1],
           \A i \in 1..Len(s) : s[i] <= m - 1
    PROVE  LET t == s \o [i \in 1..k |-> m + i - 1] IN
           /\ \A i \in 1..Len(t) - 1 : t[i] < t[i + 1]
           /\ \A i \in 1..Len(t) : t[i] <= m + k - 1
           /\ (\A i \in 1..Len(s) : s[i] = i) /\ Len(s) = m - 1 =>
                 \A i \in 1..Len(t) : t[i] = i
           /\ Len(t) = Len(s) + k
<1> DEFINE more == [i \in 1..k |-> m + i - 1]
           t == s \o more
           n == Len(s)
<1>1. more \in Seq(Int) /\ Len(more) = k /\ s \in Seq(Int) /\ n \in Nat
  BY LenProperties, IsASeq
<1>2. \A i \in 1..k : more[i] = m + i - 1
  OBVIOUS
<1> HIDE DEF more
<1>3. Len(t) = n + k /\ \A i \in 1..n + k : t[i] = IF i <= n THEN s[i] ELSE more[i - n]
  BY <1>1, ConcatProperties
<1>4. \A i \in 1..n : t[i] = s[i] /\ s[i] \in Nat
  BY <1>1, <1>3, ElementOfSeq
<1>5. ASSUME NEW i \in 1..n + k, i > n PROVE t[i] = m + (i - n) - 1
  <2>1. t[i] = more[i - n]
    BY <1>1, <1>3, <1>5
  <2>2. i - n \in 1..k
    BY <1>1, <1>5
  <2> QED
    BY <1>1, <1>2, <2>1, <2>2
<1> HIDE DEF t, n
<1>6. ASSUME NEW i \in 1..n + k - 1 PROVE t[i] < t[i + 1]
  <2>1. CASE i + 1 <= n
    <3>1. i \in 1..n - 1 /\ i \in 1..n /\ i + 1 \in 1..n
      BY <1>1, <1>6, <2>1
    <3>2. s[i] < s[i + 1]
      BY <3>1 DEF n
    <3> QED
      BY <1>4, <3>1, <3>2
  <2>2. CASE i + 1 > n
    <3>1. i + 1 \in 1..n + k /\ i \in 1..n + k
      BY <1>1, <1>6
    <3>2. t[i + 1] = m + ((i + 1) - n) - 1
      BY <1>5, <2>2, <3>1
    <3>3. CASE i = n
      <4>1. t[i] <= m - 1
        BY <1>4, <1>6, <3>3 DEF n
      <4>2. t[i + 1] = m /\ t[i] \in Nat
        BY <1>1, <1>4, <1>6, <3>2, <3>3
      <4> QED
        BY <4>1, <4>2
    <3>4. CASE i > n
      <4>1. t[i] = m + (i - n) - 1
        BY <1>5, <3>1, <3>4
      <4> QED
        BY <1>1, <1>6, <3>2, <4>1
    <3> QED
      BY <1>1, <1>6, <2>2, <3>3, <3>4
  <2> QED
    BY <1>1, <1>6, <2>1, <2>2
<1>7. ASSUME NEW i \in 1..n + k PROVE t[i] <= m + k - 1
  <2>1. CASE i <= n
    BY <1>1, <1>4, <1>7, <2>1 DEF n
  <2>2. CASE i > n
    BY <1>1, <1>5, <1>7, <2>2
  <2> QED
    BY <1>1, <1>7, <2>1, <2>2
<1>8. ASSUME \A i \in 1..n : s[i] = i, n = m - 1, NEW i \in 1..n + k PROVE t[i] = i
  <2>1. CASE i <= n
    BY <1>1, <1>4, <1>8, <2>1
  <2>2. CASE i > n
    BY <1>1, <1>5, <1>8, <2>2
  <2> QED
    BY <1>1, <1>8, <2>1, <2>2
<1> QED
  BY <1>3, <1>6, <1>7, <1>8 DEF t, n, more

\* Bytes that left are positions in what was to be written.
LEMMA OutTyped ==
    ASSUME TypeOK
    PROVE  /\ call.out \in Seq(1..Size) /\ Len(call.out) \in Nat
           /\ \A i \in 1..Len(call.out) : call.out[i] \in Nat
           /\ call.next \in Nat /\ call.left \in Nat /\ call.taken \in Nat
<1>1. call.out \in Seq(1..Size) /\ Size \in Nat
  BY SocketsAssumption DEF TypeOK
<1>2. Len(call.out) \in Nat
  BY <1>1, LenProperties
<1>3. \A i \in 1..Len(call.out) : call.out[i] \in 1..Size
  BY <1>1, ElementOfSeq
<1>4. call.next \in Nat /\ call.left \in Nat /\ call.taken \in Nat
  BY <1>1 DEF TypeOK
<1> QED
  BY <1>1, <1>2, <1>3, <1>4

\* send() takes the next bytes in order, as many as it likes.
LEMMA SendSomeSends ==
    ASSUME Inv, SendSome
    PROVE  Sends'
<1> USE DEF Inv
<1>1. PICK k \in 1..call.left :
        LET sent == call.out \o [i \in 1..k |-> call.next + i - 1] IN
        call' = IF k = call.left
                THEN [call EXCEPT !.left = 0, !.retry = 0, !.out = sent]
                ELSE [AfterSend(k) EXCEPT !.out = sent]
  BY DEF SendSome
<1> DEFINE more == [i \in 1..k |-> call.next + i - 1]
           sent == call.out \o more
           n == Len(call.out)
<1>2. /\ k \in Nat /\ k <= call.left /\ n \in Nat
      /\ call.next \in Nat /\ call.left \in Nat /\ call.taken \in Nat
      /\ MaxRetry \in Nat /\ MaxRetry > 0
  BY OutTyped, SocketsAssumption
<1>3. /\ call.op \in {"write", "stream"} /\ call.retry > 0
      /\ call.c \in Cl /\ handle[call.c] # None /\ call.fd = FdOf(call.c)
      /\ call.left > 0 /\ call.next + call.left = call.taken + 1
  BY DEF SendSome, Writing, Sends
<1>4. /\ \A i \in 1..n - 1 : call.out[i] < call.out[i + 1]
      /\ \A i \in 1..n : call.out[i] <= call.next - 1
      /\ call.op = "write" \/ ~call.cut => \A i \in 1..n : call.out[i] = i
      /\ ~call.cut \/ call.op = "write" => n = call.next - 1
  BY <1>3 DEF Sends
<1>5. call.out \in Seq(Nat) /\ \A i \in 1..n : call.out[i] \in Nat
  <2>1. call.out \in Seq(1..Size) /\ Size \in Nat
    BY OutTyped, SocketsAssumption
  <2> QED
    BY <2>1, OutTyped, SeqMonotonic
<1>6. /\ \A i \in 1..Len(sent) - 1 : sent[i] < sent[i + 1]
      /\ \A i \in 1..Len(sent) : sent[i] <= call.next + k - 1
      /\ (\A i \in 1..n : call.out[i] = i) /\ n = call.next - 1 =>
            \A i \in 1..Len(sent) : sent[i] = i
      /\ Len(sent) = n + k
  BY <1>2, <1>4, <1>5, GoesOn
<1> HIDE DEF more, sent, n
<1>7. /\ call.op = "write" \/ ~call.cut => \A i \in 1..Len(sent) : sent[i] = i
      /\ ~call.cut \/ call.op = "write" => Len(sent) = call.next + k - 1
  <2>1. CASE call.op = "write" \/ ~call.cut
    <3>1. n = call.next - 1 /\ \A i \in 1..n : call.out[i] = i
      BY <1>4, <2>1
    <3>2. Len(sent) = call.next + k - 1
      BY <1>2, <1>6, <3>1
    <3> QED
      BY <1>6, <3>1, <3>2
  <2> QED
    BY <2>1
<1>8. UNCHANGED <<handle, fdOf>>
  BY DEF SendSome, clients
<1>9. CASE k = call.left
  <2>1. /\ call'.op = call.op /\ call'.c = call.c /\ call'.retry = 0 /\ call'.out = sent
        /\ call'.cut = call.cut /\ call'.taken = call.taken
    BY <1>1, <1>9, TypeParts DEF Calls, sent, more
  <2>2. call.next + k - 1 = call.taken
    BY <1>2, <1>3, <1>9
  <2> QED
    BY <1>3, <1>6, <1>7, <2>1, <2>2 DEF Sends, Writing
<1>10. CASE k # call.left
  <2>1. /\ call'.op = call.op /\ call'.c = call.c /\ call'.fd = call.fd
        /\ call'.retry = MaxRetry /\ call'.out = sent
        /\ call'.cut = call.cut /\ call'.taken = call.taken
        /\ call'.left = call.left - k /\ call'.next = call.next + k
    BY <1>1, <1>10, TypeParts DEF Calls, AfterSend, sent, more
  <2>2. call'.next - 1 = call.next + k - 1 /\ call'.left > 0 /\ call'.retry > 0
    BY <1>2, <1>10, <2>1
  <2>3. call'.next + call'.left = call'.taken + 1
    BY <1>2, <1>3, <2>1
  <2>4. handle'[call'.c] # None /\ call'.fd = FdOf(call.c)'
    BY <1>3, <1>8, <2>1 DEF FdOf
  <2> QED
    BY <1>3, <1>6, <1>7, <2>1, <2>2, <2>3, <2>4 DEF Sends, Writing
<1> QED
  BY <1>9, <1>10

\* Every step keeps what is known of a write under way.
LEMMA SendsStep ==
    ASSUME Inv, [Next]_vars
    PROVE  Sends'
<1> USE DEF Inv
<1>1. call \in Calls /\ MaxRetry \in Nat /\ MaxRetry > 0
  BY TypeParts, SocketsAssumption
<1>2. ASSUME call'.op \in {"none", "connect"}, call'.retry = 0 PROVE Sends'
  BY <1>2 DEF Sends, Writing
<1>3. CASE call' = call /\ UNCHANGED <<handle, fdOf>>
  BY <1>3 DEF Sends, Writing, FdOf
<1>4. CASE call' = NoCall \/ (Idle /\ call' = call)
  BY <1>2, <1>4 DEF Idle, NoCall
<1>5. ASSUME NEW c \in Cl, ConnectStart(c) PROVE Sends'
  BY <1>2, <1>5 DEF ConnectStart, NoCall
<1>6. ASSUME NEW c \in Cl, Write(c) PROVE Sends'
  <2>1. PICK m \in 1..Size :
          call' = [NoCall EXCEPT !.op = "write", !.c = c, !.fd = FdOf(c), !.taken = m,
                                 !.left = m, !.retry = MaxRetry]
    BY <1>6 DEF Write
  <2>2. /\ call'.op = "write" /\ call'.c = c /\ call'.fd = FdOf(c) /\ call'.taken = m
        /\ call'.left = m /\ call'.retry = MaxRetry /\ call'.next = 1 /\ call'.out = <<>>
        /\ call'.cut = FALSE
    BY <2>1 DEF NoCall
  <2>3. handle[c] # None /\ UNCHANGED <<handle, fdOf>> /\ m \in Nat /\ m > 0
    BY <1>6, SocketsAssumption DEF Write, clients
  <2> QED
    BY <1>1, <2>2, <2>3 DEF Sends, Writing, FdOf
<1>7. ASSUME NEW c \in Cl, WriteStream(c) PROVE Sends'
  <2>1. /\ call'.op = "stream" /\ call'.c = c /\ call'.taken = 0 /\ call'.retry = 0
        /\ call'.out = <<>> /\ call'.cut = FALSE
    BY <1>7 DEF WriteStream, NoCall
  <2> QED
    BY <2>1 DEF Sends, Writing
<1>8. CASE NextChunk
  <2> DEFINE k == LeastOf(Chunk, Size - call.taken)
  <2>1. PICK able \in BOOLEAN :
          /\ able => handle[call.c] # None
          /\ call' = [call EXCEPT !.taken = @ + k, !.next = call.taken + 1,
                                  !.left = k, !.fd = FdOf(call.c),
                                  !.retry = IF able THEN MaxRetry ELSE 0,
                                  !.cut = @ \/ ~able]
    BY <1>8 DEF NextChunk
  <2>2. k \in Nat /\ k > 0 /\ call.taken \in Nat
    BY <1>1, <1>8, SocketsAssumption DEF NextChunk, LeastOf, Calls, Counts
  <2> HIDE DEF k
  <2>3. /\ call'.op = "stream" /\ call'.c = call.c /\ call'.fd = FdOf(call.c)
        /\ call'.taken = call.taken + k /\ call'.next = call.taken + 1 /\ call'.left = k
        /\ call'.retry = (IF able THEN MaxRetry ELSE 0) /\ call'.out = call.out
        /\ call'.cut = (call.cut \/ ~able)
    BY <1>1, <1>8, <2>1 DEF Calls, NextChunk
  <2>4. call.retry = 0 /\ call.op = "stream" /\ UNCHANGED <<handle, fdOf>>
    BY <1>8 DEF NextChunk, clients
  <2>5. \A i \in 1..Len(call.out) : call.out[i] \in Nat
    BY OutTyped
  <2>6. \A i \in 1..Len(call.out) : call.out[i] <= call.taken
    BY <2>4 DEF Sends
  <2>7. ~call'.cut => able /\ ~call.cut
    BY <2>3
  <2>8. /\ \A i \in 1..Len(call.out) - 1 : call.out[i] < call.out[i + 1]
        /\ ~call.cut => Len(call.out) = call.taken /\ \A i \in 1..Len(call.out) : call.out[i] = i
    BY <2>4 DEF Sends
  <2>9. \A i \in 1..Len(call'.out) :
           call'.out[i] <= IF call'.retry > 0 THEN call'.next - 1 ELSE call'.taken
    BY <2>2, <2>3, <2>5, <2>6
  <2>10. ~call'.cut =>
           Len(call'.out) = IF call'.retry > 0 THEN call'.next - 1 ELSE call'.taken
    BY <1>1, <2>2, <2>3, <2>7, <2>8
  <2>11. call'.retry > 0 =>
            /\ handle'[call'.c] # None /\ call'.fd = FdOf(call.c)'
            /\ call'.left > 0 /\ call'.next + call'.left = call'.taken + 1
    BY <2>1, <2>2, <2>3, <2>4 DEF FdOf
  <2>12. call.c \in Cl
    BY <2>4 DEF Sends
  <2> QED
    BY <2>3, <2>7, <2>8, <2>9, <2>10, <2>11, <2>12 DEF Sends, Writing
<1>9. CASE SendSome
  BY <1>9, SendSomeSends
<1>10. CASE SendNothing
  <2>1. PICK n \in Attempts : call' = [call EXCEPT !.retry = n, !.cut = @ \/ n = 0]
    BY <1>10 DEF SendNothing
  <2>2. call.retry \in Nat /\ call.retry > 0 /\ UNCHANGED <<handle, fdOf>>
    BY <1>1, <1>10 DEF SendNothing, Writing, Calls, Tries, clients
  <2>3. n \in Nat
    BY <2>2 DEF Attempts
  <2>4. /\ call'.op = call.op /\ call'.c = call.c /\ call'.fd = call.fd
        /\ call'.retry = n /\ call'.out = call.out
        /\ call'.cut = (call.cut \/ n = 0) /\ call'.taken = call.taken
        /\ call'.left = call.left /\ call'.next = call.next
    BY <1>1, <2>1 DEF Calls
  <2>5. /\ \A i \in 1..Len(call.out) : call.out[i] \in Nat
        /\ call.next \in Nat /\ call.left \in Nat /\ call.taken \in Nat
    BY OutTyped
  <2>6. Writing
    BY <1>10 DEF SendNothing
  <2>7. /\ call.c \in Cl /\ handle[call.c] # None /\ call.fd = FdOf(call.c)
        /\ call.left > 0 /\ call.next + call.left = call.taken + 1
    BY <2>6 DEF Sends
  <2>8. /\ \A i \in 1..Len(call.out) - 1 : call.out[i] < call.out[i + 1]
        /\ \A i \in 1..Len(call.out) : call.out[i] <= call.next - 1
        /\ call.op = "write" \/ ~call.cut => \A i \in 1..Len(call.out) : call.out[i] = i
        /\ ~call.cut \/ call.op = "write" => Len(call.out) = call.next - 1
    BY <2>2, <2>6 DEF Sends, Writing
  <2>9. ~call'.cut => ~call.cut /\ n > 0
    <3>1. ~call'.cut => ~call.cut /\ n # 0
      BY <2>4, Zenon
    <3> QED
      BY <2>3, <3>1
  <2>10. \A i \in 1..Len(call'.out) :
           call'.out[i] <= IF call'.retry > 0 THEN call'.next - 1 ELSE call'.taken
    BY <2>4, <2>5, <2>7, <2>8
  <2>11. call'.fd = FdOf(call.c)' /\ handle'[call'.c] # None
    BY <2>2, <2>4, <2>7 DEF FdOf
  <2>12. call'.op \in {"write", "stream"}
    BY <2>4, <2>6 DEF Writing
  <2> QED
    BY <2>3, <2>4, <2>7, <2>8, <2>9, <2>10, <2>11, <2>12 DEF Sends, Writing
<1>11. CASE SendFails
  <2>1. /\ call'.op = call.op /\ call'.c = call.c /\ call'.retry = 0 /\ call'.out = call.out
        /\ call'.cut = TRUE /\ call'.taken = call.taken
    BY <1>1, <1>11 DEF SendFails, Calls
  <2>2. /\ \A i \in 1..Len(call.out) : call.out[i] \in Nat
        /\ call.next \in Nat /\ call.left \in Nat /\ call.taken \in Nat
    BY OutTyped
  <2> QED
    BY <1>11, <2>1, <2>2 DEF SendFails, Sends, Writing
<1> QED
  BY <1>3, <1>4, <1>5, <1>6, <1>7, <1>8, <1>9, <1>10, <1>11 DEF Next, Network, Running,
     Sketch, vars, clients, Arrives, Established, Dies, ConnectFails, ConnectOptionFails,
     ConnectDone, WriteReturns, Stop, Assign, Connected, Available, Begin, End, HasClient

(***************************************************************************)
(* The theorems.                                                           *)
(***************************************************************************)
LEMMA InitInv == Init => Inv
<1> SUFFICES ASSUME Init PROVE Inv
  OBVIOUS
<1>1. Size \in Nat /\ MaxRetry \in Nat
  BY SocketsAssumption
<1>2. NoCall \in Calls
  BY <1>1, EmptySeq DEF NoCall, Calls, Ops, Counts, Places, Tries, Bytes
<1>3. TypeOK
  BY <1>2, TypeParts DEF Init, Sock, Servers
<1>4. Used(handle) = {} /\ call.op = "none" /\ call.retry = 0
  BY DEF Init, Used, NoCall
<1>5. Owners /\ NothingLeaks
  BY <1>4 DEF Init, Owners, ClientsOwn, Held, NothingLeaks
<1>6. Lives /\ Sends
  BY <1>4 DEF Init, Lives, LiveStaysConnected, Sends, Writing
<1> QED
  BY <1>3, <1>5, <1>6 DEF Inv

\* Nobody else has the descriptor of a client, no descriptor is lost, bytes leave
\* in order, and a client is given up only after some connection was lost: every
\* call, and every step of the network between two of them, keeps all four.
THEOREM SocketsInvariant == Spec => []Inv
<1>1. Inv /\ [Next]_vars => Inv'
  BY TypeStep, OwnersStep, LivesStep, SendsStep DEF Inv
<1> QED
  BY InitInv, <1>1, PTL DEF Spec

\* The types of the sockets' variables.
THEOREM TypeCorrect == Spec => []TypeOK
<1>1. Inv => TypeOK
  BY DEF Inv
<1> QED
  BY <1>1, SocketsInvariant, PTL

\* No call of stop(), operator=, connect(), available() or a destructor closes
\* the connection of another client, however clients share their handles.
THEOREM ClientsKeepApart == Spec => []HandlesOwnTheirSockets
<1>1. Inv => HandlesOwnTheirSockets
  BY SocketsAssumption DEF Inv, Owners, ClientsOwn, HandlesOwnTheirSockets
<1> QED
  BY <1>1, SocketsInvariant, PTL

\* Every open descriptor has an owner, up to the three ways of losing one that
\* the code has.
THEOREM DescriptorsHaveOwners == Spec => []NothingLeaks
<1>1. Inv => NothingLeaks
  BY DEF Inv
<1> QED
  BY <1>1, SocketsInvariant, PTL

\* write() sends its bytes in order, without a gap and without a repetition,
\* whichever parts of them send() takes; write(Stream&) does while no chunk fails.
THEOREM WritesInOrder == Spec => []WritesAreGapless
<1>1. Inv => WritesAreGapless
  <2> SUFFICES ASSUME Inv PROVE WritesAreGapless
    OBVIOUS
  <2>1. call.out \in Seq(1..Size)
    BY DEF Inv, TypeOK
  <2> DEFINE n == Len(call.out)
             line == [i \in 1..n |-> i]
  <2>2. ASSUME \A i \in 1..n : call.out[i] = i PROVE call.out = line
    <3>1. n \in Nat /\ line \in Seq(Nat) /\ Len(line) = n
      BY <2>1, LenProperties
    <3>2. call.out \in Seq(Nat)
      BY <2>1, SocketsAssumption, SeqMonotonic
    <3> QED
      BY <2>2, <3>1, <3>2, SeqEqual
  <2> QED
    BY <2>2 DEF Inv, Sends, WritesAreGapless
<1> QED
  BY <1>1, SocketsInvariant, PTL

\* connected() says no of a live connection only after another one was lost.
THEOREM LiveOnesStayConnected == Spec => []LiveStaysConnected
<1>1. Inv => LiveStaysConnected
  BY DEF Inv, Lives
<1> QED
  BY <1>1, SocketsInvariant, PTL
===============================================================================
