----------------------------- MODULE LockerProofs -----------------------------
(***************************************************************************)
(* Proofs about the server for any set of clients, any words, any number   *)
(* of descriptors and any buffer with at least as many rows; and about the *)
(* server composed with the programs of the repository, which implements   *)
(* LockerServer, so that what is proved of the server holds of it, and     *)
(* which reserves no more often than the programs ask for it.  Behind its  *)
(* frames the server is the queue of ReservationQueue.                     *)
(***************************************************************************)
EXTENDS LockerSystemProperties, SequenceTheorems, WellFoundedInduction, FiniteSetTheorems, TLAPS

\* A running server with a reservation structure has a reservation: the
\* dispatch that empties the list is its last step.
ReservedWhileRunning == pc # "down" /\ allocated => queue # <<>>

\* What holds between any two steps of the server:
\*   - client_fd is a connection from accept() to the end of its handling;
\*   - every row of the running frame keeps a descriptor, and a dead process
\*     has none;
\*   - a running server has a reservation once it has the structure.
Inv ==
    /\ TypeOK
    /\ pc = "read" => reading # NoConn
    /\ pc = "accept" => reading = NoConn
    /\ pc = "down" => held = 0
    /\ Len(rows) <= held
    /\ pc = "read" => Len(rows) < held
    /\ pc = "dispatch" /\ reading # NoConn => held > 0 /\ reading.data # NoData
    /\ ReservedWhileRunning

\* A set of natural numbers that is not empty has a least element.
LEMMA NatHasLeast ==
    ASSUME NEW T \in SUBSET Nat, T # {}
    PROVE  \E x \in T : \A y \in T : x <= y
<1>1. \E x \in T : \A y \in T : ~ (<<y, x>> \in OpToRel(<, Nat))
  BY NatLessThanWellFounded, WFMin
<1>2. PICK x \in T : \A y \in T : ~ (<<y, x>> \in OpToRel(<, Nat))
  BY <1>1
<1>3. \A y \in T : ~(y < x)
  BY <1>2 DEF OpToRel
<1> QED
  BY <1>3

\* The string that starts at a row of the buffer is a sequence of tokens, and
\* begins with that row.
LEMMA CStringType ==
    ASSUME rows \in Seq(Token), NEW n \in Nat \ {0}
    PROVE  /\ CString(n) \in Seq(Token)
           /\ \/ CString(n) \in {<<>>, <<Spill>>}
              \/ n <= Len(rows) /\ CString(n)[1] = rows[n]
<1>1. CASE n = Len(rows) + 1 /\ UnderDate
  <2>1. CString(n) = Append(<<>>, Spill)
    BY <1>1 DEF CString
  <2>2. <<>> \in Seq(Token) /\ Spill \in Token
    BY EmptySeq DEF Token
  <2> QED
    BY <2>1, <2>2, AppendProperties
<1>2. CASE ~(n = Len(rows) + 1 /\ UnderDate) /\ (n > Len(rows) \/ rows[n] = Empty)
  BY <1>2 DEF CString
<1>3. CASE ~(n > Len(rows) \/ rows[n] = Empty)
  <2> DEFINE L == Len(rows)
             Ends(k) == /\ k = L + 1 \/ rows[k] # Date
                        /\ \A j \in n .. k - 1 : rows[j] = Date
             T == {k \in n .. L + 1 : k = L + 1 \/ rows[k] # Date}
             stop == CHOOSE k \in n .. L + 1 : Ends(k)
             run == SubSeq(rows, n, stop - 1)
  <2>1. L \in Nat /\ n \in 1 .. L
    BY <1>3
  <2>2. T \in SUBSET Nat /\ T # {}
    <3>1. L + 1 \in T
      BY <2>1
    <3> QED
      BY <2>1, <3>1
  <2>3. PICK m \in T : \A y \in T : m <= y
    BY <2>2, NatHasLeast
  <2>4. \A j \in n .. m - 1 : rows[j] = Date
    <3> SUFFICES ASSUME NEW j \in n .. m - 1, rows[j] # Date
                 PROVE  FALSE
      OBVIOUS
    <3>1. j \in T
      BY <2>1, <2>3
    <3> QED
      BY <2>1, <2>3, <3>1
  <2>5. stop \in n .. L + 1 /\ Ends(stop)
    BY <2>3, <2>4
  <2> HIDE DEF stop
  <2>6. run \in Seq(Token)
    <3>1. \A i \in n .. stop - 1 : rows[i] \in Token
      BY <2>1, <2>5
    <3> QED
      BY <2>1, <2>5, <3>1, SubSeqProperties
  <2>7. CString(n) = IF stop = L + 1 THEN Append(run, Spill)
                     ELSE IF rows[stop] = Empty THEN run
                     ELSE Append(run, rows[stop])
    BY <1>3, <2>1 DEF CString, stop
  <2>8. stop # L + 1 => rows[stop] \in Token
    BY <2>1, <2>5
  <2>9. Spill \in Token
    BY DEF Token
  <2>10. /\ Len(run) = stop - n
         /\ stop # n => run[1] = rows[n]
    <3>1. \A i \in n .. stop - 1 : rows[i] \in Token
      BY <2>1, <2>5
    <3> QED
      BY <2>1, <2>5, <3>1, SubSeqProperties
  <2>11. CASE stop = n
    BY <1>3, <2>1, <2>6, <2>7, <2>8, <2>10, <2>11, AppendProperties, EmptySeq
  <2>12. CASE stop # n
    <3>1. Len(run) \in Nat \ {0} /\ run[1] = rows[n]
      BY <2>1, <2>5, <2>10, <2>12
    <3> HIDE DEF run
    <3>2. \A t \in Token : Append(run, t) \in Seq(Token) /\ Append(run, t)[1] = run[1]
      BY <2>6, <3>1, AppendProperties
    <3> QED
      BY <2>1, <2>6, <2>7, <2>8, <2>9, <3>1, <3>2
  <2> QED
    BY <2>11, <2>12
<1> QED
  BY <1>1, <1>2, <1>3

\* What read() leaves in a row is a token.
LEMMA StoredType ==
    ASSUME NEW w \in Word \cup {Empty}
    PROVE  Stored(w) \in Token
BY DEF Stored, Token

\* The initial state satisfies the invariant.
LEMMA InitInv == Init => Inv
<1> SUFFICES ASSUME Init PROVE Inv
  OBVIOUS
<1>1. TypeOK
  <2>1. <<>> \in Seq(Connection) /\ <<>> \in Seq(Token) /\ <<>> \in Seq(Reservation)
    BY EmptySeq
  <2>2. held \in 0 .. Slots
    BY ServerAssumption DEF Init
  <2>3. inbox \in [Client -> SUBSET {"ACK", "cmd"}]
    BY DEF Init
  <2> QED
    BY <2>1, <2>2, <2>3 DEF Init, TypeOK
<1>2. Len(rows) = 0 /\ Len(backlog) = 0
  BY EmptySeq DEF Init
<1>3. ReservedWhileRunning
  BY DEF Init, ReservedWhileRunning
<1> QED
  BY <1>1, <1>2, <1>3 DEF Init, Inv, TypeOK

-----------------------------------------------------------------------------
(* Clients *)

\* What a client does to one connection keeps its type and what is known of it.
LEMMA SentKeeps ==
    ASSUME NEW c \in Client, NEW w \in Word \cup {Empty}, NEW stays \in BOOLEAN,
           NEW conn \in Connection \cup {NoConn}
    PROVE  /\ Sent(conn, c, w, stays) \in Connection \cup {NoConn}
           /\ Sent(conn, c, w, stays) = NoConn <=> conn = NoConn
           /\ conn # NoConn /\ conn.data # NoData =>
                Sent(conn, c, w, stays).data # NoData
BY ServerAssumption DEF Sent, Pending, Connection

\* A client that hangs up changes no word of its connection.
LEMMA ClosedKeeps ==
    ASSUME NEW c \in Client, NEW conn \in Connection \cup {NoConn}
    PROVE  /\ Closed(conn, c) \in Connection \cup {NoConn}
           /\ Closed(conn, c) = NoConn <=> conn = NoConn
           /\ conn # NoConn /\ conn.data # NoData => Closed(conn, c).data # NoData
BY ServerAssumption DEF Closed, Connection

\* connect() of a client adds a connection without data.
LEMMA ConnectInv ==
    ASSUME Inv, NEW c \in Client, Connect(c)
    PROVE  Inv'
<1> DEFINE new == [from |-> c, data |-> NoData, open |-> TRUE]
<1>1. new \in Connection
  BY DEF Connection
<1>2. backlog' \in Seq(Connection)
  <2>1. backlog' = Append(backlog, new) /\ backlog \in Seq(Connection)
    BY DEF Connect, Inv, TypeOK
  <2> HIDE DEF new
  <2> QED
    BY <1>1, <2>1, AppendProperties
<1>3. inbox' \in [Client -> SUBSET {"ACK", "cmd"}]
  BY DEF Connect, Inv, TypeOK
<1> QED
  BY <1>2, <1>3 DEF Connect, Inv, TypeOK, ReservedWhileRunning

\* The connections seen as a whole are a sequence as long as the backlog.
LEMMA BacklogKept ==
    ASSUME Inv, NEW new,
           new = [i \in 1 .. Len(backlog) |-> new[i]],
           \A i \in 1 .. Len(backlog) : new[i] \in Connection
    PROVE  new \in Seq(Connection)
<1>1. Len(backlog) \in Nat
  BY LenProperties DEF Inv, TypeOK
<1>2. new \in [1 .. Len(backlog) -> Connection]
  OBVIOUS
<1> QED
  BY <1>1, <1>2

\* The elements of the backlog are connections.
LEMMA BacklogElements ==
    ASSUME Inv, NEW i \in 1 .. Len(backlog)
    PROVE  backlog[i] \in Connection /\ backlog[i] # NoConn
BY ElementOfSeq, ServerAssumption DEF Inv, TypeOK

\* A word that is sent changes connections, and takes none away.
LEMMA SendInv ==
    ASSUME Inv, NEW c \in Client, NEW w \in Word \cup {Empty},
           NEW stays \in BOOLEAN, Send(c, w, stays)
    PROVE  Inv'
<1>1. ASSUME NEW i \in 1 .. Len(backlog)
      PROVE  Sent(backlog[i], c, w, stays) \in Connection
  BY BacklogElements, SentKeeps
<1>2. backlog' = [i \in 1 .. Len(backlog) |-> Sent(backlog[i], c, w, stays)]
  BY DEF Send
<1>3. backlog' \in Seq(Connection)
  BY <1>1, <1>2, BacklogKept
<1>4. reading \in Connection \cup {NoConn} /\ reading' = Sent(reading, c, w, stays)
  BY DEF Inv, TypeOK, Send
<1>5. /\ reading' \in Connection \cup {NoConn}
      /\ reading' = NoConn <=> reading = NoConn
      /\ reading # NoConn /\ reading.data # NoData => reading'.data # NoData
  BY <1>4, SentKeeps
<1> QED
  BY <1>3, <1>5 DEF Inv, TypeOK, Send, ReservedWhileRunning

\* A client that hangs up changes connections, and takes none away.
LEMMA HangUpInv ==
    ASSUME Inv, NEW c \in Client, HangUp(c)
    PROVE  Inv'
<1>1. ASSUME NEW i \in 1 .. Len(backlog)
      PROVE  Closed(backlog[i], c) \in Connection
  BY BacklogElements, ClosedKeeps
<1>2. backlog' = [i \in 1 .. Len(backlog) |-> Closed(backlog[i], c)]
  BY DEF HangUp
<1>3. backlog' \in Seq(Connection)
  BY <1>1, <1>2, BacklogKept
<1>4. reading \in Connection \cup {NoConn} /\ reading' = Closed(reading, c)
  BY DEF Inv, TypeOK, HangUp
<1>5. /\ reading' \in Connection \cup {NoConn}
      /\ reading' = NoConn <=> reading = NoConn
      /\ reading # NoConn /\ reading.data # NoData => reading'.data # NoData
  BY <1>4, ClosedKeeps
<1>6. inbox' \in [Client -> SUBSET {"ACK", "cmd"}]
  BY DEF HangUp, Inv, TypeOK
<1> QED
  BY <1>3, <1>5, <1>6 DEF Inv, TypeOK, HangUp, ReservedWhileRunning

-----------------------------------------------------------------------------
(* The server *)

\* accept() takes a descriptor for the connection it returns.
LEMMA AcceptInv ==
    ASSUME Inv, Accept
    PROVE  Inv'
<1>1. /\ backlog \in Seq(Connection) /\ backlog # <<>>
      /\ backlog' = Tail(backlog) /\ reading' = Head(backlog)
  BY DEF Inv, TypeOK, Accept
<1>2. Tail(backlog) \in Seq(Connection) /\ Head(backlog) \in Connection
  BY <1>1, HeadTailProperties, EmptySeq
<1>3. held' \in 0 .. Slots /\ Len(rows) \in Nat /\ Len(rows) < held'
  BY ServerAssumption, LenProperties DEF Inv, TypeOK, Accept
<1> QED
  BY <1>1, <1>2, <1>3, ServerAssumption DEF Inv, TypeOK, Accept, ReservedWhileRunning

\* A failing accept() changes no connection and no row.
LEMMA AcceptFailsInv ==
    ASSUME Inv, AcceptFails
    PROVE  Inv'
BY DEF Inv, TypeOK, AcceptFails, ReservedWhileRunning

\* A reply keeps the type of inbox.
LEMMA ReplyKeeps ==
    ASSUME Inv, NEW what \in {"ACK", "cmd"},
           Reply(reading, what)
    PROVE  inbox' \in [Client -> SUBSET {"ACK", "cmd"}]
BY DEF Inv, TypeOK, Reply, Connection

\* A row that continues its frame is counted and keeps its descriptor.
LEMMA ReadRowInv ==
    ASSUME Inv, ReadRow
    PROVE  Inv'
<1>1. reading \in Connection /\ reading.data \in Word \cup {Empty}
  BY DEF Inv, TypeOK, ReadRow, Connection
<1>2. Stored(reading.data) \in Token
  BY <1>1, StoredType
<1>3. rows' \in Seq(Token) /\ Len(rows') = Len(rows) + 1 /\ Len(rows) \in Nat
  BY <1>2, AppendProperties, LenProperties DEF Inv, TypeOK, ReadRow
<1>4. inbox' \in [Client -> SUBSET {"ACK", "cmd"}]
  <2>1. CASE Reply(reading, "cmd")
    BY <2>1, ReplyKeeps
  <2>2. CASE UNCHANGED inbox
    BY <2>2 DEF Inv, TypeOK
  <2> QED
    BY <2>1, <2>2 DEF ReadRow
<1> QED
  BY <1>3, <1>4 DEF Inv, TypeOK, ReadRow, ReservedWhileRunning

\* The connection that ends a frame has been read from and keeps its descriptor.
LEMMA ReadEndInv ==
    ASSUME Inv, ReadEnd
    PROVE  Inv'
<1>1. rows' \in Seq(Token) /\ Len(rows') = Len(rows) + 1 /\ Len(rows) \in Nat
  <2>1. Empty \in Token
    BY DEF Token
  <2> QED
    BY <2>1, AppendProperties, LenProperties DEF Inv, TypeOK, ReadEnd
<1>2. Len(rows') <= held /\ held > 0
  BY <1>1 DEF Inv, TypeOK, ReadEnd
<1> QED
  BY <1>1, <1>2 DEF Inv, TypeOK, ReadEnd, ReservedWhileRunning

\* The functions of a command keep the queue a sequence of reservations, and
\* only create_reservation allocates the structure.
LEMMA NewReservationType ==
    ASSUME rows \in Seq(Token), NEW n \in Nat \ {0}
    PROVE  NewReservation(n) \in Reservation
BY CStringType DEF NewReservation, Reservation

\* create_reservation keeps the queue a sequence of reservations.
LEMMA CreateKeeps ==
    ASSUME Inv, Create
    PROVE  queue' \in Seq(Reservation) /\ allocated' \in BOOLEAN
<1>1. NewReservation(3) \in Reservation /\ NewReservation(4) \in Reservation
  BY NewReservationType DEF Inv, TypeOK
<1>2. queue \in Seq(Reservation) /\ allocated \in BOOLEAN
  BY DEF Inv, TypeOK
<1>3. CASE ~allocated
  <2>1. queue' = <<NewReservation(4)>> /\ allocated' = TRUE
    BY <1>3 DEF Create
  <2>2. Append(<<>>, NewReservation(4)) \in Seq(Reservation)
    BY <1>1, EmptySeq, AppendProperties
  <2> QED
    BY <1>1, <2>1, <2>2
<1>4. CASE allocated
  <2>1. /\ queue' = queue \/ queue' = Append(queue, NewReservation(3))
        /\ allocated' = allocated
    BY <1>4 DEF Create
  <2> QED
    BY <1>1, <1>2, <2>1, AppendProperties
<1> QED
  BY <1>2, <1>3, <1>4

\* delete_reservation keeps the queue a sequence of reservations.
LEMMA DeleteKeeps ==
    ASSUME Inv, Delete
    PROVE  queue' \in Seq(Reservation) /\ allocated' \in BOOLEAN
<1>1. queue \in Seq(Reservation) /\ allocated \in BOOLEAN /\ Len(queue) \in Nat
  BY LenProperties DEF Inv, TypeOK
<1>2. allocated' = allocated
  BY DEF Delete
<1>3. \/ queue' = queue
      \/ \E i \in 1 .. Len(queue) :
            queue' = SubSeq(queue, 1, i - 1) \o SubSeq(queue, i + 1, Len(queue))
  BY DEF Delete
<1>4. ASSUME NEW i \in 1 .. Len(queue)
      PROVE  SubSeq(queue, 1, i - 1) \o SubSeq(queue, i + 1, Len(queue))
               \in Seq(Reservation)
  <2>1. \A j \in 1 .. Len(queue) : queue[j] \in Reservation
    BY <1>1, ElementOfSeq
  <2>2. SubSeq(queue, 1, i - 1) \in Seq(Reservation)
    <3>1. \A j \in 1 .. i - 1 : queue[j] \in Reservation
      BY <1>1, <2>1
    <3> QED
      BY <1>1, <3>1, SubSeqProperties
  <2>3. SubSeq(queue, i + 1, Len(queue)) \in Seq(Reservation)
    <3>1. \A j \in i + 1 .. Len(queue) : queue[j] \in Reservation
      BY <1>1, <2>1
    <3> QED
      BY <1>1, <3>1, SubSeqProperties
  <2> QED
    BY <2>2, <2>3, ConcatProperties
<1> QED
  BY <1>1, <1>2, <1>3, <1>4

\* So does every command.
LEMMA CommandKeeps ==
    ASSUME Inv, Command
    PROVE  queue' \in Seq(Reservation) /\ allocated' \in BOOLEAN
<1>1. Create \/ Delete \/ UNCHANGED <<allocated, queue>>
  BY DEF Command
<1>2. CASE UNCHANGED <<allocated, queue>>
  BY <1>2 DEF Inv, TypeOK
<1> QED
  BY <1>1, <1>2, CreateKeeps, DeleteKeeps

\* The end of a frame closes at most one descriptor and forgets the rows.
LEMMA DispatchInv ==
    ASSUME Inv, Dispatch
    PROVE  Inv'
<1>1. queue' \in Seq(Reservation) /\ allocated' \in BOOLEAN
  BY CommandKeeps DEF Dispatch
<1>2. rows' \in Seq(Token) /\ Len(rows') = 0 /\ reading' = NoConn
  BY EmptySeq DEF Dispatch
<1>3. CASE allocated' /\ queue' = <<>>
  <2>1. Crash
    BY <1>3 DEF Dispatch
  <2>2. backlog' \in Seq(Connection) /\ Len(backlog') = 0
    BY <2>1, EmptySeq DEF Crash
  <2>3. held' \in 0 .. Slots
    BY <2>1, ServerAssumption DEF Crash
  <2> QED
    BY <1>1, <1>2, <2>1, <2>2, <2>3
       DEF Crash, Inv, TypeOK, ReservedWhileRunning
<1>4. CASE ~(allocated' /\ queue' = <<>>)
  <2>1. Finish
    BY <1>4 DEF Dispatch
  <2>2. inbox' \in [Client -> SUBSET {"ACK", "cmd"}]
    BY <2>1, ReplyKeeps DEF Finish
  <2>3. held' \in 0 .. Slots
    BY <2>1, ServerAssumption DEF Finish, Dispatch, Inv, TypeOK
  <2>4. pc' = "accept" /\ backlog' = backlog
    BY <2>1 DEF Finish
  <2>5. ReservedWhileRunning'
    BY <1>4 DEF ReservedWhileRunning
  <2> QED
    BY <1>1, <1>2, <2>2, <2>3, <2>4, <2>5 DEF Inv, TypeOK
<1> QED
  BY <1>3, <1>4

-----------------------------------------------------------------------------
\* Every step of the server or of a client keeps the invariant.
LEMMA NextInv == Inv /\ [Next]_serverVars => Inv'
<1> SUFFICES ASSUME Inv, [Next]_serverVars PROVE Inv'
  OBVIOUS
<1>1. CASE ServerStep
  BY <1>1, AcceptInv, AcceptFailsInv, ReadRowInv, ReadEndInv, DispatchInv
     DEF ServerStep
<1>2. CASE ClientStep
  BY <1>2, ConnectInv, SendInv, HangUpInv DEF ClientStep
<1>3. CASE UNCHANGED serverVars
  BY <1>3 DEF serverVars, Inv, TypeOK, ReservedWhileRunning
<1> QED
  BY <1>1, <1>2, <1>3 DEF Next

\* Between any two steps listen_aws has accounted for descriptors and rows
\* as Inv says, for any clients, words and limits.
THEOREM ServerInvariant == Spec => []Inv
<1> QED
  BY InitInv, NextInv, PTL DEF Spec

\* The server's variables keep their types, among them the number of open
\* descriptors, which never exceeds what the process may have.
THEOREM ServerTypeCorrect == Spec => []TypeOK
<1>1. Inv => TypeOK
  BY DEF Inv
<1> QED
  BY <1>1, ServerInvariant, PTL

\* The index of listen_aws never leaves buffer, if the descriptors of the
\* process run out no later than its rows.
THEOREM RowsNeverOverrun == Spec => []RowInBounds
<1>1. Inv => RowInBounds
  BY ServerAssumption, LenProperties DEF Inv, TypeOK, RowInBounds
<1> QED
  BY <1>1, ServerInvariant, PTL

\* Once the descriptors are used up between two frames, nothing changes the
\* reservations any more and no descriptor ever comes back.
LEMMA ExhaustedStep ==
    ASSUME Inv, [Next]_serverVars, Exhausted
    PROVE  Exhausted' /\ queue' = queue /\ pc' # "down"
<1>1. held = Slots /\ reading = NoConn /\ rows = <<>> /\ held > 0 /\ pc # "down"
  BY ServerAssumption DEF Exhausted, Inv
<1>2. pc # "read"
  BY <1>1 DEF Inv
<1>3. CASE Accept \/ AcceptFails \/ ReadRow \/ ReadEnd
  <2>1. AcceptFails
    <3>1. held \in Nat /\ Slots \in Nat
      BY ServerAssumption DEF Inv, TypeOK
    <3> QED
      BY <1>1, <1>2, <1>3, <3>1 DEF Accept, ReadRow, ReadEnd
  <2> QED
    BY <1>1, <2>1 DEF AcceptFails, Exhausted
<1>4. CASE Dispatch
  <2>1. CString(1) = <<>>
    BY <1>1, EmptySeq DEF CString, UnderDate
  <2>2. <<>> # <<CREATE>> /\ <<>> # <<DELETE>> /\ <<>> # <<Locker>>
    OBVIOUS
  <2>3. queue' = queue /\ allocated' = allocated
    BY <1>4, <2>1, <2>2 DEF Dispatch, Command
  <2>4. ~(allocated' /\ queue' = <<>>)
    BY <1>1, <2>3 DEF Inv, ReservedWhileRunning
  <2>5. Finish /\ reading' = NoConn /\ rows' = <<>>
    BY <1>4, <2>4 DEF Dispatch
  <2> QED
    BY <1>1, <2>3, <2>5 DEF Finish, Exhausted
<1>5. CASE ClientStep
  BY <1>1, <1>5 DEF ClientStep, Connect, Send, HangUp, Sent, Closed, Pending, Exhausted
<1>6. CASE UNCHANGED serverVars
  BY <1>1, <1>6 DEF serverVars, Exhausted
<1> QED
  BY <1>3, <1>4, <1>5, <1>6 DEF Next, ServerStep

\* A server without a descriptor left between two frames stays so: accept()
\* fails for ever and no reservation changes.
THEOREM ExhaustionIsForEver == Spec => ExhaustedForEver
<1>1. Inv /\ [Next]_serverVars =>
        [Exhausted => Exhausted' /\ queue' = queue /\ pc' # "down"]_serverVars
  BY ExhaustedStep
<1> QED
  BY <1>1, ServerInvariant, PTL DEF Spec, ExhaustedForEver

-----------------------------------------------------------------------------
(* The server with the programs of the repository *)

\* What the clients' own variables satisfy: a script that runs has an item to
\* send, a device that is off does not move, and "cmd" is only ever sent, and
\* seen, once the reservation structure exists.
ClientInv ==
    /\ at \in [Python -> Nat]
    /\ py \in [Python -> {"connect", "send", "done", "failed"}]
    /\ cc \in [CClients -> {"connect", "send", "wait", "done", "failed"}]
    /\ esp \in EspPhase
    /\ \A p \in Python :
          py[p] \in {"connect", "send"} => at[p] \in 1 .. Len(Program[p])
    /\ ~EspOn => esp = "setup"
    /\ \A c \in Client : "cmd" \in inbox[c] => allocated
    /\ esp = "blink" => allocated

SysInv == Inv /\ ClientInv

\* The programs start in a state of the invariant.
LEMMA SystemInitInv == SystemInit => SysInv
<1> SUFFICES ASSUME SystemInit PROVE SysInv
  OBVIOUS
<1>1. Inv
  BY InitInv DEF SystemInit
<1>2. \A p \in Python : 1 \in 1 .. Len(Program[p])
  <2> SUFFICES ASSUME NEW p \in Python PROVE Len(Program[p]) \in Nat \ {0}
    OBVIOUS
  <2>1. Program[p] \in Seq(Word \cup {Empty}) /\ Program[p] # <<>>
    BY SystemAssumption
  <2> QED
    BY <2>1, EmptySeq
<1> QED
  BY <1>1, <1>2 DEF SystemInit, Init, SysInv, ClientInv, EspPhase

\* The word a running script sends next is one a client may send.
LEMMA NextItem ==
    ASSUME ClientInv, NEW p \in Python, py[p] = "send"
    PROVE  /\ p \in Client
           /\ Program[p][at[p]] \in Word \cup {Empty}
BY SystemAssumption, ElementOfSeq DEF ClientInv

-----------------------------------------------------------------------------
\* Each step of the composition is a step of the server as LockerServer
\* describes it, or leaves the server alone.
LEMMA SystemStepIsServerStep ==
    ASSUME SysInv, [SystemNext]_vars
    PROVE  [Next]_serverVars
<1>1. CASE Serve
  BY <1>1 DEF Serve, Next
<1>2. ASSUME NEW p \in Python, PyStep(p)
      PROVE  [Next]_serverVars
  <2>1. p \in Client
    BY SystemAssumption
  <2>2. CASE PyConnect(p)
    BY <2>1, <2>2 DEF PyConnect, Next, ClientStep
  <2>3. CASE PySend(p)
    BY <2>3, NextItem DEF PySend, SysInv, Next, ClientStep
  <2>4. CASE PyFail(p)
    BY <2>4 DEF PyFail
  <2> QED
    BY <1>2, <2>2, <2>3, <2>4 DEF PyStep
<1>3. ASSUME NEW c \in CClients, CStep(c)
      PROVE  [Next]_serverVars
  <2>1. c \in Client /\ CWord[c] \in Word \cup {Empty}
    BY SystemAssumption
  <2>2. CASE CConnect(c)
    BY <2>1, <2>2 DEF CConnect, Next, ClientStep
  <2>3. CASE CSend(c)
    BY <2>1, <2>3 DEF CSend, Next, ClientStep
  <2>4. CASE CReturn(c)
    BY <2>1, <2>4 DEF CReturn, Next, ClientStep
  <2>5. CASE CFail(c)
    BY <2>5 DEF CFail
  <2> QED
    BY <1>3, <2>2, <2>3, <2>4, <2>5 DEF CStep
<1>4. CASE EspStep
  <2>1. EspConnect \/ EspOn
    BY <1>4 DEF EspStep, EspConnect, EspPrint, EspSetupDone, EspTimeout, EspRead,
                EspBlinked, SysInv, ClientInv
  <2>2. Esp \in Client /\ Locker \in Word
    BY <2>1, SystemAssumption DEF EspConnect, EspOn
  <2>3. CASE EspConnect
    BY <2>2, <2>3 DEF EspConnect, Next, ClientStep
  <2>4. CASE EspPrint
    BY <2>2, <2>4 DEF EspPrint, Next, ClientStep
  <2>5. CASE EspSetupDone \/ EspTimeout \/ EspRead
    BY <2>2, <2>5 DEF EspSetupDone, EspTimeout, EspRead, Next, ClientStep
  <2>6. CASE EspBlinked
    BY <2>6 DEF EspBlinked
  <2> QED
    BY <1>4, <2>3, <2>4, <2>5, <2>6 DEF EspStep
<1>5. CASE UNCHANGED vars
  BY <1>5 DEF vars
<1> QED
  BY <1>1, <1>2, <1>3, <1>4, <1>5 DEF SystemNext

-----------------------------------------------------------------------------
\* The reservation structure is never given back, and "cmd" is sent only after
\* it was allocated.
LEMMA CommandAllocated ==
    ASSUME Inv, [Next]_serverVars,
           \A c \in Client : "cmd" \in inbox[c] => allocated
    PROVE  /\ allocated => allocated'
           /\ \A c \in Client : "cmd" \in inbox'[c] => allocated'
<1>1. inbox \in [Client -> SUBSET {"ACK", "cmd"}]
  BY DEF Inv, TypeOK
<1>2. CASE Accept \/ AcceptFails \/ ReadEnd \/ UNCHANGED serverVars
  BY <1>2 DEF Accept, AcceptFails, ReadEnd, serverVars
<1>3. CASE ReadRow
  BY <1>1, <1>3 DEF ReadRow, Reply
<1>4. CASE Dispatch
  <2>1. allocated => allocated'
    BY <1>4 DEF Dispatch, Command, Create, Delete
  <2>2. Reply(reading, "ACK") \/ UNCHANGED inbox
    BY <1>4 DEF Dispatch, Crash, Finish
  <2> QED
    BY <1>1, <2>1, <2>2 DEF Reply
<1>5. CASE ClientStep
  BY <1>1, <1>5 DEF ClientStep, Connect, Send, HangUp
<1> QED
  BY <1>2, <1>3, <1>4, <1>5 DEF Next, ServerStep

\* Every step of a program keeps the invariant of the composition.
LEMMA SystemNextInv == SysInv /\ [SystemNext]_vars => SysInv'
<1> SUFFICES ASSUME SysInv, [SystemNext]_vars PROVE SysInv'
  OBVIOUS
<1>1. [Next]_serverVars
  BY SystemStepIsServerStep
<1>2. Inv'
  BY <1>1, NextInv DEF SysInv
<1>3. /\ allocated => allocated'
      /\ \A c \in Client : "cmd" \in inbox'[c] => allocated'
  BY <1>1, CommandAllocated DEF SysInv, ClientInv
<1>4. ClientInv'
  <2> USE <1>3 DEF SysInv, ClientInv, EspPhase, EspOn
  <2>1. CASE Serve
    BY <2>1 DEF Serve
  <2>2. ASSUME NEW p \in Python, PyStep(p)
        PROVE  ClientInv'
    <3>1. Len(Program[p]) \in Nat
      BY SystemAssumption, LenProperties
    <3>2. CASE PyConnect(p) \/ PyFail(p)
      BY <3>1, <3>2 DEF PyConnect, PyFail
    <3>3. CASE PySend(p)
      <4>1. at[p] \in 1 .. Len(Program[p]) /\ at \in [Python -> Nat]
        BY <3>3 DEF PySend
      <4>2. /\ at' \in [Python -> Nat]
            /\ py' \in [Python -> {"connect", "send", "done", "failed"}]
        BY <3>3, <4>1 DEF PySend
      <4>3. \A q \in Python :
               py'[q] \in {"connect", "send"} => at'[q] \in 1 .. Len(Program[q])
        BY <3>1, <3>3, <4>1 DEF PySend
      <4>4. inbox' = inbox /\ allocated' = allocated /\ UNCHANGED <<cc, esp>>
        BY <3>3 DEF PySend, Send
      <4> QED
        BY <4>2, <4>3, <4>4
    <3> QED
      BY <2>2, <3>2, <3>3 DEF PyStep
  <2>3. ASSUME NEW c \in CClients, CStep(c)
        PROVE  ClientInv'
    BY <2>3 DEF CStep, CConnect, CSend, CReturn, CFail
  <2>4. CASE EspStep
    <3>1. CASE EspRead
      <4>1. EspOn /\ esp' \in {"blink", "connect"}
        BY <3>1 DEF EspRead
      <4>2. esp' = "blink" => allocated
        BY <3>1, <4>1 DEF EspRead
      <4> QED
        BY <3>1, <4>1, <4>2 DEF EspRead
    <3> QED
      BY <2>4, <3>1 DEF EspStep, EspConnect, EspPrint, EspSetupDone, EspTimeout,
                        EspBlinked
  <2>5. CASE UNCHANGED vars
    BY <2>5 DEF vars
  <2> QED
    BY <2>1, <2>2, <2>3, <2>4, <2>5 DEF SystemNext
<1> QED
  BY <1>2, <1>4 DEF SysInv

\* The server's invariant, the types of the programs, and that an answer "cmd" in
\* the inbox of locker.ino implies a reservation, in every state of the composition.
THEOREM SystemInvariant == SystemSpec => []SysInv
<1> QED
  BY SystemInitInv, SystemNextInv, PTL DEF SystemSpec

\* The server composed with client.py, client.c and locker.ino is a server as
\* LockerServer specifies it.
THEOREM SystemImplementsServer == SystemSpec => ImplementsServer
<1>1. SystemInit => Init
  BY DEF SystemInit
<1>2. SysInv /\ [SystemNext]_vars => [Next]_serverVars
  BY SystemStepIsServerStep
<1> QED
  BY <1>1, <1>2, SystemInvariant, PTL DEF SystemSpec, Spec, ImplementsServer

\* The types of the composition's variables.
THEOREM SystemTypeCorrect == SystemSpec => []SystemTypeOK
<1>1. SysInv => SystemTypeOK
  BY DEF SysInv, ClientInv, Inv, SystemTypeOK
<1> QED
  BY <1>1, SystemInvariant, PTL

\* The LEDs blink only while the server holds a reservation, or after it died.
THEOREM BlinksOnlyWhileReserved == SystemSpec => []BlinkMeansReserved
<1>1. SysInv => BlinkMeansReserved
  BY DEF SysInv, ClientInv, Inv, ReservedWhileRunning, BlinkMeansReserved
<1> QED
  BY <1>1, SystemInvariant, PTL

-----------------------------------------------------------------------------
(* One reservation for one CREATE at most.  A word is counted where it is: *)
(* in the backlog, on the connection being read, in the first row of the   *)
(* frame, on the list.                                                     *)

Carrying(conn) == conn # NoConn /\ conn.data = CREATE
InBacklog == {i \in 1 .. Len(backlog) : Carrying(backlog[i])}
InHand == IF Carrying(reading) THEN 1 ELSE 0
InFrame == IF rows # <<>> /\ rows[1] = CREATE THEN 1 ELSE 0
Underway == Len(queue) + InFrame + InHand + Cardinality(InBacklog)

\* A client has one connection at a time that it has not used yet; with two,
\* one send() of the model would put its word on both.
OnePending ==
    \A c \in Client :
        /\ \A i, j \in 1 .. Len(backlog) :
              Pending(c, backlog[i]) /\ Pending(c, backlog[j]) => i = j
        /\ Pending(c, reading) => \A i \in 1 .. Len(backlog) : ~Pending(c, backlog[i])

\* The numbers that are added are numbers.
LEMMA Addends ==
    ASSUME TypeOK
    PROVE  /\ Len(queue) \in Nat /\ InFrame \in {0, 1} /\ InHand \in {0, 1}
           /\ Len(backlog) \in Nat
           /\ IsFiniteSet(InBacklog) /\ Cardinality(InBacklog) \in Nat
<1>1. Len(queue) \in Nat /\ Len(backlog) \in Nat
  BY LenProperties DEF TypeOK
<1>2. IsFiniteSet(1 .. Len(backlog)) /\ InBacklog \in SUBSET (1 .. Len(backlog))
  BY <1>1, FS_Interval DEF InBacklog
<1>3. IsFiniteSet(InBacklog)
  BY <1>2, FS_Subset
<1> QED
  BY <1>1, <1>3, FS_CardinalityType DEF InFrame, InHand

\* Moving the positions of a backlog by one does not change how many they are.
LEMMA Shifted ==
    ASSUME NEW S \in SUBSET (Nat \ {0}), IsFiniteSet(S)
    PROVE  LET T == {i \in Nat \ {0} : i + 1 \in S} IN
           /\ IsFiniteSet(T)
           /\ Cardinality(S) = Cardinality(T) + (IF 1 \in S THEN 1 ELSE 0)
<1> DEFINE T == {i \in Nat \ {0} : i + 1 \in S}
           R == S \ {1}
           f == [i \in R |-> i - 1]
<1>1. IsFiniteSet(R) /\ Cardinality(R) = IF 1 \in S THEN Cardinality(S) - 1 ELSE Cardinality(S)
  BY FS_RemoveElement
<1>2. f \in Bijection(R, T)
  <2>1. f \in Injection(R, T)
    BY DEF Injection, IsInjective
  <2>2. \A t \in T : \E i \in R : f[i] = t
    <3> SUFFICES ASSUME NEW t \in T PROVE t + 1 \in R /\ f[t + 1] = t
      OBVIOUS
    <3> QED
      OBVIOUS
  <2> QED
    BY <2>1, <2>2 DEF Bijection, Surjection, Injection
<1>3. IsFiniteSet(T) /\ Cardinality(T) = Cardinality(R)
  BY <1>1, <1>2, FS_Bijection DEF ExistsBijection
<1>4. Cardinality(S) \in Nat /\ Cardinality(R) \in Nat
  BY <1>1, FS_CardinalityType
<1> QED
  BY <1>1, <1>3, <1>4

-----------------------------------------------------------------------------
\* What is underway is a number.
LEMMA UnderwayType == TypeOK => Underway \in Nat
BY Addends DEF Underway

\* connect() brings a connection without a word.
LEMMA ConnectCounts ==
    ASSUME Inv, OnePending, NEW c \in Client, Connect(c)
    PROVE  OnePending' /\ Underway' = Underway
<1> DEFINE new == [from |-> c, data |-> NoData, open |-> TRUE]
           L == Len(backlog)
<1>1. TypeOK /\ L \in Nat
  BY Addends DEF Inv
<1>2. new \in Connection /\ new # NoConn /\ ~Carrying(new)
  <2>1. new \in Connection
    BY DEF Connection
  <2>2. NoData # CREATE
    BY DEF NoData, CREATE
  <2> QED
    BY <2>1, <2>2, ServerAssumption DEF Carrying
<1>3. /\ Len(backlog') = L + 1 /\ backlog'[L + 1] = new
      /\ \A i \in 1 .. L : backlog'[i] = backlog[i]
  BY <1>1, <1>2, AppendProperties DEF Connect, TypeOK
<1>4. UNCHANGED <<queue, rows, reading>> /\ ~HasPending(c)
  BY DEF Connect
<1>5. ASSUME NEW d \in Client, d # c
      PROVE  ~Pending(d, new)
  BY <1>5 DEF Pending
<1> HIDE DEF new
<1>6. InBacklog' = InBacklog
  BY <1>1, <1>2, <1>3 DEF InBacklog, Carrying
<1>7. OnePending'
  <2> SUFFICES ASSUME NEW d \in Client
               PROVE  /\ \A i, j \in 1 .. L + 1 :
                            Pending(d, backlog'[i]) /\ Pending(d, backlog'[j]) => i = j
                      /\ Pending(d, reading) => \A i \in 1 .. L + 1 : ~Pending(d, backlog'[i])
    BY <1>3, <1>4 DEF OnePending, Pending
  <2>1. CASE d = c
    <3>1. ~Pending(c, reading) /\ \A i \in 1 .. L : ~Pending(c, backlog'[i])
      BY <1>3, <1>4 DEF HasPending
    <3>2. \A i \in 1 .. L + 1 : i \in 1 .. L \/ i = L + 1
      BY <1>1
    <3> QED
      BY <2>1, <3>1, <3>2
  <2>2. CASE d # c
    <3>1. \A i \in 1 .. L + 1 : Pending(d, backlog'[i]) => i \in 1 .. L /\ Pending(d, backlog[i])
      BY <1>1, <1>3, <1>5, <2>2
    <3> QED
      BY <3>1 DEF OnePending
  <2> QED
    BY <2>1, <2>2
<1> QED
  BY <1>4, <1>6, <1>7 DEF Underway, InFrame, InHand, Carrying

\* A client puts its word on one connection at most.
LEMMA SendCounts ==
    ASSUME Inv, OnePending, NEW c \in Client, NEW w \in Word \cup {Empty},
           NEW stays \in BOOLEAN, Send(c, w, stays)
    PROVE  /\ OnePending'
           /\ Underway' <= Underway + (IF w = CREATE THEN 1 ELSE 0)
<1> DEFINE L == Len(backlog)
<1>1. TypeOK /\ L \in Nat
  BY Addends DEF Inv
<1>2. /\ backlog' = [i \in 1 .. L |-> Sent(backlog[i], c, w, stays)]
      /\ reading' = Sent(reading, c, w, stays)
      /\ UNCHANGED <<queue, rows>>
  BY DEF Send
<1>3. Len(backlog') = L /\ \A i \in 1 .. L : backlog'[i] = Sent(backlog[i], c, w, stays)
  BY <1>1, <1>2
<1>4. w # NoData /\ NoData # CREATE
  BY ServerAssumption DEF NoData, Empty, CREATE
<1>5. ASSUME NEW conn \in Connection \cup {NoConn}
      PROVE  /\ \A d \in Client : Pending(d, Sent(conn, c, w, stays)) => d # c /\ Pending(d, conn)
             /\ ~Pending(c, conn) => Sent(conn, c, w, stays) = conn
             /\ Carrying(Sent(conn, c, w, stays)) <=>
                   IF Pending(c, conn) THEN w = CREATE ELSE Carrying(conn)
             /\ Pending(c, conn) => ~Carrying(conn)
  BY <1>4, ServerAssumption DEF Sent, Pending, Carrying, Connection
<1>6. /\ reading \in Connection \cup {NoConn}
      /\ \A i \in 1 .. L : backlog[i] \in Connection \cup {NoConn}
  BY <1>1, BacklogElements DEF TypeOK
<1>7. OnePending'
  <2>1. \A d \in Client, i \in 1 .. L : Pending(d, backlog'[i]) => Pending(d, backlog[i])
    BY <1>3, <1>5, <1>6
  <2>2. \A d \in Client : Pending(d, reading') => Pending(d, reading)
    BY <1>2, <1>5, <1>6
  <2>3. \A d \in Client :
           /\ \A i, j \in 1 .. L : Pending(d, backlog'[i]) /\ Pending(d, backlog'[j]) => i = j
           /\ Pending(d, reading') => \A i \in 1 .. L : ~Pending(d, backlog'[i])
    BY <2>1, <2>2 DEF OnePending
  <2> QED
    BY <1>3, <2>3 DEF OnePending, Pending
<1>8. /\ InBacklog' = {i \in 1 .. L : IF Pending(c, backlog[i]) THEN w = CREATE
                                      ELSE Carrying(backlog[i])}
      /\ InHand' = IF Pending(c, reading) THEN (IF w = CREATE THEN 1 ELSE 0) ELSE InHand
      /\ InFrame' = InFrame /\ Len(queue') = Len(queue)
  BY <1>2, <1>3, <1>5, <1>6 DEF InBacklog, InHand, InFrame, Carrying
<1>9. CASE w # CREATE
  <2>1. InBacklog' \in SUBSET InBacklog /\ InHand' <= InHand
    BY <1>1, <1>8, <1>9, Addends DEF InBacklog
  <2>2. Cardinality(InBacklog') <= Cardinality(InBacklog) /\ Cardinality(InBacklog') \in Nat
    BY <1>1, <2>1, Addends, FS_Subset, FS_CardinalityType
  <2>3. InHand' \in {0, 1}
    BY <1>1, <1>8, <1>9, Addends
  <2> QED
    BY <1>1, <1>7, <1>8, <1>9, <2>1, <2>2, <2>3, Addends DEF Underway
<1>10. CASE w = CREATE /\ Pending(c, reading)
  <2>1. \A i \in 1 .. L : ~Pending(c, backlog[i])
    BY <1>10 DEF OnePending
  <2>2. Cardinality(InBacklog') = Cardinality(InBacklog)
    <3>1. InBacklog' = InBacklog
      BY <1>8, <2>1 DEF InBacklog
    <3> QED
      BY <3>1
  <2>3. InHand' = 1
    BY <1>8, <1>10
  <2> QED
    BY <1>1, <1>7, <1>8, <1>10, <2>2, <2>3, Addends DEF Underway
<1>11. CASE w = CREATE /\ ~Pending(c, reading)
  <2>1. PICK k \in 1 .. L : Pending(c, backlog[k])
    BY <1>11 DEF Send, HasPending
  <2>2. \A i \in 1 .. L : Pending(c, backlog[i]) => i = k
    BY <2>1 DEF OnePending
  <2>3. InBacklog' = InBacklog \cup {k}
    BY <1>8, <1>11, <2>1, <2>2 DEF InBacklog
  <2>4. Cardinality(InBacklog') <= Cardinality(InBacklog) + 1 /\ Cardinality(InBacklog') \in Nat
    <3>1. IsFiniteSet(InBacklog)
      BY <1>1, Addends
    <3>2. /\ IsFiniteSet(InBacklog \cup {k})
          /\ Cardinality(InBacklog \cup {k}) =
                IF k \in InBacklog THEN Cardinality(InBacklog) ELSE Cardinality(InBacklog) + 1
      BY <3>1, FS_AddElement
    <3>3. Cardinality(InBacklog) \in Nat
      BY <1>1, Addends
    <3> QED
      BY <2>3, <3>2, <3>3
  <2> QED
    BY <1>1, <1>7, <1>8, <1>11, <2>4, Addends DEF Underway
<1> QED
  BY <1>9, <1>10, <1>11

\* A client that hangs up sends nothing.
LEMMA HangUpCounts ==
    ASSUME Inv, OnePending, NEW c \in Client, HangUp(c)
    PROVE  OnePending' /\ Underway' = Underway
<1> DEFINE L == Len(backlog)
<1>1. TypeOK /\ L \in Nat
  BY Addends DEF Inv
<1>2. /\ backlog' = [i \in 1 .. L |-> Closed(backlog[i], c)]
      /\ reading' = Closed(reading, c)
      /\ UNCHANGED <<queue, rows>>
  BY DEF HangUp
<1>3. Len(backlog') = L /\ \A i \in 1 .. L : backlog'[i] = Closed(backlog[i], c)
  BY <1>1, <1>2
<1>4. ASSUME NEW conn \in Connection \cup {NoConn}
      PROVE  /\ \A d \in Client : Pending(d, Closed(conn, c)) => Pending(d, conn)
             /\ Carrying(Closed(conn, c)) <=> Carrying(conn)
  BY ServerAssumption DEF Closed, Pending, Carrying, Connection, NoData, Empty, CREATE
<1>5. /\ reading \in Connection \cup {NoConn}
      /\ \A i \in 1 .. L : backlog[i] \in Connection \cup {NoConn}
  BY <1>1, BacklogElements DEF TypeOK
<1>6. OnePending'
  <2>1. \A d \in Client, i \in 1 .. L : Pending(d, backlog'[i]) => Pending(d, backlog[i])
    BY <1>3, <1>4, <1>5
  <2>2. \A d \in Client : Pending(d, reading') => Pending(d, reading)
    BY <1>2, <1>4, <1>5
  <2>3. \A d \in Client :
           /\ \A i, j \in 1 .. L : Pending(d, backlog'[i]) /\ Pending(d, backlog'[j]) => i = j
           /\ Pending(d, reading') => \A i \in 1 .. L : ~Pending(d, backlog'[i])
    BY <2>1, <2>2 DEF OnePending
  <2> QED
    BY <1>3, <2>3 DEF OnePending, Pending
<1>7. InBacklog' = InBacklog /\ InHand' = InHand
  BY <1>2, <1>3, <1>4, <1>5 DEF InBacklog, InHand, Carrying
<1> QED
  BY <1>2, <1>6, <1>7 DEF Underway, InFrame

-----------------------------------------------------------------------------
\* accept() takes the first connection in hand, and its word with it.
LEMMA AcceptCounts ==
    ASSUME Inv, OnePending, Accept
    PROVE  OnePending' /\ Underway' = Underway
<1> DEFINE L == Len(backlog)
<1>1. TypeOK /\ L \in Nat
  BY Addends DEF Inv
<1>2. /\ L > 0 /\ reading' = backlog[1] /\ Len(backlog') = L - 1
      /\ \A i \in 1 .. L - 1 : backlog'[i] = backlog[i + 1]
      /\ UNCHANGED <<queue, rows>> /\ ~Carrying(reading)
  <2>1. backlog \in Seq(Connection) /\ backlog # <<>>
    BY <1>1 DEF TypeOK, Accept
  <2>2. L > 0 /\ Len(backlog') = L - 1 /\ \A i \in 1 .. L - 1 : backlog'[i] = backlog[i + 1]
    BY <2>1, EmptySeq, HeadTailProperties DEF Accept
  <2>3. reading' = backlog[1] /\ reading = NoConn /\ UNCHANGED <<queue, rows>>
    BY <2>1, HeadTailProperties DEF Accept, Inv
  <2> QED
    BY <2>2, <2>3 DEF Carrying
<1>3. OnePending'
  <2> SUFFICES ASSUME NEW d \in Client
               PROVE  /\ \A i, j \in 1 .. L - 1 :
                            Pending(d, backlog[i + 1]) /\ Pending(d, backlog[j + 1]) => i = j
                      /\ Pending(d, backlog[1]) => \A i \in 1 .. L - 1 : ~Pending(d, backlog[i + 1])
    BY <1>1, <1>2 DEF OnePending, Pending
  <2>1. \A i, j \in 1 .. L : Pending(d, backlog[i]) /\ Pending(d, backlog[j]) => i = j
    BY DEF OnePending
  <2>2. \A i \in 1 .. L - 1 : i + 1 \in 1 .. L /\ i + 1 # 1
    BY <1>1
  <2> QED
    BY <1>1, <1>2, <2>1, <2>2
<1>4. InBacklog \in SUBSET (Nat \ {0}) /\ IsFiniteSet(InBacklog)
  BY <1>1, Addends DEF InBacklog
<1>5. InBacklog' = {i \in Nat \ {0} : i + 1 \in InBacklog}
  BY <1>1, <1>2 DEF InBacklog, Carrying
<1>6. Cardinality(InBacklog) = Cardinality(InBacklog') + (IF 1 \in InBacklog THEN 1 ELSE 0)
  BY <1>4, <1>5, Shifted
<1>7. InHand' = IF 1 \in InBacklog THEN 1 ELSE 0
  BY <1>1, <1>2 DEF InHand, InBacklog, Carrying
<1>8. Cardinality(InBacklog') \in Nat /\ InHand = 0
  BY <1>1, <1>2, <1>4, <1>5, Shifted, FS_CardinalityType DEF InHand
<1>9. InFrame' = InFrame /\ Len(queue') = Len(queue)
  BY <1>2 DEF InFrame
<1> QED
  BY <1>1, <1>3, <1>6, <1>7, <1>8, <1>9, Addends DEF Underway

\* A row that reads as CREATE was sent as CREATE.
LEMMA ReadRowCounts ==
    ASSUME Inv, OnePending, ReadRow
    PROVE  OnePending' /\ Underway' <= Underway
<1> DEFINE w == Stored(reading.data)
<1>1. TypeOK /\ reading # NoConn
  BY DEF Inv, ReadRow
<1>2. w = CREATE => Carrying(reading)
  BY <1>1 DEF Stored, Carrying, CREATE, Empty, Spill, Mixed
<1>3. /\ rows' = Append(rows, w) /\ rows \in Seq(Token)
      /\ reading' = NoConn /\ UNCHANGED <<backlog, queue>>
  BY <1>1 DEF ReadRow, TypeOK
<1>4. w \in Token
  <2>1. reading.data \in Word \cup {Empty}
    BY <1>1 DEF TypeOK, ReadRow, Connection
  <2> QED
    BY <2>1, StoredType
<1> HIDE DEF w
<1>5. /\ Len(rows) = 0 <=> rows = <<>>
      /\ Append(rows, w)[Len(rows) + 1] = w
      /\ Len(rows) > 0 => Append(rows, w)[1] = rows[1]
  BY <1>3, <1>4, EmptySeq, AppendProperties, LenProperties
<1>6. InFrame' <= InFrame + InHand /\ InFrame' \in {0, 1}
  <2>1. CASE rows = <<>>
    BY <1>2, <1>3, <1>5, <2>1 DEF InFrame, InHand
  <2>2. CASE rows # <<>>
    <3>1. rows'[1] = rows[1]
      BY <1>3, <1>5, <2>2, LenProperties
    <3> QED
      BY <2>2, <3>1 DEF InFrame, InHand
  <2> QED
    BY <2>1, <2>2
<1>7. InHand' = 0 /\ InBacklog' = InBacklog
  BY <1>3 DEF InHand, InBacklog, Carrying
<1>8. OnePending'
  BY <1>3 DEF OnePending, Pending
<1>9. Len(queue') = Len(queue) /\ Cardinality(InBacklog') = Cardinality(InBacklog)
  BY <1>3, <1>7
<1> QED
  BY <1>1, <1>6, <1>7, <1>8, <1>9, Addends DEF Underway

\* The row that ends a frame is not CREATE.
LEMMA ReadEndCounts ==
    ASSUME Inv, OnePending, ReadEnd
    PROVE  OnePending' /\ Underway' = Underway
<1>1. TypeOK /\ rows' = Append(rows, Empty) /\ UNCHANGED <<backlog, reading, queue>>
  BY DEF Inv, ReadEnd
<1>2. rows \in Seq(Token) /\ Empty \in Token /\ Empty # CREATE
  BY <1>1 DEF TypeOK, Token, Empty, CREATE
<1>3. /\ Len(rows) = 0 <=> rows = <<>>
      /\ Append(rows, Empty)[Len(rows) + 1] = Empty
      /\ Len(rows) > 0 => Append(rows, Empty)[1] = rows[1]
  BY <1>2, EmptySeq, AppendProperties, LenProperties
<1>4. InFrame' = InFrame
  <2>1. CASE rows = <<>>
    BY <1>1, <1>2, <1>3, <2>1 DEF InFrame
  <2>2. CASE rows # <<>>
    <3>1. rows'[1] = rows[1] /\ rows' # <<>>
      BY <1>1, <1>2, <1>3, <2>2, LenProperties
    <3> QED
      BY <2>2, <3>1 DEF InFrame
  <2> QED
    BY <2>1, <2>2
<1>5. OnePending'
  BY <1>1 DEF OnePending, Pending
<1> QED
  BY <1>1, <1>4, <1>5 DEF Underway, InHand, InBacklog, Carrying

\* Only a frame that begins with CREATE makes a reservation, and only one.
LEMMA CommandCounts ==
    ASSUME Inv, Command
    PROVE  Len(queue') <= Len(queue) + InFrame /\ Len(queue') \in Nat
<1>1. /\ rows \in Seq(Token) /\ queue \in Seq(Reservation) /\ Len(queue) \in Nat
      /\ InFrame \in {0, 1}
  BY Addends DEF Inv, TypeOK
<1>2. CASE CString(1) = <<CREATE>> /\ Create
  <2>1. InFrame = 1
    <3>1. CString(1) \notin {<<>>, <<Spill>>} /\ CString(1)[1] = CREATE
      BY <1>2 DEF CREATE, Spill
    <3>2. 1 <= Len(rows) /\ rows[1] = CREATE
      BY <1>1, <3>1, CStringType
    <3> QED
      BY <1>1, <3>2, EmptySeq DEF InFrame
  <2>2. \/ queue' = <<NewReservation(4)>>
        \/ queue' = queue
        \/ queue' = Append(queue, NewReservation(3))
    BY <1>2 DEF Create
  <2>3. Len(Append(queue, NewReservation(3))) = Len(queue) + 1
    BY <1>1, NewReservationType, AppendProperties
  <2>4. Len(<<NewReservation(4)>>) = 1
    OBVIOUS
  <2>5. \/ Len(queue') = 1 \/ Len(queue') = Len(queue) \/ Len(queue') = Len(queue) + 1
    BY <2>2, <2>3, <2>4
  <2>6. Len(queue) \in Nat
    BY <1>1
  <2> QED
    BY <2>1, <2>5, <2>6
<1>3. CASE Delete
  <2>1. \/ queue' = queue
        \/ \E i \in 1 .. Len(queue) :
              queue' = SubSeq(queue, 1, i - 1) \o SubSeq(queue, i + 1, Len(queue))
    BY <1>3 DEF Delete
  <2>2. ASSUME NEW i \in 1 .. Len(queue),
               queue' = SubSeq(queue, 1, i - 1) \o SubSeq(queue, i + 1, Len(queue))
        PROVE  Len(queue) > 0 /\ Len(queue') = Len(queue) - 1
    <3> DEFINE a == SubSeq(queue, 1, i - 1)
               b == SubSeq(queue, i + 1, Len(queue))
    <3>1. \A j \in 1 .. Len(queue) : queue[j] \in Reservation
      BY <1>1, ElementOfSeq
    <3>2. a \in Seq(Reservation) /\ Len(a) = i - 1
      <4>1. \A j \in 1 .. i - 1 : queue[j] \in Reservation
        BY <1>1, <3>1
      <4> QED
        BY <1>1, <4>1, SubSeqProperties
    <3>3. b \in Seq(Reservation) /\ Len(b) = Len(queue) - i
      <4>1. \A j \in i + 1 .. Len(queue) : queue[j] \in Reservation
        BY <1>1, <3>1
      <4> QED
        BY <1>1, <4>1, SubSeqProperties
    <3>4. queue' = a \o b
      BY <2>2
    <3> HIDE DEF a, b
    <3>5. Len(queue') = Len(a) + Len(b)
      BY <3>2, <3>3, <3>4, ConcatProperties
    <3> QED
      BY <1>1, <3>2, <3>3, <3>5
  <2>3. Len(queue') = Len(queue) \/ (Len(queue) > 0 /\ Len(queue') = Len(queue) - 1)
    <3>1. CASE queue' = queue
      BY <3>1
    <3> QED
      BY <2>1, <2>2, <3>1
  <2> QED
    BY <1>1, <2>3
<1>4. CASE UNCHANGED queue
  BY <1>1, <1>4
<1> QED
  BY <1>2, <1>3, <1>4 DEF Command

\* A frame that is over leaves no row behind.
LEMMA DispatchCounts ==
    ASSUME Inv, OnePending, Dispatch
    PROVE  OnePending' /\ Underway' <= Underway
<1>1. TypeOK /\ rows' = <<>> /\ reading' = NoConn
  BY DEF Inv, Dispatch
<1>2. Len(queue') <= Len(queue) + InFrame /\ Len(queue') \in Nat
  BY CommandCounts DEF Dispatch
<1>3. InFrame' = 0 /\ InHand' = 0
  BY <1>1 DEF InFrame, InHand, Carrying
<1>4. backlog' = <<>> \/ backlog' = backlog
  BY DEF Dispatch, Crash, Finish
<1>5. OnePending' /\ Cardinality(InBacklog') <= Cardinality(InBacklog)
      /\ Cardinality(InBacklog') \in Nat
  <2>1. CASE backlog' = <<>>
    <3>1. InBacklog' = {} /\ 1 .. Len(backlog') = {}
      BY <2>1 DEF InBacklog
    <3> QED
      BY <1>1, <3>1, FS_EmptySet, Addends DEF OnePending, Pending
  <2>2. CASE backlog' = backlog
    BY <1>1, <2>2, Addends DEF OnePending, Pending, InBacklog, Carrying
  <2> QED
    BY <1>4, <2>1, <2>2
<1> QED
  BY <1>1, <1>2, <1>3, <1>5, Addends DEF Underway

\* The server never has more reservations and unread CREATEs than before.
LEMMA ServerCounts ==
    ASSUME Inv, OnePending, ServerStep
    PROVE  OnePending' /\ Underway' <= Underway
<1>1. Underway \in Nat
  BY UnderwayType DEF Inv
<1>2. CASE AcceptFails
  <2>1. UNCHANGED <<queue, rows, reading, backlog>>
    BY <1>2 DEF AcceptFails
  <2>2. OnePending' /\ Underway' = Underway
    BY <2>1 DEF OnePending, Pending, Underway, InFrame, InHand, InBacklog, Carrying
  <2> QED
    BY <1>1, <2>2
<1> QED
  BY <1>1, <1>2, AcceptCounts, ReadRowCounts, ReadEndCounts, DispatchCounts DEF ServerStep

-----------------------------------------------------------------------------
\* Nothing is underway that was not sent.
CountInv == OnePending /\ IsFiniteSet(CreatesSent) /\ Underway <= Cardinality(CreatesSent)

\* The initial state has no connection and no reservation.
LEMMA CountInit == SystemInit => CountInv
<1> SUFFICES ASSUME SystemInit PROVE CountInv
  OBVIOUS
<1>1. /\ backlog = <<>> /\ reading = NoConn /\ rows = <<>> /\ queue = <<>>
      /\ at = [p \in Python |-> 1] /\ cc = [c \in CClients |-> "connect"]
  BY DEF SystemInit, Init
<1>2. Len(queue) = 0 /\ 1 .. Len(backlog) = {} /\ InHand = 0 /\ InFrame = 0
  BY <1>1, EmptySeq DEF InHand, InFrame, Carrying
<1>3. InBacklog = {} /\ OnePending
  BY <1>1, <1>2, ServerAssumption DEF InBacklog, OnePending, Pending
<1>4. CreatesSent = {}
  BY <1>1 DEF CreatesSent
<1> QED
  BY <1>2, <1>3, <1>4, FS_EmptySet DEF CountInv, Underway

\* A step that sends no CREATE adds no reservation.
LEMMA NothingSent ==
    ASSUME SysInv, CountInv, SysInv', OnePending', Underway' <= Underway,
           CreatesSent' = CreatesSent
    PROVE  CountInv'
<1>1. Underway \in Nat /\ Underway' \in Nat
  <2>1. TypeOK /\ TypeOK'
    BY DEF SysInv, Inv
  <2>2. (Underway \in Nat)'
    BY <2>1, UnderwayType, PTL
  <2>3. Underway \in Nat
    BY <2>1, UnderwayType
  <2> QED
    BY <2>2, <2>3
<1>2. Cardinality(CreatesSent) \in Nat /\ Cardinality(CreatesSent') = Cardinality(CreatesSent)
  BY FS_CardinalityType DEF CountInv
<1> QED
  BY <1>1, <1>2 DEF CountInv

\* A step that sends one adds one at most.
LEMMA OneSent ==
    ASSUME SysInv, CountInv, SysInv', OnePending', Underway' <= Underway + 1,
           NEW x, x \notin CreatesSent, CreatesSent' = CreatesSent \cup {x}
    PROVE  CountInv'
<1>1. Underway \in Nat /\ Underway' \in Nat
  <2>1. TypeOK /\ TypeOK'
    BY DEF SysInv, Inv
  <2>2. (Underway \in Nat)'
    BY <2>1, UnderwayType, PTL
  <2>3. Underway \in Nat
    BY <2>1, UnderwayType
  <2> QED
    BY <2>2, <2>3
<1>2. /\ IsFiniteSet(CreatesSent \cup {x})
      /\ Cardinality(CreatesSent \cup {x}) = Cardinality(CreatesSent) + 1
      /\ Cardinality(CreatesSent) \in Nat
  BY FS_AddElement, FS_CardinalityType DEF CountInv
<1>3. Cardinality(CreatesSent') = Cardinality(CreatesSent) + 1 /\ IsFiniteSet(CreatesSent')
  BY <1>2
<1> QED
  BY <1>1, <1>2, <1>3 DEF CountInv

\* What it takes to be in the set of the CREATEs sent, before a step.
LEMMA SentBefore ==
    ASSUME NEW x
    PROVE  x \in CreatesSent <=>
             \/ \E p \in Python : \E k \in 1 .. at[p] - 1 :
                   Program[p][k] = CREATE /\ x = <<p, k>>
             \/ \E d \in CClients : CWord[d] = CREATE /\ cc[d] \in {"wait", "done"} /\ x = <<d, 1>>
BY DEF CreatesSent

\* The same for the next state.
LEMMA SentAfter ==
    ASSUME NEW x
    PROVE  x \in CreatesSent' <=>
             \/ \E p \in Python : \E k \in 1 .. at'[p] - 1 :
                   Program[p][k] = CREATE /\ x = <<p, k>>
             \/ \E d \in CClients : CWord[d] = CREATE /\ cc'[d] \in {"wait", "done"} /\ x = <<d, 1>>
BY DEF CreatesSent

\* An item of client.py.
LEMMA PySendCounts ==
    ASSUME SysInv, CountInv, SysInv', NEW p \in Python, PySend(p)
    PROVE  CountInv'
<1> DEFINE w == Program[p][at[p]]
<1>1. /\ p \in Client /\ w \in Word \cup {Empty} /\ Inv /\ p \notin CClients
      /\ at \in [Python -> Nat] /\ at[p] \in Nat \ {0}
  BY NextItem, SystemAssumption DEF PySend, SysInv, ClientInv
<1>2. /\ Send(p, w, FALSE) /\ at' = [at EXCEPT ![p] = @ + 1] /\ UNCHANGED cc
  BY DEF PySend
<1>3. OnePending' /\ Underway' <= Underway + (IF w = CREATE THEN 1 ELSE 0)
  BY <1>1, <1>2, SendCounts DEF CountInv
<1>4. /\ at[p] \in 1 .. at'[p] - 1
      /\ \A q \in Python : \A k \in 1 .. at[q] - 1 : k \in 1 .. at'[q] - 1
      /\ \A q \in Python : \A k \in 1 .. at'[q] - 1 :
            k \in 1 .. at[q] - 1 \/ (q = p /\ k = at[p])
  <2>1. at'[p] - 1 = at[p] /\ \A q \in Python \ {p} : at'[q] = at[q]
    BY <1>1, <1>2
  <2>2. \A k \in 1 .. at[p] : k \in 1 .. at[p] - 1 \/ k = at[p]
    BY <1>1
  <2>3. at[p] \in 1 .. at[p] /\ \A k \in 1 .. at[p] - 1 : k \in 1 .. at[p]
    BY <1>1
  <2> QED
    BY <2>1, <2>2, <2>3
<1>5. CASE w = CREATE
  <2>1. CreatesSent' = CreatesSent \cup {<<p, at[p]>>}
    <3>1. \A x : x \in CreatesSent' <=> x \in CreatesSent \/ x = <<p, at[p]>>
      BY <1>2, <1>4, <1>5, SentBefore, SentAfter
    <3> QED
      BY <3>1
  <2>2. <<p, at[p]>> \notin CreatesSent
    BY <1>1, SentBefore
  <2>3. Underway' <= Underway + 1
    BY <1>3, <1>5
  <2> QED
    BY <1>3, <2>1, <2>2, <2>3, OneSent
<1>6. CASE w # CREATE
  <2>1. CreatesSent' = CreatesSent
    <3>1. \A x : x \in CreatesSent' <=> x \in CreatesSent
      BY <1>2, <1>4, <1>6, SentBefore, SentAfter
    <3> QED
      BY <3>1
  <2>2. Underway' <= Underway
    <3>1. Underway \in Nat
      BY <1>1, UnderwayType DEF Inv
    <3> QED
      BY <1>3, <1>6, <3>1
  <2> QED
    BY <1>3, <2>1, <2>2, NothingSent
<1> QED
  BY <1>5, <1>6

\* The command of client.c.
LEMMA CSendCounts ==
    ASSUME SysInv, CountInv, SysInv', NEW c \in CClients, CSend(c)
    PROVE  CountInv'
<1> DEFINE w == CWord[c]
<1>1. /\ c \in Client /\ w \in Word \cup {Empty} /\ Inv /\ c \notin Python
      /\ Underway \in Nat /\ Empty # CREATE
      /\ cc \in [CClients -> {"connect", "send", "wait", "done", "failed"}]
  BY SystemAssumption, UnderwayType DEF SysInv, ClientInv, Inv, Empty, CREATE
<1>2. cc[c] = "send" /\ cc' = [cc EXCEPT ![c] = "wait"] /\ UNCHANGED at
  BY DEF CSend
<1>3. \A d \in CClients : cc'[d] \in {"wait", "done"} <=> d = c \/ cc[d] \in {"wait", "done"}
  BY <1>1, <1>2
<1>4. CASE w = CREATE
  <2>1. OnePending' /\ Underway' <= Underway + 1
    <3>1. Send(c, w, TRUE)
      BY <1>1, <1>4 DEF CSend
    <3> QED
      BY <1>1, <1>4, <3>1, SendCounts DEF CountInv
  <2>2. CreatesSent' = CreatesSent \cup {<<c, 1>>}
    <3>1. \A x : x \in CreatesSent' <=> x \in CreatesSent \/ x = <<c, 1>>
      BY <1>2, <1>3, <1>4, SentBefore, SentAfter
    <3> QED
      BY <3>1
  <2>3. <<c, 1>> \notin CreatesSent
    BY <1>1, <1>2, SentBefore
  <2> QED
    BY <2>1, <2>2, <2>3, OneSent
<1>5. CASE w # CREATE
  <2>1. OnePending' /\ Underway' <= Underway
    <3>1. CASE UNCHANGED serverVars
      <4>1. OnePending' /\ Underway' = Underway
        BY <3>1 DEF serverVars, CountInv, OnePending, Pending, Underway, InFrame, InHand,
                          InBacklog, Carrying
      <4> QED
        BY <1>1, <4>1
    <3>2. CASE Send(c, w, TRUE)
      <4> HIDE DEF w
      <4>1. OnePending' /\ Underway' <= Underway + (IF w = CREATE THEN 1 ELSE 0)
        BY <1>1, <3>2, SendCounts DEF CountInv
      <4> QED
        BY <1>1, <1>5, <4>1
    <3> QED
      BY <3>1, <3>2 DEF CSend
  <2>2. CreatesSent' = CreatesSent
    BY <1>2, <1>3, <1>5 DEF CreatesSent
  <2> QED
    BY <2>1, <2>2, NothingSent
<1> QED
  BY <1>4, <1>5

\* Every step of the server, of the programs and of the device.
LEMMA CountStep ==
    ASSUME SysInv, CountInv, [SystemNext]_vars
    PROVE  CountInv'
<1>0. SysInv' /\ Inv /\ OnePending /\ Underway \in Nat
  BY SystemNextInv, UnderwayType DEF SysInv, Inv, CountInv
<1>1. CASE UNCHANGED <<at, cc>> /\ OnePending' /\ Underway' <= Underway
  BY <1>0, <1>1, NothingSent DEF CreatesSent
<1>2. ASSUME UNCHANGED serverVars
      PROVE  OnePending' /\ Underway' <= Underway
  <2>1. OnePending' /\ Underway' = Underway
    BY <1>0, <1>2 DEF serverVars, OnePending, Pending, Underway, InFrame, InHand, InBacklog,
                      Carrying
  <2> QED
    BY <1>0, <2>1
<1>3. ASSUME NEW c \in Client, Connect(c) \/ HangUp(c)
      PROVE  OnePending' /\ Underway' <= Underway
  <2>1. OnePending' /\ Underway' = Underway
    BY <1>0, <1>3, ConnectCounts, HangUpCounts
  <2> QED
    BY <1>0, <2>1
<1>4. CASE Serve
  BY <1>0, <1>1, <1>4, ServerCounts DEF Serve
<1>5. ASSUME NEW p \in Python, PyStep(p)
      PROVE  CountInv'
  <2>1. p \in Client
    BY SystemAssumption
  <2>2. CASE PyConnect(p)
    BY <1>1, <1>3, <2>1, <2>2 DEF PyConnect
  <2>3. CASE PyFail(p)
    BY <1>1, <1>2, <2>3 DEF PyFail
  <2> QED
    BY <1>0, <1>5, <2>2, <2>3, PySendCounts DEF PyStep
<1>6. ASSUME NEW c \in CClients, CStep(c)
      PROVE  CountInv'
  <2>1. c \in Client /\ cc \in [CClients -> {"connect", "send", "wait", "done", "failed"}]
    BY SystemAssumption DEF SysInv, ClientInv
  <2>2. ASSUME UNCHANGED at, NEW t, cc' = [cc EXCEPT ![c] = t],
               t \in {"wait", "done"} <=> cc[c] \in {"wait", "done"}
        PROVE  CreatesSent' = CreatesSent
    BY <2>1, <2>2 DEF CreatesSent
  <2>3. CASE CConnect(c)
    <3>1. CreatesSent' = CreatesSent
      BY <2>1, <2>2, <2>3 DEF CConnect
    <3> QED
      BY <1>0, <1>3, <2>1, <2>3, <3>1, NothingSent DEF CConnect
  <2>4. CASE CReturn(c)
    <3>1. CreatesSent' = CreatesSent
      BY <2>1, <2>2, <2>4 DEF CReturn
    <3> QED
      BY <1>0, <1>3, <2>1, <2>4, <3>1, NothingSent DEF CReturn
  <2>5. CASE CFail(c)
    <3>1. CreatesSent' = CreatesSent
      BY <2>1, <2>2, <2>5 DEF CFail
    <3> QED
      BY <1>0, <1>2, <2>5, <3>1, NothingSent DEF CFail
  <2> QED
    BY <1>0, <1>6, <2>3, <2>4, <2>5, CSendCounts DEF CStep
<1>7. CASE EspStep
  <2>1. UNCHANGED <<at, cc>>
    BY <1>7 DEF EspStep, EspConnect, EspPrint, EspSetupDone, EspTimeout, EspRead, EspBlinked
  <2>2. EspConnect \/ EspOn
    BY <1>7 DEF EspStep, EspConnect, EspPrint, EspSetupDone, EspTimeout, EspRead,
                EspBlinked, SysInv, ClientInv
  <2>3. Esp \in Client /\ Locker \in Word /\ Locker # CREATE
    BY <2>2, SystemAssumption DEF EspConnect, EspOn, Locker, CREATE
  <2>4. CASE UNCHANGED serverVars
    BY <1>1, <1>2, <2>1, <2>4
  <2>5. CASE Connect(Esp) \/ HangUp(Esp)
    BY <1>1, <1>3, <2>1, <2>3, <2>5
  <2>6. CASE Send(Esp, Locker, TRUE)
    <3>1. OnePending' /\ Underway' <= Underway + (IF Locker = CREATE THEN 1 ELSE 0)
      <4>1. PICK w \in Word \cup {Empty} : w = Locker
        BY <2>3
      <4>2. Send(Esp, w, TRUE)
        BY <2>6, <4>1
      <4>3. OnePending' /\ Underway' <= Underway + (IF w = CREATE THEN 1 ELSE 0)
        BY <1>0, <2>3, <4>2, SendCounts
      <4> QED
        BY <4>1, <4>3
    <3>2. Underway' <= Underway
      BY <1>0, <2>3, <3>1
    <3> QED
      BY <1>1, <2>1, <3>1, <3>2
  <2> QED
    BY <1>7, <2>4, <2>5, <2>6 DEF EspStep, EspConnect, EspPrint, EspSetupDone, EspTimeout,
                                  EspRead, EspBlinked
<1>8. CASE UNCHANGED vars
  BY <1>1, <1>2, <1>8 DEF vars
<1> QED
  BY <1>4, <1>5, <1>6, <1>7, <1>8 DEF SystemNext

\* However the frames are cut and mixed, the server holds no more reservations than
\* the programs sent CREATE, for any number of them and any messages.
THEOREM CreatesCountOnce == SystemSpec => []AtMostOncePerCreate
<1>1. SystemSpec => []CountInv
  BY CountInit, CountStep, SystemInvariant, PTL DEF SystemSpec
<1>2. SysInv /\ CountInv => AtMostOncePerCreate
  <2> SUFFICES ASSUME SysInv, CountInv PROVE Len(queue) <= Cardinality(CreatesSent)
    BY DEF AtMostOncePerCreate
  <2>1. TypeOK
    BY DEF SysInv, Inv
  <2>2. Cardinality(CreatesSent) \in Nat
    BY FS_CardinalityType DEF CountInv
  <2> QED
    BY <2>1, <2>2, Addends DEF CountInv, Underway
<1> QED
  BY <1>1, <1>2, SystemInvariant, PTL

-----------------------------------------------------------------------------
(* The server implements the service.                                      *)

\* Without the structure there is no reservation.
Unallocated == ~allocated => queue = <<>>

\* A reservation as the service sees it, and a list of them.
Seen(r) == [user |-> r.user, start |-> r.start, end |-> r.end]
SeenAll(q) == [i \in 1 .. Len(q) |-> Seen(q[i])]

\* What is booked is what is on the list, without the hours.
LEMMA BookedIsSeen == Booked = SeenAll(queue)
BY DEF Booked, SeenAll, Seen

\* A list seen is a sequence of the service's reservations.
LEMMA SeenType ==
    ASSUME NEW q \in Seq(Reservation)
    PROVE  /\ SeenAll(q) \in Seq(Service!Reservation) /\ Len(SeenAll(q)) = Len(q)
           /\ \A i \in 1 .. Len(q) : SeenAll(q)[i] = Seen(q[i])
<1>1. Len(q) \in Nat /\ \A i \in 1 .. Len(q) : q[i] \in Reservation
  BY LenProperties, ElementOfSeq
<1>2. \A r \in Reservation : Seen(r) \in Service!Reservation
  BY DEF Seen, Reservation, Service!Reservation
<1>3. SeenAll(q) \in [1 .. Len(q) -> Service!Reservation]
  BY <1>1, <1>2 DEF SeenAll
<1> QED
  BY <1>1, <1>3 DEF SeenAll

\* The end of the list is the end of what is seen.
LEMMA SeenAppend ==
    ASSUME NEW q \in Seq(Reservation), NEW r \in Reservation
    PROVE  SeenAll(Append(q, r)) = Append(SeenAll(q), Seen(r))
<1> DEFINE a == Append(q, r)
           l == SeenAll(a)
           s == Append(SeenAll(q), Seen(r))
<1>1. /\ a \in Seq(Reservation) /\ Len(a) = Len(q) + 1 /\ Len(q) \in Nat
      /\ a[Len(q) + 1] = r /\ \A i \in 1 .. Len(q) : a[i] = q[i]
  BY AppendProperties, LenProperties
<1>2. /\ l \in Seq(Service!Reservation) /\ Len(l) = Len(a)
      /\ \A i \in 1 .. Len(a) : l[i] = Seen(a[i])
  BY <1>1, SeenType
<1>3. /\ SeenAll(q) \in Seq(Service!Reservation) /\ Len(SeenAll(q)) = Len(q)
      /\ \A i \in 1 .. Len(q) : SeenAll(q)[i] = Seen(q[i])
  BY SeenType
<1>4. Seen(r) \in Service!Reservation
  BY DEF Seen, Reservation, Service!Reservation
<1>5. /\ s \in Seq(Service!Reservation) /\ Len(s) = Len(q) + 1
      /\ s[Len(q) + 1] = Seen(r) /\ \A i \in 1 .. Len(q) : s[i] = SeenAll(q)[i]
  BY <1>3, <1>4, AppendProperties
<1> HIDE DEF a, l, s
<1>6. ASSUME NEW i \in 1 .. Len(q) + 1
      PROVE  l[i] = s[i]
  BY <1>1, <1>2, <1>3, <1>5
<1>7. l = s
  BY <1>1, <1>2, <1>5, <1>6, SeqEqual
<1> QED
  BY <1>7 DEF a, l, s

\* What is cut out of the list is cut out of what is seen.
LEMMA SeenWithout ==
    ASSUME NEW q \in Seq(Reservation), NEW i \in 1 .. Len(q)
    PROVE  LET cut(s) == SubSeq(s, 1, i - 1) \o SubSeq(s, i + 1, Len(s)) IN
           /\ SeenAll(cut(q)) = cut(SeenAll(q))
           /\ cut(q) \in Seq(Reservation) /\ Len(cut(q)) = Len(q) - 1
<1> DEFINE cut(s) == SubSeq(s, 1, i - 1) \o SubSeq(s, i + 1, Len(s))
           n == Len(q)
<1>1. n \in Nat /\ i \in 1 .. n
  BY LenProperties
<1>2. ASSUME NEW S, NEW s \in Seq(S), Len(s) = n
      PROVE  /\ cut(s) \in Seq(S) /\ Len(cut(s)) = n - 1
             /\ \A j \in 1 .. n - 1 : cut(s)[j] = IF j < i THEN s[j] ELSE s[j + 1]
  <2> DEFINE a == SubSeq(s, 1, i - 1)
             b == SubSeq(s, i + 1, Len(s))
  <2>1. \A j \in 1 .. n : s[j] \in S
    BY <1>2, ElementOfSeq
  <2>2. a \in Seq(S) /\ Len(a) = i - 1 /\ \A j \in 1 .. i - 1 : a[j] = s[j]
    <3>1. \A j \in 1 .. i - 1 : s[j] \in S
      BY <1>1, <2>1
    <3> QED
      BY <1>1, <1>2, <3>1, SubSeqProperties
  <2>3. b \in Seq(S) /\ Len(b) = n - i /\ \A j \in 1 .. n - i : b[j] = s[i + j]
    <3>1. \A j \in i + 1 .. n : s[j] \in S
      BY <1>1, <2>1
    <3> QED
      BY <1>1, <1>2, <3>1, SubSeqProperties
  <2> HIDE DEF a, b
  <2>4. /\ a \o b \in Seq(S) /\ Len(a \o b) = Len(a) + Len(b)
        /\ \A j \in 1 .. Len(a) + Len(b) :
              (a \o b)[j] = IF j <= Len(a) THEN a[j] ELSE b[j - Len(a)]
    BY <2>2, <2>3, ConcatProperties
  <2>5. ASSUME NEW j \in 1 .. n - 1
        PROVE  (a \o b)[j] = IF j < i THEN s[j] ELSE s[j + 1]
    <3>1. CASE j < i
      BY <1>1, <2>2, <2>3, <2>4, <3>1
    <3>2. CASE j >= i
      <4> DEFINE k == j - (i - 1)
      <4>1. k \in 1 .. n - i /\ i + k = j + 1 /\ k = j - Len(a) /\ ~(j <= Len(a))
        BY <1>1, <2>2, <3>2
      <4>2. j \in 1 .. Len(a) + Len(b)
        BY <1>1, <2>2, <2>3
      <4>3. (a \o b)[j] = b[j - Len(a)]
        BY <2>4, <4>1, <4>2
      <4>4. b[k] = s[i + k]
        BY <2>3, <4>1
      <4> QED
        BY <1>1, <3>2, <4>1, <4>3, <4>4
    <3>3. j < i \/ j >= i
      BY <1>1
    <3> QED
      BY <3>1, <3>2, <3>3
  <2>6. Len(a \o b) = n - 1
    BY <1>1, <2>2, <2>3, <2>4
  <2>7. cut(s) = a \o b
    BY DEF a, b
  <2> QED
    BY <2>4, <2>5, <2>6, <2>7
<1>3. /\ SeenAll(q) \in Seq(Service!Reservation) /\ Len(SeenAll(q)) = n
      /\ \A j \in 1 .. n : SeenAll(q)[j] = Seen(q[j])
  BY SeenType
<1>4. /\ cut(q) \in Seq(Reservation) /\ Len(cut(q)) = n - 1
      /\ \A j \in 1 .. n - 1 : cut(q)[j] = IF j < i THEN q[j] ELSE q[j + 1]
  BY <1>2
<1>5. /\ cut(SeenAll(q)) \in Seq(Service!Reservation) /\ Len(cut(SeenAll(q))) = n - 1
      /\ \A j \in 1 .. n - 1 :
            cut(SeenAll(q))[j] = IF j < i THEN SeenAll(q)[j] ELSE SeenAll(q)[j + 1]
  BY <1>2, <1>3
<1> HIDE DEF cut
<1>6. /\ SeenAll(cut(q)) \in Seq(Service!Reservation) /\ Len(SeenAll(cut(q))) = n - 1
      /\ \A j \in 1 .. n - 1 : SeenAll(cut(q))[j] = Seen(cut(q)[j])
  BY <1>4, SeenType
<1>7. ASSUME NEW j \in 1 .. n - 1
      PROVE  SeenAll(cut(q))[j] = cut(SeenAll(q))[j]
  BY <1>1, <1>3, <1>4, <1>5, <1>6
<1>8. SeenAll(cut(q)) = cut(SeenAll(q))
  BY <1>1, <1>5, <1>6, <1>7, SeqEqual
<1> QED
  BY <1>4, <1>8 DEF cut

\* A new reservation goes to the end of the service's queue.
LEMMA CreateServes ==
    ASSUME Inv, Unallocated, Create, pc # "down", pc' # "down"
    PROVE  Unallocated' /\ [Service!Next]_Service!vars
<1>1. /\ queue \in Seq(Reservation) /\ allocated \in BOOLEAN
      /\ NewReservation(3) \in Reservation /\ NewReservation(4) \in Reservation
  BY NewReservationType DEF Inv, TypeOK
<1>2. ASSUME NEW r \in Reservation, queue' = Append(queue, r)
      PROVE  Service!Next
  <2>1. Seen(r) \in Service!Reservation
    BY DEF Seen, Reservation, Service!Reservation
  <2>2. /\ Booked \in Seq(Service!Reservation)
        /\ Booked' = Append(Booked, Seen(r))
    <3>1. Booked = SeenAll(queue) /\ Booked' = SeenAll(queue')
      BY DEF Booked, SeenAll, Seen
    <3>2. SeenAll(queue') = SeenAll(Append(queue, r))
      BY <1>2
    <3>3. SeenAll(Append(queue, r)) = Append(SeenAll(queue), Seen(r))
      BY <1>1, SeenAppend
    <3>4. SeenAll(queue) \in Seq(Service!Reservation)
      BY <1>1, SeenType
    <3> QED
      BY <3>1, <3>2, <3>3, <3>4
  <2>3. Len(Booked) + 1 \in 1 .. Len(Booked') /\ Booked'[Len(Booked) + 1] = Seen(r)
    BY <2>1, <2>2, AppendProperties, LenProperties
  <2>4. Service!Reserve(Seen(r))
    BY <2>2 DEF Service!Reserve
  <2> QED
    BY <2>1, <2>3, <2>4 DEF Service!Next
<1>3. CASE ~allocated
  <2>1. queue' = <<NewReservation(4)>> /\ allocated' = TRUE /\ queue = <<>>
    BY <1>3 DEF Create, Unallocated
  <2>2. queue' = Append(queue, NewReservation(4))
    BY <2>1
  <2> QED
    BY <1>1, <1>2, <2>1, <2>2 DEF Unallocated
<1>4. CASE allocated
  <2>1. /\ queue' = queue \/ queue' = Append(queue, NewReservation(3))
        /\ allocated' = allocated
    BY <1>4 DEF Create
  <2>2. CASE queue' = queue
    BY <1>4, <2>1, <2>2 DEF Unallocated, Service!vars, Booked
  <2>3. CASE queue' = Append(queue, NewReservation(3))
    BY <1>1, <1>2, <1>4, <2>1, <2>3 DEF Unallocated
  <2> QED
    BY <2>1, <2>2, <2>3
<1> QED
  BY <1>1, <1>3, <1>4

\* The oldest reservation of the user is cancelled, and with the last one the
\* service ends.
LEMMA DeleteServes ==
    ASSUME Inv, Unallocated, Delete, pc # "down",
           pc' = "down" <=> allocated' /\ queue' = <<>>
    PROVE  Unallocated' /\ [Service!Next]_Service!vars
<1>1. /\ queue \in Seq(Reservation) /\ allocated \in BOOLEAN /\ Len(queue) \in Nat
      /\ allocated' = allocated /\ (allocated => queue # <<>>)
  BY LenProperties DEF Inv, TypeOK, ReservedWhileRunning, Delete
<1>2. CASE queue' = queue
  BY <1>1, <1>2 DEF Unallocated, Service!vars, Booked
<1>3. CASE queue' # queue
  <2>1. PICK i \in 1 .. Len(queue) :
           /\ queue[i].user = CString(2) /\ \A j \in 1 .. i - 1 : queue[j].user # CString(2)
           /\ queue' = SubSeq(queue, 1, i - 1) \o SubSeq(queue, i + 1, Len(queue))
    BY <1>3 DEF Delete
  <2>2. allocated
    BY <1>1, <2>1, EmptySeq DEF Unallocated
  <2>3. /\ Booked = SeenAll(queue) /\ Len(Booked) = Len(queue)
        /\ \A j \in 1 .. Len(queue) : Booked[j] = Seen(queue[j])
    BY <1>1, BookedIsSeen, SeenType
  <2>4. Booked' = SeenAll(queue')
    BY DEF Booked, SeenAll, Seen
  <2>5. Booked' = Service!Without(i) /\ queue' \in Seq(Reservation) /\ Len(queue') = Len(queue) - 1
    BY <1>1, <2>1, <2>3, <2>4, SeenWithout DEF Service!Without
  <2>6. Service!OldestOf(Booked[i].user, i)
    <3>1. \A j \in 1 .. i : j \in 1 .. Len(queue)
      BY <1>1, <2>1
    <3>2. \A x : Seen(x).user = x.user
      BY DEF Seen
    <3>3. \A j \in 1 .. i : Booked[j].user = queue[j].user
      BY <2>3, <3>1, <3>2
    <3> QED
      BY <1>1, <2>1, <3>3 DEF Service!OldestOf
  <2>7. (pc # "down")' = (Len(Booked) > 1)
    <3>1. queue' = <<>> <=> Len(queue') = 0
      BY <2>5, EmptySeq
    <3> QED
      BY <1>1, <2>2, <2>3, <2>5, <3>1
  <2>8. Service!Cancel(Booked[i].user)
    BY <2>1, <2>3, <2>5, <2>6, <2>7 DEF Service!Cancel
  <2> QED
    BY <1>1, <2>2, <2>3, <2>8 DEF Unallocated, Service!Next
<1> QED
  BY <1>2, <1>3

\* Every step of the server is one of the service, or nothing the service sees.
LEMMA ServiceStep ==
    ASSUME Inv, Unallocated, [Next]_serverVars
    PROVE  Unallocated' /\ [Service!Next]_Service!vars
<1>1. CASE UNCHANGED <<queue, allocated>> /\ pc # "down" /\ pc' # "down"
  BY <1>1 DEF Unallocated, Service!vars, Booked
<1>2. CASE UNCHANGED <<queue, allocated, pc>>
  BY <1>2 DEF Unallocated, Service!vars, Booked
<1>3. CASE Accept \/ AcceptFails \/ ReadRow \/ ReadEnd
  BY <1>1, <1>3 DEF Accept, AcceptFails, ReadRow, ReadEnd
<1>4. CASE Dispatch
  <2>1. /\ pc # "down"
        /\ pc' = "down" <=> allocated' /\ queue' = <<>>
        /\ Create \/ Delete \/ UNCHANGED <<allocated, queue>>
    BY <1>4 DEF Dispatch, Crash, Finish, Command
  <2>2. CASE Create
    <3>1. queue' # <<>>
      <4>1. /\ queue \in Seq(Reservation) /\ NewReservation(3) \in Reservation
            /\ allocated => queue # <<>>
        BY <2>1, NewReservationType DEF Inv, TypeOK, ReservedWhileRunning
      <4>2. Append(queue, NewReservation(3)) # <<>>
        BY <4>1, AppendProperties, LenProperties, EmptySeq
      <4>3. \/ queue' = <<NewReservation(4)>>
            \/ allocated /\ (queue' = queue \/ queue' = Append(queue, NewReservation(3)))
        BY <2>2 DEF Create
      <4>4. <<NewReservation(4)>> # <<>>
        OBVIOUS
      <4> QED
        BY <4>1, <4>2, <4>3, <4>4
    <3> QED
      BY <2>1, <2>2, <3>1, CreateServes
  <2>3. CASE Delete
    BY <2>1, <2>3, DeleteServes
  <2>4. CASE UNCHANGED <<allocated, queue>>
    BY <1>1, <2>1, <2>4 DEF Inv, ReservedWhileRunning
  <2> QED
    BY <2>1, <2>2, <2>3, <2>4
<1>5. CASE ClientStep
  BY <1>2, <1>5 DEF ClientStep, Connect, Send, HangUp
<1>6. CASE UNCHANGED serverVars
  BY <1>2, <1>6 DEF serverVars
<1> QED
  BY <1>3, <1>4, <1>5, <1>6 DEF Next, ServerStep

\* The server, with its frames, rows and connections, is the service that
\* ReservationQueue describes, for any clients, words and limits.
THEOREM ServerIsTheService == Spec => ServesTheQueue
<1>1. Init => Unallocated /\ Service!Init
  <2> SUFFICES ASSUME Init PROVE Unallocated /\ Service!Init
    OBVIOUS
  <2>1. queue = <<>> /\ Len(queue) = 0 /\ pc # "down"
    BY EmptySeq DEF Init
  <2>2. Booked = <<>>
    BY <2>1 DEF Booked
  <2> QED
    BY <2>1, <2>2 DEF Unallocated, Service!Init
<1>2. Spec => []Unallocated
  BY <1>1, ServiceStep, ServerInvariant, PTL DEF Spec
<1>3. Inv /\ Unallocated /\ [Next]_serverVars => [Service!Next]_Service!vars
  BY ServiceStep
<1> QED
  BY <1>1, <1>2, <1>3, ServerInvariant, PTL DEF Spec, ServesTheQueue, Service!Spec

\* So is the server among the programs of the repository.
THEOREM SystemIsTheService == SystemSpec => ServesTheQueue
BY SystemImplementsServer, ServerIsTheService DEF ImplementsServer
===============================================================================
