----------------------------- MODULE LockerServer -----------------------------
(***************************************************************************)
(* The server process of aws_server.c: main calls listen_aws for ever, and *)
(* listen_aws gathers one frame.  Each message of a frame comes on a       *)
(* connection of its own and lands in the next row of `buffer`; the first  *)
(* row that reads as the empty string ends the frame, which is then        *)
(* dispatched on row 0, followed by update_reservation and one ACK.        *)
(*                                                                         *)
(* Clients are anything that connects, sends at most one word and hangs up *)
(* or stays; LockerSystem restricts them to the programs of the repository.*)
(*                                                                         *)
(* Data.  A word is one token.  All words of the protocol fit a row of 16  *)
(* bytes but the date, whose last three bytes (":SS") spill into the next  *)
(* row.  read() adds no terminator, so what the next word leaves of these  *)
(* bytes stays part of that row.                                           *)
(***************************************************************************)
EXTENDS Naturals, Sequences

CONSTANTS
    Client,         \* who may connect
    Word,           \* what a client may send
    Digit,          \* the words of one digit
    NoConn,         \* no accepted connection
    Slots,          \* descriptors accept() may hand out before EMFILE
    Rows,           \* rows of `buffer`: 1024 in the code
    Backlog         \* connections the kernel completes ahead of accept()

Empty == ""         \* connection closed without data, and the empty row
Nul == "nul"        \* the single byte "\0"
Date == "date"      \* dd/mm/YYYY HH:MM:SS, 19 bytes
Spill == "spill"     \* a row that holds only the spilled ":SS"
Mixed == "mixed"    \* a row that holds a digit followed by "SS"
NoData == "nodata"  \* connected, nothing sent, not closed
CREATE == "CREATE"
DELETE == "DELETE"
Locker == "ESP32-LOCKER"

VARIABLES
    backlog,        \* completed connections, oldest first
    reading,        \* the connection behind client_fd
    rows,           \* buffer[0 .. i-1] of the running listen_aws
    held,           \* accepted descriptors that are still open
    allocated,      \* reservations != NULL
    queue,          \* the reservation list, oldest first
    pc,             \* where the server is
    inbox           \* what the server sent to each client that still listens

serverVars == <<backlog, reading, rows, held, allocated, queue, pc, inbox>>

Connection == [from: Client, data: Word \cup {Empty, NoData}, open: BOOLEAN]

ASSUME ServerAssumption ==
    /\ Digit \subseteq Word
    /\ NoData \notin Word
    /\ NoConn \notin Connection
    /\ Slots \in Nat \ {0} /\ Rows \in Nat \ {0}
    /\ Slots <= Rows
    /\ Backlog \in Nat \ {0}

Token == Word \cup {Empty, Spill, Mixed}
Reservation == [user: Seq(Token), start: Seq(Token), end: Seq(Token),
                hours: Seq(Token)]

TypeOK ==
    /\ backlog \in Seq(Connection)
    /\ reading \in Connection \cup {NoConn}
    /\ rows \in Seq(Token)
    /\ held \in 0 .. Slots
    /\ allocated \in BOOLEAN
    /\ queue \in Seq(Reservation)
    /\ pc \in {"accept", "read", "dispatch", "down"}
    /\ inbox \in [Client -> SUBSET {"ACK", "cmd"}]

Init ==
    /\ backlog = <<>> /\ reading = NoConn /\ rows = <<>> /\ held = 0
    /\ allocated = FALSE /\ queue = <<>>
    /\ pc = "accept"
    /\ inbox = [c \in Client |-> {}]

-----------------------------------------------------------------------------
(* Rows and strings *)

\* The row under a date starts with the date's last bytes.
UnderDate == rows # <<>> /\ rows[Len(rows)] = Date

\* What row i reads as once word w was received into it.
Stored(w) ==
    CASE w = Nul -> Empty
      [] w = Empty /\ UnderDate -> Spill
      [] w \in Digit /\ UnderDate -> Mixed
      [] OTHER -> w

\* The C string that starts at row n (counted from 1): a date has no
\* terminator of its own and runs on into the row below it, which holds its
\* end even if accept() failed and nothing was read there.
CString(n) ==
    IF n = Len(rows) + 1 /\ UnderDate THEN <<Spill>>
    ELSE IF n > Len(rows) \/ rows[n] = Empty THEN <<>>
    ELSE LET stop == CHOOSE k \in n .. Len(rows) + 1 :
                       /\ k = Len(rows) + 1 \/ rows[k] # Date
                       /\ \A j \in n .. k - 1 : rows[j] = Date
             run  == SubSeq(rows, n, stop - 1)
         IN  IF stop = Len(rows) + 1 THEN Append(run, Spill)
             ELSE IF rows[stop] = Empty THEN run ELSE Append(run, rows[stop])

-----------------------------------------------------------------------------
(* Clients *)

Pending(c, conn) == conn # NoConn /\ conn.from = c /\ conn.data = NoData

HasPending(c) ==
    \/ Pending(c, reading)
    \/ \E i \in 1 .. Len(backlog) : Pending(c, backlog[i])

\* connect() returns: the kernel has queued the connection.
Connect(c) ==
    /\ pc # "down"
    /\ Len(backlog) < Backlog
    /\ ~HasPending(c)
    /\ backlog' = Append(backlog, [from |-> c, data |-> NoData, open |-> TRUE])
    /\ inbox' = [inbox EXCEPT ![c] = {}]
    /\ UNCHANGED <<reading, rows, held, allocated, queue, pc>>

\* The connection after its client sent w, or hung up.
Sent(conn, c, w, stays) ==
    IF Pending(c, conn) THEN [conn EXCEPT !.data = w, !.open = stays] ELSE conn

Closed(conn, c) ==
    IF conn # NoConn /\ conn.from = c
      THEN [conn EXCEPT !.open = FALSE,
                        !.data = IF conn.data = NoData THEN Empty ELSE conn.data]
      ELSE conn

\* send(), and close() right after it unless the client stays to listen.
\* Sending no byte and closing is how the empty word travels; without the
\* close nothing reaches the server.
Send(c, w, stays) ==
    /\ HasPending(c)
    /\ w = Empty => ~stays
    /\ backlog' = [i \in 1 .. Len(backlog) |-> Sent(backlog[i], c, w, stays)]
    /\ reading' = Sent(reading, c, w, stays)
    /\ UNCHANGED <<rows, held, allocated, queue, pc, inbox>>

\* A client closes the connections it has: nothing sent later reaches it.
HangUp(c) ==
    /\ backlog' = [i \in 1 .. Len(backlog) |-> Closed(backlog[i], c)]
    /\ reading' = Closed(reading, c)
    /\ inbox' = [inbox EXCEPT ![c] = {}]
    /\ UNCHANGED <<rows, held, allocated, queue, pc>>

-----------------------------------------------------------------------------
(* listen_aws *)

\* accept() takes the oldest connection; the descriptor stays open until the
\* server closes it, whatever the client does.
Accept ==
    /\ pc = "accept"
    /\ held < Slots
    /\ backlog # <<>>
    /\ reading' = Head(backlog)
    /\ backlog' = Tail(backlog)
    /\ held' = held + 1
    /\ pc' = "read"
    /\ UNCHANGED <<rows, allocated, queue, inbox>>

\* No descriptor is left: accept() returns -1 and ends the loop, with whatever
\* rows have arrived.
AcceptFails ==
    /\ pc = "accept"
    /\ held = Slots
    /\ pc' = "dispatch"
    /\ UNCHANGED <<backlog, reading, rows, held, allocated, queue, inbox>>

\* A reply reaches a client that still listens on this connection.
Reply(conn, what) ==
    inbox' = IF conn # NoConn /\ conn.open
               THEN [inbox EXCEPT ![conn.from] = @ \cup {what}]
               ELSE inbox

\* The part of ReadRow that its wrong forms share.
LOCAL KeepRow ==
    /\ pc = "read"
    /\ reading.data # NoData
    /\ Stored(reading.data) # Empty
    /\ rows' = Append(rows, Stored(reading.data))
    /\ reading' = NoConn
    /\ pc' = "accept"
    /\ UNCHANGED <<backlog, allocated, queue>>

\* Wrong: the descriptor is closed after the read and nothing else bounds i.
ReadRow_Closes ==
    /\ KeepRow
    /\ held' = held - 1
    /\ UNCHANGED inbox

\* Wrong: the poll is answered whether or not there are reservations.
ReadRow_AlwaysAnswers ==
    /\ KeepRow
    /\ IF Stored(reading.data) = Locker THEN Reply(reading, "cmd")
       ELSE UNCHANGED inbox
    /\ UNCHANGED held

\* The row holds text.  The locker's poll is answered at once if there is a
\* reservation structure.  The descriptor is forgotten, not closed.
ReadRow ==
    /\ pc = "read"
    /\ reading.data # NoData
    /\ Stored(reading.data) # Empty
    /\ rows' = Append(rows, Stored(reading.data))
    /\ IF Stored(reading.data) = Locker /\ allocated
         THEN Reply(reading, "cmd")
         ELSE UNCHANGED inbox
    /\ reading' = NoConn
    /\ pc' = "accept"
    /\ UNCHANGED <<backlog, held, allocated, queue>>

\* The row reads as the empty string: the frame is complete.
ReadEnd ==
    /\ pc = "read"
    /\ reading.data # NoData
    /\ Stored(reading.data) = Empty
    /\ rows' = Append(rows, Empty)
    /\ pc' = "dispatch"
    /\ UNCHANGED <<backlog, reading, held, allocated, queue, inbox>>

\* create_reservation: the first reservation takes both times from row 3, the
\* others start at row 2.  Row 7 is the duration.  The duplicate search uses
\* row 0, the word CREATE itself.
NewReservation(startRow) ==
    [user |-> CString(2), start |-> CString(startRow), end |-> CString(4),
     hours |-> CString(8)]

\* Wrong: a new reservation goes to the front.
Create_Prepends ==
    IF ~allocated
      THEN queue' = <<NewReservation(4)>> /\ allocated' = TRUE
      ELSE /\ queue' = IF \E i \in 1 .. Len(queue) : queue[i].user = CString(1)
                         THEN queue
                         ELSE <<NewReservation(3)>> \o queue
           /\ UNCHANGED allocated

Create ==
    IF ~allocated
      THEN queue' = <<NewReservation(4)>> /\ allocated' = TRUE
      ELSE /\ queue' = IF \E i \in 1 .. Len(queue) : queue[i].user = CString(1)
                         THEN queue
                         ELSE Append(queue, NewReservation(3))
           /\ UNCHANGED allocated

\* delete_reservation: the oldest reservation of the user in row 1.
Delete ==
    LET oldest(i) == /\ queue[i].user = CString(2)
                     /\ \A j \in 1 .. i - 1 : queue[j].user # CString(2)
    IN  /\ IF \E i \in 1 .. Len(queue) : oldest(i)
             THEN \E i \in 1 .. Len(queue) :
                    /\ oldest(i)
                    /\ queue' = SubSeq(queue, 1, i - 1)
                                  \o SubSeq(queue, i + 1, Len(queue))
             ELSE UNCHANGED queue
        /\ UNCHANGED allocated

Command ==
    CASE CString(1) = <<CREATE>> -> Create
      [] CString(1) = <<DELETE>> -> Delete
      [] OTHER -> UNCHANGED <<allocated, queue>>

\* Wrong: something is closed even when accept() returned nothing.
Finish_ClosesUnchecked ==
    /\ Reply(reading, "ACK")
    /\ held' = IF CString(1) = <<Locker>> THEN held ELSE held - 1
    /\ pc' = "accept"
    /\ UNCHANGED backlog

\* ACK and close at the end of listen_aws; the descriptor of the last
\* connection survives when row 0 is the locker's poll.
Finish ==
    /\ Reply(reading, "ACK")
    /\ held' = IF reading = NoConn \/ CString(1) = <<Locker>> THEN held
               ELSE held - 1
    /\ pc' = "accept"
    /\ UNCHANGED backlog

\* update_reservation on an allocated structure without a head: the process
\* dies and the kernel drops all its connections.
Crash ==
    /\ held' = 0
    /\ pc' = "down"
    /\ backlog' = <<>>
    /\ UNCHANGED inbox

\* Wrong: buffer survives the frame.
Dispatch_KeepsRows ==
    /\ pc = "dispatch"
    /\ Command
    /\ IF allocated' /\ queue' = <<>> THEN Crash ELSE Finish
    /\ reading' = NoConn
    /\ UNCHANGED rows

\* The frame is complete: command, update_reservation, ACK, close.
Dispatch ==
    /\ pc = "dispatch"
    /\ Command
    /\ IF allocated' /\ queue' = <<>> THEN Crash ELSE Finish
    /\ reading' = NoConn
    /\ rows' = <<>>

ServerStep == Accept \/ AcceptFails \/ ReadRow \/ ReadEnd \/ Dispatch

ClientStep ==
    \E c \in Client :
        \/ Connect(c)
        \/ \E w \in Word \cup {Empty}, stays \in BOOLEAN : Send(c, w, stays)
        \/ HangUp(c)

Next == ServerStep \/ ClientStep

Spec == Init /\ [][Next]_serverVars
=============================================================================
