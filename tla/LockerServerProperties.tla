------------------------ MODULE LockerServerProperties ------------------------
(***************************************************************************)
(* What the server of aws_server.c must satisfy whatever its clients do.   *)
(***************************************************************************)
EXTENDS LockerServer

\* The row that is about to be received into exists.  Nothing in listen_aws
\* compares i with the 1024 rows of buffer: what bounds i is that every row of
\* a frame keeps a descriptor open until accept() fails.
RowInBounds == pc = "read" => Len(rows) < Rows

\* A server that ran out of descriptors between two frames stays so for ever,
\* and its reservations never change again.
Exhausted == held = Slots /\ reading = NoConn /\ rows = <<>>

ExhaustedForEver ==
    [][ Exhausted => Exhausted' /\ queue' = queue /\ pc' # "down" ]_serverVars

\* Behind the rows, the descriptors and the connections the server is the
\* service of ReservationQueue: a frame adds a reservation at the end of the
\* list, takes the oldest of a user away or changes none, and the server goes
\* down with its last reservation and never otherwise.
Booked == [i \in 1 .. Len(queue) |->
              [user |-> queue[i].user, start |-> queue[i].start, end |-> queue[i].end]]

Service == INSTANCE ReservationQueue
               WITH Text <- Seq(Token), queue <- Booked, up <- pc # "down"

ServesTheQueue == Service!Spec
=============================================================================
