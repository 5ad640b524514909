---------------------- MODULE ReservationListProperties ----------------------
(***************************************************************************)
(* What the linked list of aws_server.c must satisfy.                      *)
(***************************************************************************)
EXTENDS ReservationList

\* While the server runs, the structure it has allocated holds at least one
\* reservation, and what update_reservation stored is the user of the oldest
\* one with the locker marked locked.
LockedForTheOldest ==
    running /\ allocated =>
        /\ Linked # {}
        /\ LOCKED = 1
        /\ \A c \in Linked :
              (\A d \in Linked : c <= d) => USER = cells[c].user

\* The pointers implement the queue of ReservationQueue.
Queue == INSTANCE ReservationQueue WITH queue <- Listed, up <- running

ImplementsQueue == Queue!Spec
=============================================================================
