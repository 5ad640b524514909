-------------------------- MODULE ReservationQueue --------------------------
(***************************************************************************)
(* What the locker server promises about reservations, without pointers:  *)
(* a queue of reservations in order of arrival.  A new reservation goes to *)
(* the end, a cancellation removes the oldest reservation of that user,    *)
(* nothing else changes.  The service stops for good when the only         *)
(* reservation it holds is cancelled: aws_server.c has no path back to an  *)
(* empty queue (update_reservation dereferences the head it just lost).    *)
(***************************************************************************)
EXTENDS Naturals, Sequences

CONSTANTS Text      \* the strings a request can carry

Reservation == [user: Text, start: Text, end: Text]

VARIABLES
    queue,          \* reservations, oldest first
    up              \* the service answers requests

vars == <<queue, up>>

Init == queue = <<>> /\ up = TRUE

Reserve(r) ==
    /\ up
    /\ queue' = Append(queue, r)
    /\ UNCHANGED up

\* Position i holds the oldest reservation of user u.
OldestOf(u, i) ==
    /\ queue[i].user = u
    /\ \A j \in 1 .. i - 1 : queue[j].user # u

Without(i) == SubSeq(queue, 1, i - 1) \o SubSeq(queue, i + 1, Len(queue))

Cancel(u) ==
    /\ up
    /\ \E i \in 1 .. Len(queue) : OldestOf(u, i) /\ queue' = Without(i)
    /\ up' = (Len(queue) > 1)

\* The arguments are read off the queue: what was booked is at its end, and only a user who has a
\* reservation can cancel one.
Next ==
    \/ \E i \in 1 .. Len(queue') : queue'[i] \in Reservation /\ Reserve(queue'[i])
    \/ \E i \in 1 .. Len(queue) : Cancel(queue[i].user)

Spec == Init /\ [][Next]_vars
=============================================================================
