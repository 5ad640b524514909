------------------------- MODULE MC_ReservationList -------------------------
(* Three strings: two users and the word "CREATE" itself, which a user's row *)
(* holds when another client's message lands in it.                          *)
EXTENDS ReservationListProperties
=============================================================================
