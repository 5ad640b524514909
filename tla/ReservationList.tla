--------------------------- MODULE ReservationList ---------------------------
(***************************************************************************)
(* The linked list of aws_server.c: the static pointer `reservations`, the *)
(* structure it points to, the list cells, and the four functions that     *)
(* touch them.  Each action is one command as listen_aws runs it: the      *)
(* command's function and then update_reservation.                         *)
(*                                                                         *)
(* A cell is named by the order in which malloc returned it.  The program  *)
(* never frees a cell, so names are never reused.                          *)
(***************************************************************************)
EXTENDS Naturals, Sequences, FiniteSets

CONSTANTS
    Text,           \* the strings a buffer row can hold
    CreateWord,     \* the string "CREATE"
    NULL,
    CellLimit       \* bound of the model: calls to malloc for cells

ASSUME ListAssumption ==
    /\ CreateWord \in Text
    /\ NULL \notin Nat
    /\ CellLimit \in Nat \ {0}

VARIABLES
    allocated,      \* reservations != NULL
    head,           \* reservations->head
    cells,          \* every struct user_reservation ever allocated
    USER,           \* reservations->USER, the string it points to
    LOCKED,         \* reservations->LOCKED
    running         \* FALSE after the null pointer was dereferenced

vars == <<allocated, head, cells, USER, LOCKED, running>>

Cell == 1 .. Len(cells)
Pointer == Cell \cup {NULL}

\* Path[k] is the pointer reached from head by following k times next.
Path ==
    LET follow[k \in 0 .. Len(cells)] ==
            IF k = 0 THEN head
            ELSE IF follow[k - 1] = NULL THEN NULL
            ELSE cells[follow[k - 1]].next
    IN  follow

\* The cells on the list.
Linked == { Path[k] : k \in 0 .. Len(cells) } \ {NULL}

\* The list as a sequence of reservations, the way print_reservations walks it.
Listed ==
    LET size == CHOOSE k \in 0 .. Len(cells) :
                    Path[k] = NULL /\ \A j \in 0 .. k - 1 : Path[j] # NULL
    IN  [ k \in 1 .. size |->
            [ user  |-> cells[Path[k - 1]].user,
              start |-> cells[Path[k - 1]].start,
              end   |-> cells[Path[k - 1]].end ] ]

TypeOK ==
    /\ allocated \in BOOLEAN
    /\ head \in Pointer
    /\ cells \in Seq([user: Text, start: Text, end: Text, next: Pointer])
    /\ USER \in Text \cup {NULL}
    /\ LOCKED \in {0, 1}
    /\ running \in BOOLEAN

Init ==
    /\ allocated = FALSE
    /\ head = NULL
    /\ cells = <<>>
    /\ USER = NULL
    /\ LOCKED = 0
    /\ running = TRUE

-----------------------------------------------------------------------------
\* search_reservation: position on the list of the first cell of user u.
FirstOf(u, k) ==
    /\ Path[k] # NULL
    /\ cells[Path[k]].user = u
    /\ \A j \in 0 .. k - 1 : cells[Path[j]].user # u

Found(u) == \E c \in Linked : cells[c].user = u

\* Wrong: USER is only set once.
UpdateReservation_KeepsFirstUser ==
    IF ~allocated'
      THEN UNCHANGED <<USER, LOCKED, running>>
      ELSE IF head' = NULL
        THEN running' = FALSE /\ UNCHANGED <<USER, LOCKED>>
        ELSE /\ USER' = (IF USER = NULL THEN cells'[head'].user ELSE USER)
             /\ LOCKED' = 1 /\ UNCHANGED running

\* update_reservation: USER is read through head before head is compared
\* with NULL, so an emptied list ends the process and never clears LOCKED.
UpdateReservation ==
    IF ~allocated'
      THEN UNCHANGED <<USER, LOCKED, running>>
      ELSE IF head' = NULL
        THEN running' = FALSE /\ UNCHANGED <<USER, LOCKED>>
        ELSE USER' = cells'[head'].user /\ LOCKED' = 1 /\ UNCHANGED running

\* create_reservation on a server that has no reservation structure yet: both
\* times are copied from row 3.
CreateFirst(user, row2, row3) ==
    /\ running /\ ~allocated
    /\ allocated' = TRUE
    /\ head' = Len(cells) + 1
    /\ cells' = Append(cells, [user |-> user, start |-> row3, end |-> row3,
                               next |-> NULL])
    /\ UpdateReservation

\* create_reservation, append: the search is made with row 0, which holds the
\* command word, not the user.
CreateNext(user, row2, row3) ==
    /\ running /\ allocated
    /\ Len(cells) < CellLimit
    /\ ~Found(CreateWord)
    /\ \E cursor \in Linked :
          /\ cells[cursor].next = NULL
          /\ cells' = Append([cells EXCEPT ![cursor].next = Len(cells) + 1],
                             [user |-> user, start |-> row2, end |-> row3,
                              next |-> NULL])
    /\ UNCHANGED <<allocated, head>>
    /\ UpdateReservation

CreateRefused ==
    /\ running /\ allocated
    /\ Found(CreateWord)
    /\ UNCHANGED <<allocated, head, cells>>
    /\ UpdateReservation

\* delete_reservation, the match is the first element.
DeleteHead(u) ==
    /\ running /\ allocated
    /\ FirstOf(u, 0)
    /\ head' = cells[head].next
    /\ UNCHANGED <<allocated, cells>>
    /\ UpdateReservation

\* Wrong: the cells behind the match are dropped with it.
DeleteInner_CutsTail(u) ==
    /\ running /\ allocated
    /\ \E k \in 1 .. Len(cells) :
          /\ FirstOf(u, k)
          /\ cells' = [cells EXCEPT ![Path[k - 1]].next = NULL]
    /\ UNCHANGED <<allocated, head>>
    /\ UpdateReservation

\* delete_reservation, the match is further down: prev -> next = next.
DeleteInner(u) ==
    /\ running /\ allocated
    /\ \E k \in 1 .. Len(cells) :
          /\ FirstOf(u, k)
          /\ cells' = [cells EXCEPT ![Path[k - 1]].next = cells[Path[k]].next]
    /\ UNCHANGED <<allocated, head>>
    /\ UpdateReservation

\* Any other frame, and a DELETE of a user without a reservation: no command
\* function changes the list, update_reservation still runs.
OtherCommand ==
    /\ running
    /\ UNCHANGED <<allocated, head, cells>>
    /\ UpdateReservation

Create == \E user, row2, row3 \in Text :
    CreateFirst(user, row2, row3) \/ CreateNext(user, row2, row3)

Delete == \E u \in Text : DeleteHead(u) \/ DeleteInner(u)

Next == Create \/ CreateRefused \/ Delete \/ OtherCommand

Spec == Init /\ [][Next]_vars
=============================================================================
