------------------------ MODULE LockerSystemProperties ------------------------
(***************************************************************************)
(* What the server and its clients must satisfy together.                  *)
(***************************************************************************)
EXTENDS LockerSystem, LockerServerProperties

\* The composed system is a server as LockerServer specifies it: its clients
\* do to the server nothing but connect, send one word and hang up.
ImplementsServer == Spec

\* The LEDs of locker.ino blink only while the server holds a reservation, or
\* after it died.
BlinkMeansReserved == esp = "blink" /\ pc # "down" => queue # <<>>

\* However frames are cut and mixed, a CREATE that was sent once makes at most
\* one reservation: rows of a frame are gone when the next one begins.
CreatesSent ==
    (UNION { { <<p, k>> : k \in { j \in 1 .. at[p] - 1 : Program[p][j] = CREATE } }
             : p \in Python })
      \cup { <<c, 1>> : c \in { d \in CClients :
                             CWord[d] = CREATE /\ cc[d] \in {"wait", "done"} } }

AtMostOncePerCreate == Len(queue) <= Cardinality(CreatesSent)

=============================================================================
