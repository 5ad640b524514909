--------------------------- MODULE WiFiUdpProperties ---------------------------
(***************************************************************************)
(* What a sketch may rely on of its UDP socket.                            *)
(***************************************************************************)
EXTENDS WiFiUdp

\* Whatever failed in begin(), beginMulticast() and beginPacket(): the object
\* knows of every socket and buffer it opened, and of the group it is in.
ObjectMatchesLwip ==
    /\ net.open = IF fd THEN 1 ELSE 0
    /\ net.bufs = IF tx.buf THEN 1 ELSE 0
    /\ group = net.joined

\* The bytes of datagrams, one after the other.
AllBytes(out) ==
    LET cat[k \in 0..Len(out)] == IF k = 0 THEN <<>> ELSE cat[k - 1] \o out[k].bytes
    IN cat[Len(out)]
SentBytes == AllBytes(pkt.out)

\* What was written since beginPacket() leaves in order, once and whole, to the
\* address it was begun for, however often a failed endPacket() is repeated:
\* unless a full buffer could not be sent by write(), a sent packet is ended
\* again, or, for the address, a datagram was parsed in between.
SentAsBuilt ==
    /\ pkt.state # "none" /\ pkt.odd \cap {"lost", "again"} = {} =>
        SentBytes \o (IF pkt.state = "ended" THEN <<>> ELSE tx.bytes) = [i \in 1..pkt.n |-> i]
    /\ "parsed" \notin pkt.odd => \A i \in DOMAIN pkt.out : pkt.out[i].to = pkt.to

\* A datagram is read from its front, in order and nothing left out, until all
\* is read or it is given up by flush() or stop(); no other takes its place.
ReadAsReceived ==
    [][rx # <<>> => \/ got' \o rx' = got \o rx
                    \/ rx' = <<>> /\ got' = got]_udpVars
===============================================================================
