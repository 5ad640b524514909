-------------------------------- MODULE WiFiUdp --------------------------------
(***************************************************************************)
(* WiFiUDP: one socket, one packet being built and one datagram being      *)
(* read.  Every call is one step; datagrams arrive in between, and malloc, *)
(* socket, bind, the join and sendto may fail.                             *)
(*                                                                         *)
(* Bytes written are numbered from the last beginPacket() on; a byte of a  *)
(* datagram is its sender and its place.  The sketch writes only after     *)
(* beginPacket() answered 1: write() does not look at tx_buffer.           *)
(***************************************************************************)
EXTENDS Naturals, Sequences, FiniteSets

CONSTANTS
    Peer,           \* addresses that send and are sent to
    Group,          \* the multicast address
    None,           \* remote_port 0: no address yet
    Full,           \* bytes of a buffer: 1460
    MaxInbox,       \* datagrams lwIP keeps for the socket
    MaxWritten      \* bytes a sketch writes to one packet

ASSUME UdpAssumption ==
    /\ {Group, None} \cap Peer = {} /\ Group # None
    /\ {Full, MaxInbox, MaxWritten} \subseteq Nat \ {0}

VARIABLES
    fd,             \* udp_server is a socket
    group,          \* multicast_ip is set
    port,           \* server_port is set
    remote,         \* remote_ip, remote_port
    tx,             \* tx_buffer is allocated, and its tx_buffer_len bytes
    rx,             \* what rx_buffer still holds; deleted when empty
    net,            \* of lwIP and the heap: sockets open, bound, joined; tx buffers
    inbox,          \* datagrams that wait in the socket
    pkt,            \* of the packet last begun: addressee, bytes written, datagrams sent
    got             \* what the sketch has read of the datagram last parsed

object == <<fd, group, port, remote, tx, rx>>
udpVars == <<object, net, inbox, pkt, got>>

LeastOf(a, b) == IF a < b THEN a ELSE b
Bytes(p, n) == [i \in 1..n |-> [from |-> p, place |-> i]]
NoPacket == [to |-> None, n |-> 0, out |-> <<>>, state |-> "none", odd |-> {}]

UdpTypeOK ==
    /\ {fd, group, port, tx.buf, net.bound, net.joined} \subseteq BOOLEAN
    /\ remote \in Peer \cup {Group, None}
    /\ tx.bytes \in Seq(1..MaxWritten) /\ Len(tx.bytes) <= Full
    /\ Len(rx) <= Full /\ Len(inbox) <= MaxInbox
    /\ net.open \in Nat /\ net.bufs \in Nat
    /\ pkt.state \in {"none", "building", "ended"}
    /\ pkt.odd \subseteq {"again", "lost", "parsed"} /\ pkt.n <= MaxWritten

UdpInit ==
    /\ fd = FALSE /\ group = FALSE /\ port = FALSE /\ remote = None
    /\ tx = [buf |-> FALSE, bytes |-> <<>>] /\ rx = <<>>
    /\ net = [open |-> 0, bound |-> FALSE, joined |-> FALSE, bufs |-> 0]
    /\ inbox = <<>> /\ pkt = NoPacket /\ got = <<>>

(***************************************************************************)
(* stop() and begin(), which stops first.                                  *)
(***************************************************************************)
\* Wrong: multicast_ip survives stop().
GroupAfterStop_Kept == group

GroupAfterStop == group /\ ~fd

NetAfterStop ==     \* close also leaves the group
    [open |-> net.open - (IF fd THEN 1 ELSE 0), bound |-> net.bound /\ ~fd,
     joined |-> net.joined /\ ~fd, bufs |-> net.bufs - (IF tx.buf THEN 1 ELSE 0)]

Stop ==
    /\ fd' = FALSE /\ group' = GroupAfterStop
    /\ tx' = [buf |-> FALSE, bytes |-> <<>>] /\ rx' = <<>>
    /\ net' = NetAfterStop
    /\ inbox' = IF fd THEN <<>> ELSE inbox
    /\ pkt' = NoPacket
    /\ UNCHANGED <<port, remote, got>>

\* begin() and beginMulticast(): no memory, no socket (the buffer stays), an
\* option, bind or join refused (stop() again), or done.
Begin ==
    /\ port' = TRUE /\ rx' = <<>> /\ pkt' = NoPacket
    /\ inbox' = IF fd THEN <<>> ELSE inbox
    /\ \E buf, open, multi \in BOOLEAN :
        /\ open => buf
        /\ multi => open
        /\ fd' = open /\ tx' = [buf |-> buf, bytes |-> <<>>]
        /\ group' = (multi \/ GroupAfterStop)
        /\ net' = [open |-> NetAfterStop.open + (IF open THEN 1 ELSE 0), bound |-> open,
                   joined |-> multi, bufs |-> NetAfterStop.bufs + (IF buf THEN 1 ELSE 0)]
    /\ UNCHANGED <<remote, got>>

(***************************************************************************)
(* Sending.                                                                *)
(***************************************************************************)
\* beginPacket(): an address is there; no memory, no socket, or done.
BeginPacketTo(a) ==
    /\ remote' = a
    /\ \E buf, open \in BOOLEAN :
        /\ tx.buf => buf
        /\ fd => open
        /\ open /\ ~fd => buf
        /\ tx' = [buf |-> buf, bytes |-> IF buf THEN <<>> ELSE tx.bytes]
        /\ fd' = open
        /\ net' = [net EXCEPT !.open = @ + (IF open /\ ~fd THEN 1 ELSE 0),
                              !.bufs = @ + (IF buf /\ ~tx.buf THEN 1 ELSE 0)]
        /\ pkt' = IF buf /\ open THEN [NoPacket EXCEPT !.to = a, !.state = "building"]
                  ELSE NoPacket
    /\ UNCHANGED <<group, port, rx, inbox, got>>

BeginPacket == \E a \in Peer \cup ({remote} \ {None}) : BeginPacketTo(a)
BeginMulticastPacket == port /\ group /\ BeginPacketTo(Group)

\* sendto, which binds a socket that is not bound.
Sent(p) == [p EXCEPT !.out = Append(@, [to |-> remote, bytes |-> tx.bytes])]
SendTo(p, q) ==     \* p if it is sent, q if not
    \/ fd /\ pkt' = p /\ net' = [net EXCEPT !.bound = TRUE]
    \/ pkt' = q /\ UNCHANGED net

\* Wrong: write() behind a full buffer sends and keeps the length.
AfterFull_Keeps == SubSeq(tx.bytes, 1, Full - 1)

AfterFull == <<>>

Write ==            \* write(data): a full buffer goes out first, sent or lost
    /\ pkt.state = "building" /\ tx.buf /\ pkt.n < MaxWritten
    /\ LET p == [pkt EXCEPT !.n = @ + 1] IN
       IF Len(tx.bytes) = Full
       THEN /\ SendTo(Sent(p), [p EXCEPT !.odd = @ \cup {"lost"}])
            /\ tx' = [tx EXCEPT !.bytes = Append(AfterFull, p.n)]
       ELSE /\ pkt' = p /\ tx' = [tx EXCEPT !.bytes = Append(@, p.n)]
            /\ UNCHANGED net
    /\ UNCHANGED <<fd, group, port, remote, rx, inbox, got>>

EndPacket ==        \* after an answer of 0 it may be tried again, after a 1 it sends again
    /\ pkt.state # "none" /\ Len(pkt.out) <= MaxWritten
    /\ SendTo([Sent(pkt) EXCEPT !.state = "ended",
                                !.odd = IF pkt.state = "ended" THEN @ \cup {"again"} ELSE @], pkt)
    /\ UNCHANGED <<object, inbox, got>>

(***************************************************************************)
(* Receiving.                                                              *)
(***************************************************************************)
\* Wrong: parsePacket() takes a new datagram while one is still being read.
MayParse_Always == inbox # <<>>

MayParse == rx = <<>> /\ inbox # <<>>

\* Without memory for buf parsePacket() changes nothing.
ParsePacket ==      \* what does not fit is cut off; it redirects a packet being built
    /\ MayParse
    /\ LET d == Head(inbox) IN
       /\ remote' = d.from
       /\ rx' = SubSeq(Bytes(d.from, d.len), 1, LeastOf(Full, d.len))
    /\ inbox' = Tail(inbox) /\ got' = <<>>
    /\ pkt' = IF pkt.state = "none" THEN pkt ELSE [pkt EXCEPT !.odd = @ \cup {"parsed"}]
    /\ UNCHANGED <<fd, group, port, tx, net>>

ParseCrashes ==     \* no memory for rx_buffer: NULL is written to, the device restarts
    /\ MayParse /\ Head(inbox).len > 0
    /\ fd' = FALSE /\ group' = FALSE /\ port' = FALSE /\ remote' = None
    /\ tx' = [buf |-> FALSE, bytes |-> <<>>] /\ rx' = <<>>
    /\ net' = [open |-> 0, bound |-> FALSE, joined |-> FALSE, bufs |-> 0]
    /\ inbox' = <<>> /\ pkt' = NoPacket /\ got' = <<>>

Read ==             \* read() and read(buffer, len); rx_buffer is deleted when empty
    /\ \E k \in 1..Len(rx) :
        got' = got \o SubSeq(rx, 1, k) /\ rx' = SubSeq(rx, k + 1, Len(rx))
    /\ UNCHANGED <<fd, group, port, remote, tx, net, inbox, pkt>>

Flush ==
    /\ rx # <<>> /\ rx' = <<>>
    /\ UNCHANGED <<fd, group, port, remote, tx, net, inbox, pkt, got>>

Arrives ==          \* also one without a byte
    /\ fd /\ net.bound /\ Len(inbox) < MaxInbox
    /\ \E p \in Peer, n \in 0..Full + 1 : inbox' = Append(inbox, [from |-> p, len |-> n])
    /\ UNCHANGED <<object, net, pkt, got>>

UdpNext ==
    \/ Stop \/ Begin \/ BeginPacket \/ BeginMulticastPacket \/ Write \/ EndPacket
    \/ ParsePacket \/ ParseCrashes \/ Read \/ Flush \/ Arrives

UdpSpec == UdpInit /\ [][UdpNext]_udpVars
===============================================================================
