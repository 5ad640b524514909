-------------------------------- MODULE SoftAp --------------------------------
(***************************************************************************)
(* softAPConfig: the address of the access point and the range its DHCP    *)
(* server leases, as set by the SoftAP branch of set_esp_interface_ip.     *)
(* The call stops the server, gives the interface its address, computes a  *)
(* range, checks it and starts the server; it returns at the first call or *)
(* check that fails and undoes nothing.                                    *)
(*                                                                         *)
(* An address is its number in network order, a netmask its four octets,   *)
(* first to last, as calculateSubnetCIDR reads them: they need not be      *)
(* contiguous.  Arithmetic is that of uint32_t.                            *)
(***************************************************************************)
EXTENDS Integers

CONSTANTS
    Space,          \* number of addresses: 2^32
    Ips, Gateways, Starts, Masks    \* what a sketch passes; start 0 is "none"

Addresses == 0..Space - 1
Octet == 0..255
Netmask == Octet \X Octet \X Octet \X Octet

Number(o) == 16777216 * o[1] + 65536 * o[2] + 256 * o[3] + o[4]
Octets(a) == <<a \div 16777216, (a \div 65536) % 256, (a \div 256) % 256, a % 256>>

\* ~netmask, the bits of the hosts.
HostBits(m) == Number([k \in 1..4 |-> 255 - m[k]])

ASSUME SoftApAssumption ==
    /\ Space \in Nat /\ Space >= 256 /\ Space % 256 = 0
    /\ \A a \in Addresses : Octets(a) \in Netmask
    /\ Ips \subseteq Addresses /\ Gateways \subseteq Addresses
    /\ Starts \subseteq Addresses
    /\ Masks \subseteq Netmask /\ \A m \in Masks : HostBits(m) < Space

VARIABLES
    ip, gateway, mask,      \* what the interface of the access point has
    server,                 \* the DHCP server: on or off
    first, last,            \* the range it leases, both ends included
    ranged                  \* a range has been set

apVars == <<ip, gateway, mask, server, first, last, ranged>>

\* The netmasks that the comments and the message at line 148 describe.
Slash24To28 == { <<255, 255, 255, x>> : x \in {0, 128, 192, 224, 240} }

\* Among the types: a range in such a netmask does not wrap.
ApTypeOK ==
    /\ ip \in Addresses /\ gateway \in Addresses /\ mask \in Netmask
    /\ server \in {"on", "off"} /\ ranged \in BOOLEAN
    /\ first \in Addresses /\ last \in Addresses
    /\ server = "on" /\ ranged /\ mask \in Slash24To28 => last = first + 10

ApInit ==             \* enableAP: the driver's own address, range and server
    /\ ip \in Ips /\ gateway = ip /\ mask = <<255, 255, 255, 0>>
    /\ server = "on" /\ first = 0 /\ last = 0 /\ ranged = FALSE

Wrap(a) == a % Space

\* x & y of two octets, bit by bit.
Both(x, y, p) == IF (x \div p) % 2 = 1 /\ (y \div p) % 2 = 1 THEN p ELSE 0
And(x, y) ==
    Both(x, y, 1) + Both(x, y, 2) + Both(x, y, 4) + Both(x, y, 8)
      + Both(x, y, 16) + Both(x, y, 32) + Both(x, y, 64) + Both(x, y, 128)

\* a & netmask and a & ~netmask.
Net(a, m) == Number([k \in 1..4 |-> And(Octets(a)[k], m[k])])
Host(a, m) == a - Net(a, m)

\* calculateSubnetCIDR adds up octets; one that is not a row of ones counts 0.
Ones(o) ==
    CASE o = 255 -> 8 [] o = 254 -> 7 [] o = 252 -> 6 [] o = 248 -> 5
      [] o = 240 -> 4 [] o = 224 -> 3 [] o = 192 -> 2 [] o = 128 -> 1
      [] OTHER -> 0
CIDR(m) == Ones(m[1]) + Ones(m[2]) + Ones(m[3]) + Ones(m[4])

\* The first address of the range: asked for, or the one behind the interface.
Wanted(i, start) == IF start = 0 THEN Wrap(i + 1) ELSE start

LeaseStartMax(m) == Wrap(HostBits(m) - 10)

\* Wrong: the range is where it was asked for.
Fitted_Never(w, m) == w

\* Wrong: the range may begin where its end reaches the broadcast address.
Fitted_TooLate(w, m) ==
    IF Host(w, m) > LeaseStartMax(m) THEN Wrap(Net(w, m) + 1) ELSE w

\* Moved to the beginning of the subnet if its end would leave the subnet.
Fitted(w, m) ==
    IF Host(w, m) >= LeaseStartMax(m) THEN Wrap(Net(w, m) + 1) ELSE w

Within(a, low) == low <= a /\ a <= Wrap(low + 10)

\* Wrong: the range that was asked for is checked, not the one it was moved to.
RangeAccepted_BeforeMove(i, g, m, start) ==
    LET w == Wanted(i, start) IN
    /\ CIDR(m) \in 24..28
    /\ Net(i, m) = Net(w, m)
    /\ ~Within(i, w)
    /\ ~(Net(g, m) = Net(i, m) /\ Within(g, w))

RangeAccepted(i, g, m, start) ==
    LET w == Wanted(i, start)
        low == Fitted(w, m) IN
    /\ CIDR(m) \in 24..28
    /\ Net(i, m) = Net(w, m)
    /\ ~Within(i, low)
    /\ ~(Net(g, m) = Net(i, m) /\ Within(g, low))

SetInterface(i, g, m) == ip' = i /\ gateway' = g /\ mask' = m
SetRange(i, m, start) ==
    LET low == Fitted(Wanted(i, start), m) IN
    /\ first' = low /\ last' = Wrap(low + 10)
    /\ ranged' = TRUE

\* A call of the network interface fails, or a check does: before the server is
\* stopped, before the address is set, before the range is set, or when the
\* server is to be started again.
Refuse(i, g, m, start) ==
    \/ UNCHANGED apVars
    \/ server' = "off" /\ UNCHANGED <<ip, gateway, mask, first, last, ranged>>
    \/ SetInterface(i, g, m) /\ server' = "off" /\ UNCHANGED <<first, last, ranged>>
    \/ /\ RangeAccepted(i, g, m, start)
       /\ SetInterface(i, g, m) /\ server' = "off" /\ SetRange(i, m, start)

Accept(i, g, m, start) ==
    /\ RangeAccepted(i, g, m, start)
    /\ SetInterface(i, g, m) /\ server' = "on" /\ SetRange(i, m, start)

SoftAPConfig(i, g, m, start) == Accept(i, g, m, start) \/ Refuse(i, g, m, start)

ApNext ==
    \E i \in Ips, g \in Gateways, m \in Masks, start \in Starts :
        SoftAPConfig(i, g, m, start)

ApSpec == ApInit /\ [][ApNext]_apVars

(***************************************************************************)
(* Properties.                                                             *)
(***************************************************************************)
\* While the server runs with a range of softAPConfig in a netmask from /24 to
\* /28, every address of the range is in the subnet of the interface and none is
\* its broadcast address, whatever calls were refused in between.  Of the other
\* netmasks that are accepted this is not true.
RangeInSubnet ==
    server = "on" /\ ranged /\ mask \in Slash24To28 =>
        /\ Net(ip, mask) <= first /\ first <= last
        /\ last < Net(ip, mask) + HostBits(mask)

\* With any netmask it never leases the address of the access point, and with
\* one from /24 to /28 never the gateway's.
RangeSparesHosts ==
    server = "on" /\ ranged =>
        /\ ~(first <= ip /\ ip <= last)
        /\ mask \in Slash24To28 => ~(first <= gateway /\ gateway <= last)
===============================================================================
