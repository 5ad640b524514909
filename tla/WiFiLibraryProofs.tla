--------------------------- MODULE WiFiLibraryProofs ---------------------------
(***************************************************************************)
(* Proofs about the parts of the library that keep to themselves: the      *)
(* addresses of the access point, the list of event callbacks and the      *)
(* resolution of names, and the UDP socket.  Each part has its own state   *)
(* and its own specification.                                              *)
(***************************************************************************)
EXTENDS EventTaskProperties, SoftAp, WiFiUdpProperties, FiniteSetTheorems, SequenceTheorems,
        WellFoundedInduction, TLAPS

(***************************************************************************)
(* Addresses: for every address space whose size is a multiple of 256, and *)
(* every address, gateway, netmask and start a sketch passes, a DHCP       *)
(* server that runs with a netmask from /24 to /28 leases addresses of the *)
(* subnet only, and no address in use.  In such a netmask the subnet of an *)
(* address is what a division by the number of its addresses leaves; each  *)
(* number is a numeral, so that % is linear: the lemmas go through the     *)
(* five netmasks one by one.                                               *)
(***************************************************************************)
Size(m) == 256 - m[4]
Base(a, s) == a - (a % s)

\* The netmasks from /24 to /28, one by one.
LEMMA SizeCases ==
    ASSUME NEW m \in Slash24To28
    PROVE  LET s == Size(m) IN s = 16 \/ s = 32 \/ s = 64 \/ s = 128 \/ s = 256
  BY DEF Slash24To28, Size

\* The bits of an octet, one after the other.
LEMMA Bits ==
    ASSUME NEW x \in Octet
    PROVE  /\ Both(x, 255, 1) = (x % 2)
           /\ (x % 4) = (x % 2) + Both(x, 255, 2)
           /\ (x % 8) = (x % 4) + Both(x, 255, 4)
           /\ (x % 16) = (x % 8) + Both(x, 255, 8)
           /\ (x % 32) = (x % 16) + Both(x, 255, 16)
           /\ (x % 64) = (x % 32) + Both(x, 255, 32)
           /\ (x % 128) = (x % 64) + Both(x, 255, 64)
           /\ x = (x % 128) + Both(x, 255, 128)
  <1>1. Both(x, 255, 1) = (x % 2)                     BY DEF Both, Octet
  <1>2. (x % 4) = (x % 2) + Both(x, 255, 2)             BY DEF Both, Octet
  <1>3. (x % 8) = (x % 4) + Both(x, 255, 4)             BY DEF Both, Octet
  <1>4. (x % 16) = (x % 8) + Both(x, 255, 8)            BY DEF Both, Octet
  <1>5. (x % 32) = (x % 16) + Both(x, 255, 16)          BY DEF Both, Octet
  <1>6. (x % 64) = (x % 32) + Both(x, 255, 32)          BY DEF Both, Octet
  <1>7. (x % 128) = (x % 64) + Both(x, 255, 64)         BY DEF Both, Octet
  <1>8. x = (x % 128) + Both(x, 255, 128)             BY DEF Both, Octet
  <1> QED  BY <1>1, <1>2, <1>3, <1>4, <1>5, <1>6, <1>7, <1>8

\* An octet of the netmask that is a row of ones keeps the bits under it.
LEMMA Masked ==
    ASSUME NEW x \in Octet
    PROVE  /\ And(x, 255) = x
           /\ And(x, 240) = x - (x % 16)
           /\ And(x, 224) = x - (x % 32)
           /\ And(x, 192) = x - (x % 64)
           /\ And(x, 128) = x - (x % 128)
           /\ And(x, 0) = 0
  <1> DEFINE b(p) == Both(x, 255, p)
  <1>1. /\ b(1) \in Int /\ b(2) \in Int /\ b(4) \in Int /\ b(8) \in Int
        /\ b(16) \in Int /\ b(32) \in Int /\ b(64) \in Int /\ b(128) \in Int
    BY DEF Both
  <1>2. And(x, 255) = b(1) + b(2) + b(4) + b(8) + b(16) + b(32) + b(64) + b(128)
    BY DEF And
  <1>3. And(x, 240) = b(16) + b(32) + b(64) + b(128)
    BY DEF And, Both
  <1>4. And(x, 224) = b(32) + b(64) + b(128)
    BY DEF And, Both
  <1>5. And(x, 192) = b(64) + b(128)
    BY DEF And, Both
  <1>6. And(x, 128) = b(128)
    BY DEF And, Both
  <1>7. And(x, 0) = 0
    BY DEF And, Both
  <1>8. /\ b(1) = (x % 2) /\ (x % 4) = (x % 2) + b(2) /\ (x % 8) = (x % 4) + b(4)
        /\ (x % 16) = (x % 8) + b(8) /\ (x % 32) = (x % 16) + b(16)
        /\ (x % 64) = (x % 32) + b(32) /\ (x % 128) = (x % 64) + b(64) /\ x = (x % 128) + b(128)
    BY Bits
  <1> DEFINE r(p) == x % p
  <1>9. /\ r(2) \in Int /\ r(4) \in Int /\ r(8) \in Int /\ r(16) \in Int
        /\ r(32) \in Int /\ r(64) \in Int /\ r(128) \in Int /\ x \in Int
    BY DEF Octet
  <1>10. /\ b(1) = r(2) /\ r(4) = r(2) + b(2) /\ r(8) = r(4) + b(4)
         /\ r(16) = r(8) + b(8) /\ r(32) = r(16) + b(16)
         /\ r(64) = r(32) + b(32) /\ r(128) = r(64) + b(64) /\ x = r(128) + b(128)
    BY <1>8
  <1> HIDE DEF b, r
  <1>11. b(1) + b(2) + b(4) + b(8) = r(16) /\ r(16) + b(16) = r(32)
         /\ r(32) + b(32) = r(64) /\ r(64) + b(64) = r(128) /\ r(128) + b(128) = x
    BY <1>1, <1>9, <1>10
  <1>12. And(x, 128) = x - r(128)
    BY <1>1, <1>6, <1>9, <1>11
  <1>13. And(x, 192) = x - r(64)
    BY <1>1, <1>5, <1>9, <1>11
  <1>14. And(x, 224) = x - r(32)
    BY <1>1, <1>4, <1>9, <1>11
  <1>15. And(x, 240) = x - r(16)
    BY <1>1, <1>3, <1>9, <1>11
  <1>16. And(x, 255) = x
    BY <1>1, <1>2, <1>9, <1>11
  <1> QED  BY <1>7, <1>12, <1>13, <1>14, <1>15, <1>16 DEF r

\* The octets of an address make up its number.
LEMMA OctetsOfNumber ==
    ASSUME NEW a \in Nat
    PROVE  a = Number(Octets(a))
  <1> DEFINE q == a \div 256
             r == a \div 65536
             s == a \div 16777216
  <1>1. q \in Nat /\ r \in Nat /\ s \in Nat
    BY SMT
  <1>2. a = 256 * q + (a % 256)
    BY SMT
  <1>3. q = 256 * r + (q % 256)
    BY SMT
  <1>4. r = 256 * s + (r % 256)
    BY SMT
  <1>5. Octets(a) = <<s, r % 256, q % 256, a % 256>>
    BY SMT DEF Octets
  <1> HIDE DEF q, r, s
  <1>6. a % 256 \in Nat /\ q % 256 \in Nat /\ r % 256 \in Nat
    BY <1>1
  <1>7. Number(Octets(a)) = 16777216 * s + 65536 * (r % 256) + 256 * (q % 256) + (a % 256)
    BY <1>5, SMT DEF Number
  <1> QED  BY <1>1, <1>2, <1>3, <1>4, <1>6, <1>7, SMT

\* Four numbers make up a number.
LEMMA NumberIsInt ==
    ASSUME NEW o, o[1] \in Int, o[2] \in Int, o[3] \in Int, o[4] \in Int
    PROVE  Number(o) \in Int
  BY SMT DEF Number

\* Whatever the netmask, its parts are numbers.
LEMMA NetIsInt ==
    ASSUME NEW a \in Addresses, NEW m \in Netmask
    PROVE  Net(a, m) \in Int /\ HostBits(m) \in Int
  <1>1. \A x, y \in Int : And(x, y) \in Int
    BY DEF And, Both
  <1>2. \A o \in Netmask : o[1] \in Int /\ o[2] \in Int /\ o[3] \in Int /\ o[4] \in Int
    BY DEF Netmask, Octet
  <1>3. Octets(a) \in Netmask
    BY SoftApAssumption
  <1> DEFINE n == [k \in 1..4 |-> And(Octets(a)[k], m[k])]
             h == [k \in 1..4 |-> 255 - m[k]]
  <1>4. n[1] \in Int /\ n[2] \in Int /\ n[3] \in Int /\ n[4] \in Int
    <2>1. \A k \in 1..4 : Octets(a)[k] \in Int /\ m[k] \in Int
      BY <1>3 DEF Netmask, Octet
    <2>2. \A k \in 1..4 : n[k] = And(Octets(a)[k], m[k])
      OBVIOUS
    <2> HIDE DEF n
    <2>3. \A k \in 1..4 : n[k] \in Int
      BY <1>1, <2>1, <2>2
    <2> QED  BY <2>3
  <1>5. h[1] \in Int /\ h[2] \in Int /\ h[3] \in Int /\ h[4] \in Int
    BY <1>2
  <1> HIDE DEF n, h
  <1>6. Number(n) \in Int /\ Number(h) \in Int
    BY <1>4, <1>5, NumberIsInt
  <1> QED  BY <1>6 DEF n, h, Net, HostBits

\* In a netmask from /24 to /28 the parts of an address are those of a division.
LEMMA NetIsBase ==
    ASSUME NEW m \in Slash24To28, NEW a \in Addresses
    PROVE  /\ Net(a, m) = Base(a, Size(m))
           /\ Host(a, m) = (a % Size(m))
           /\ HostBits(m) = Size(m) - 1
           /\ LeaseStartMax(m) = Size(m) - 11
  <1> DEFINE o == Octets(a)
             x4 == a % 256
             n == [k \in 1..4 |-> And(o[k], m[k])]
  <1>1. /\ o[1] \in Octet /\ o[2] \in Octet /\ o[3] \in Octet /\ x4 \in Octet
        /\ a \in Nat /\ o[4] = x4
    <2>1. o \in Netmask /\ a \in Nat
      BY SoftApAssumption DEF Addresses
    <2>2. o[4] = x4
      BY SMT DEF Octets
    <2> HIDE DEF o
    <2>3. o[1] \in Octet /\ o[2] \in Octet /\ o[3] \in Octet /\ o[4] \in Octet
      BY <2>1 DEF Netmask
    <2> QED  BY <2>1, <2>2, <2>3
  <1>2. m[1] = 255 /\ m[2] = 255 /\ m[3] = 255 /\ m[4] \in {0, 128, 192, 224, 240}
    BY DEF Slash24To28
  <1>3. Net(a, m) = a - x4 + And(x4, m[4])
    <2>1. And(o[1], 255) = o[1] /\ And(o[2], 255) = o[2] /\ And(o[3], 255) = o[3]
      BY <1>1, Masked
    <2>2. n[1] = o[1] /\ n[2] = o[2] /\ n[3] = o[3] /\ n[4] = And(x4, m[4])
      BY <2>1, <1>1, <1>2
    <2>3. a = Number(o)
      BY <1>1, OctetsOfNumber
    <2>4. And(x4, m[4]) \in Int
      BY <1>1, <1>2 DEF And, Both, Octet
    <2> HIDE DEF o, n, x4
    <2>5. Number(n) = Number(o) - x4 + And(x4, m[4])
      <3>1. o[1] \in Int /\ o[2] \in Int /\ o[3] \in Int /\ x4 \in Int
        BY <1>1 DEF Octet
      <3>2. n[1] = o[1] /\ n[2] = o[2] /\ n[3] = o[3]
        BY <2>2
      <3>3. Number(n) = 16777216 * o[1] + 65536 * o[2] + 256 * o[3] + And(x4, m[4])
        BY <2>2, <3>2, SMT DEF Number
      <3>4. Number(o) = 16777216 * o[1] + 65536 * o[2] + 256 * o[3] + x4
        BY <1>1, SMT DEF Number
      <3> QED  BY <3>1, <3>3, <3>4, <2>4, SMT
    <2> QED  BY <2>3, <2>5 DEF n, o, Net
  <1>4. And(x4, m[4]) = x4 - (x4 % Size(m))
    <2>1. (x4 % 256) = x4  BY <1>1 DEF Octet
    <2>2. /\ And(x4, 240) = x4 - (x4 % 16) /\ And(x4, 224) = x4 - (x4 % 32)
          /\ And(x4, 192) = x4 - (x4 % 64) /\ And(x4, 128) = x4 - (x4 % 128) /\ And(x4, 0) = 0
      BY <1>1, Masked
    <2>3. x4 \in Nat  BY <1>1 DEF Octet
    <2> HIDE DEF o, n, x4
    <2> QED  BY <1>2, <2>1, <2>2, <2>3 DEF Size
  <1>5. (x4 % Size(m)) = (a % Size(m))
    <2> USE <1>1 DEF Octet
    <2>1. CASE Size(m) = 16   BY <2>1
    <2>2. CASE Size(m) = 32   BY <2>2
    <2>3. CASE Size(m) = 64   BY <2>3
    <2>4. CASE Size(m) = 128  BY <2>4
    <2>5. CASE Size(m) = 256  BY <2>5
    <2> QED  BY <2>1, <2>2, <2>3, <2>4, <2>5, SizeCases
  <1>6. Net(a, m) = Base(a, Size(m))
    <2> HIDE DEF o, n, x4
    <2>1. (a % Size(m)) \in Int
      <3> QED  BY <1>1, SizeCases
    <2> QED  BY <1>1, <1>3, <1>4, <1>5, <2>1 DEF Base, Octet
  <1>7. HostBits(m) = Size(m) - 1
    BY <1>2, SMT DEF HostBits, Number, Size
  <1>8. Host(a, m) = (a % Size(m))
    <2>1. (a % Size(m)) \in Int  BY <1>1, SizeCases
    <2> QED  BY <1>1, <1>6, <2>1 DEF Host, Base
  <1>9. LeaseStartMax(m) = Size(m) - 11
    BY <1>7, SizeCases, SoftApAssumption DEF LeaseStartMax, Wrap
  <1> QED  BY <1>6, <1>7, <1>8, <1>9

\* A subnet does not reach beyond the address space.
LEMMA SubnetInSpace ==
    ASSUME NEW m \in Slash24To28, NEW i \in Addresses
    PROVE  LET s == Size(m) IN Base(i, s) + s <= Space /\ Base(i, s) \in Nat
  <1> USE SoftApAssumption
  <1>1. CASE Size(m) = 16   BY <1>1 DEF Base, Addresses
  <1>2. CASE Size(m) = 32   BY <1>2 DEF Base, Addresses
  <1>3. CASE Size(m) = 64   BY <1>3 DEF Base, Addresses
  <1>4. CASE Size(m) = 128  BY <1>4 DEF Base, Addresses
  <1>5. CASE Size(m) = 256  BY <1>5 DEF Base, Addresses
  <1> QED  BY <1>1, <1>2, <1>3, <1>4, <1>5, SizeCases

\* A moved range lies inside the subnet of the address it was computed from and
\* ends below the broadcast address.
LEMMA FittedInSubnet ==
    ASSUME NEW m \in Slash24To28, NEW w \in Addresses
    PROVE  LET low == Fitted(w, m) IN
           /\ low \in Nat
           /\ Net(w, m) <= low
           /\ low + 10 < Net(w, m) + HostBits(m)
           /\ low + 10 \in Addresses
  <1> DEFINE s == Size(m)
  <1>1. /\ Net(w, m) = Base(w, s) /\ Host(w, m) = (w % s)
        /\ HostBits(m) = s - 1 /\ LeaseStartMax(m) = s - 11
    BY NetIsBase
  <1>2. Base(w, s) + s <= Space /\ Base(w, s) \in Nat
    BY SubnetInSpace
  <1>3. s \in Nat /\ s > 15  BY SizeCases
  <1>4. w = Base(w, s) + (w % s) /\ (w % s) \in Nat /\ w \in Nat /\ Space \in Nat
    <2>1. w \in Nat /\ Space \in Nat
      BY SoftApAssumption DEF Addresses
    <2>2. (w % s) \in Nat
      BY <2>1, SizeCases
    <2> QED  BY <2>1, <2>2 DEF Base
  <1> DEFINE b == Base(w, s)
             h == (w % s)
  <1>5. Wrap(b + 1) = b + 1
    <2> HIDE DEF b, s
    <2>1. b + 1 \in 0..Space - 1 /\ Space \in Nat
      BY <1>2, <1>3, <1>4 DEF b
    <2> QED  BY <2>1 DEF Wrap
  <1> HIDE DEF s, b, h
  <1>6. Fitted(w, m) = IF h >= s - 11 THEN b + 1 ELSE w
    BY <1>1, <1>5 DEF Fitted, b, h
  <1> QED  BY <1>1, <1>2, <1>3, <1>4, <1>6 DEF b, h, Addresses

\* An address between the ends of a subnet has the network part of the subnet.
LEMMA SameSubnet ==
    ASSUME NEW m \in Slash24To28, NEW i \in Addresses, NEW a \in Addresses,
           Net(i, m) <= a, a < Net(i, m) + HostBits(m)
    PROVE  Net(a, m) = Net(i, m)
  <1>1. /\ Net(i, m) = Base(i, Size(m)) /\ Net(a, m) = Base(a, Size(m))
        /\ HostBits(m) = Size(m) - 1
    BY NetIsBase
  <1>2. i \in Nat /\ a \in Nat  BY SoftApAssumption DEF Addresses
  <1>3. CASE Size(m) = 16   BY <1>1, <1>2, <1>3 DEF Base
  <1>4. CASE Size(m) = 32   BY <1>1, <1>2, <1>4 DEF Base
  <1>5. CASE Size(m) = 64   BY <1>1, <1>2, <1>5 DEF Base
  <1>6. CASE Size(m) = 128  BY <1>1, <1>2, <1>6 DEF Base
  <1>7. CASE Size(m) = 256  BY <1>1, <1>2, <1>7 DEF Base
  <1> QED  BY <1>3, <1>4, <1>5, <1>6, <1>7, SizeCases

\* What a configuration computes, whatever the netmask, are addresses.
LEMMA RangeIsTyped ==
    ASSUME NEW i \in Addresses, NEW m \in Netmask, NEW start \in Addresses
    PROVE  LET low == Fitted(Wanted(i, start), m) IN
           Wanted(i, start) \in Addresses /\ low \in Addresses /\ Wrap(low + 10) \in Addresses
  <1> DEFINE w == Wanted(i, start)
             low == Fitted(w, m)
  <1>1. \A x \in Int : Wrap(x) \in Addresses
    BY SoftApAssumption DEF Wrap, Addresses
  <1>2. Addresses \subseteq Nat
    BY SoftApAssumption DEF Addresses
  <1>3. w \in Addresses
    BY <1>1, <1>2 DEF Wanted
  <1>4. low \in Addresses
    <2>1. Net(w, m) + 1 \in Int
      BY <1>3, NetIsInt
    <2> HIDE DEF w
    <2> QED  BY <1>1, <1>3, <2>1 DEF Fitted
  <1>5. Wrap(low + 10) \in Addresses
    <2> HIDE DEF low
    <2> QED  BY <1>1, <1>2, <1>4
  <1> QED  BY <1>3, <1>4, <1>5

\* What an accepted configuration leases: the own address is spared with every
\* netmask, the rest is true of those from /24 to /28.
LEMMA AcceptedRange ==
    ASSUME NEW i \in Addresses, NEW g \in Addresses, NEW m \in Netmask,
           NEW start \in Addresses, RangeAccepted(i, g, m, start)
    PROVE  LET low == Fitted(Wanted(i, start), m)
               high == Wrap(low + 10) IN
           /\ ~(low <= i /\ i <= high)
           /\ m \in Slash24To28 =>
                /\ high = low + 10
                /\ Net(i, m) <= low /\ high < Net(i, m) + HostBits(m)
                /\ ~(low <= g /\ g <= high)
  <1> DEFINE w == Wanted(i, start)
             low == Fitted(w, m)
             high == Wrap(low + 10)
  <1>1. w \in Addresses /\ low \in Addresses /\ high \in Addresses
    BY RangeIsTyped
  <1>2. ~(low <= i /\ i <= high)
    BY DEF RangeAccepted, Within
  <1>3. ASSUME m \in Slash24To28
        PROVE  /\ high = low + 10
               /\ Net(i, m) <= low /\ high < Net(i, m) + HostBits(m)
               /\ ~(low <= g /\ g <= high)
    <2>1. Net(i, m) = Net(w, m)
      BY DEF RangeAccepted
    <2>2. /\ low \in Nat /\ Net(i, m) <= low /\ low + 10 < Net(i, m) + HostBits(m)
          /\ low + 10 \in Addresses
      BY <1>1, <1>3, <2>1, FittedInSubnet
    <2>3. high = low + 10
      <3> HIDE DEF low
      <3> QED  BY <2>2, SoftApAssumption DEF Wrap, Addresses
    <2>4. CASE Net(g, m) = Net(i, m)
      BY <2>2, <2>3, <2>4 DEF RangeAccepted, Within
    <2>5. CASE Net(g, m) # Net(i, m)
      <3>1. ~(Net(i, m) <= g /\ g < Net(i, m) + HostBits(m))
        BY <1>3, <2>5, SameSubnet
      <3>2. g \in Nat /\ i \in Nat  BY SoftApAssumption DEF Addresses
      <3>3. Net(i, m) \in Int /\ HostBits(m) \in Int  BY NetIsInt
      <3> HIDE DEF low, high
      <3> QED  BY <3>1, <3>2, <3>3, <2>2, <2>3
    <2> QED  BY <2>2, <2>3, <2>4, <2>5
  <1> QED  BY <1>2, <1>3

ApInv == ApTypeOK /\ RangeInSubnet /\ RangeSparesHosts

\* The invariant holds before the first call.
LEMMA ApInitInv == ApInit => ApInv
  <1> SUFFICES ASSUME ApInit PROVE ApInv
    OBVIOUS
  <1>1. ip \in Addresses /\ 0 \in Addresses
    BY SoftApAssumption DEF ApInit, Addresses
  <1>2. mask \in Netmask
    BY DEF ApInit, Netmask, Octet
  <1>3. ApTypeOK
    BY <1>1, <1>2, Zenon DEF ApInit, ApTypeOK
  <1> QED  BY <1>3, Zenon DEF ApInit, ApInv, RangeInSubnet, RangeSparesHosts

\* An accepted call leaves a range in the subnet of the interface.
LEMMA AcceptInv ==
    ASSUME NEW i \in Ips, NEW g \in Gateways, NEW m \in Masks, NEW start \in Starts,
           ApInv, Accept(i, g, m, start)
    PROVE  ApInv'
  <1> DEFINE low == Fitted(Wanted(i, start), m)
             high == Wrap(low + 10)
  <1>1. /\ ip' = i /\ gateway' = g /\ mask' = m
        /\ server' = "on" /\ ranged' = TRUE
        /\ first' = low /\ last' = high
    BY DEF Accept, SetInterface, SetRange
  <1>2. i \in Addresses /\ g \in Addresses /\ start \in Addresses /\ m \in Netmask
    BY SoftApAssumption
  <1>3. /\ ~(low <= i /\ i <= high)
        /\ m \in Slash24To28 =>
             /\ high = low + 10
             /\ Net(i, m) <= low /\ high < Net(i, m) + HostBits(m)
             /\ ~(low <= g /\ g <= high)
    BY <1>2, AcceptedRange DEF Accept
  <1>4. low \in Addresses /\ high \in Addresses
    BY <1>2, RangeIsTyped
  <1>5. m \in Slash24To28 => low <= high
    <2> HIDE DEF low, high
    <2> QED  BY <1>3, <1>4, SoftApAssumption DEF Addresses
  <1> HIDE DEF low, high
  <1>6. ApTypeOK'          BY <1>1, <1>2, <1>3, <1>4 DEF ApTypeOK
  <1>7. RangeInSubnet'     BY <1>1, <1>3, <1>5 DEF RangeInSubnet
  <1>8. RangeSparesHosts'  BY <1>1, <1>3 DEF RangeSparesHosts
  <1> QED  BY <1>6, <1>7, <1>8 DEF ApInv

\* A refused call leaves everything as it was, or the server off.
LEMMA RefuseInv ==
    ASSUME NEW i \in Ips, NEW g \in Gateways, NEW m \in Masks, NEW start \in Starts,
           ApInv, Refuse(i, g, m, start)
    PROVE  ApInv'
  <1> DEFINE low == Fitted(Wanted(i, start), m)
  <1>0. i \in Addresses /\ g \in Addresses /\ start \in Addresses /\ m \in Netmask
    BY SoftApAssumption
  <1>1. CASE UNCHANGED apVars
    BY <1>1 DEF ApInv, ApTypeOK, RangeInSubnet, RangeSparesHosts, apVars
  <1>2. CASE server' = "off" /\ UNCHANGED <<ip, gateway, mask, first, last, ranged>>
    BY <1>2 DEF ApInv, ApTypeOK, RangeInSubnet, RangeSparesHosts
  <1>3. CASE /\ SetInterface(i, g, m) /\ server' = "off"
             /\ UNCHANGED <<first, last, ranged>>
    BY <1>0, <1>3 DEF ApInv, ApTypeOK, RangeInSubnet, RangeSparesHosts, SetInterface
  <1>4. CASE /\ RangeAccepted(i, g, m, start)
             /\ SetInterface(i, g, m) /\ server' = "off" /\ SetRange(i, m, start)
    <2>1. low \in Addresses /\ Wrap(low + 10) \in Addresses
      BY <1>0, RangeIsTyped
    <2>2. /\ ip' = i /\ gateway' = g /\ mask' = m /\ server' = "off"
          /\ ranged' = TRUE /\ first' = low /\ last' = Wrap(low + 10)
      BY <1>4 DEF SetInterface, SetRange
    <2> HIDE DEF low
    <2> QED  BY <1>0, <2>1, <2>2 DEF ApInv, ApTypeOK, RangeInSubnet, RangeSparesHosts
  <1> QED  BY <1>1, <1>2, <1>3, <1>4 DEF Refuse

\* Every call of softAPConfig keeps the invariant.
LEMMA ApNextInv == ApInv /\ [ApNext]_apVars => ApInv'
  <1> SUFFICES ASSUME ApInv, [ApNext]_apVars PROVE ApInv'
    OBVIOUS
  <1>1. CASE UNCHANGED apVars
    BY <1>1 DEF ApInv, ApTypeOK, RangeInSubnet, RangeSparesHosts, apVars
  <1>2. ASSUME NEW i \in Ips, NEW g \in Gateways, NEW m \in Masks, NEW start \in Starts,
               SoftAPConfig(i, g, m, start)
        PROVE  ApInv'
    BY <1>2, AcceptInv, RefuseInv DEF SoftAPConfig
  <1> QED  BY <1>1, <1>2 DEF ApNext

\* Types and range are right after any calls of softAPConfig, accepted or refused.
THEOREM SoftApInvariant == ApSpec => []ApInv
  BY ApInitInv, ApNextInv, PTL DEF ApSpec

\* The types of the interface and of the range: a range never wraps.
THEOREM SoftApTypeCorrect == ApSpec => []ApTypeOK
  <1>1. ApInv => ApTypeOK  BY DEF ApInv
  <1> QED  BY <1>1, SoftApInvariant, PTL

\* A running DHCP server leases addresses of the interface's subnet only, for
\* every sequence of accepted and refused calls of softAPConfig.
THEOREM LeasesStayInSubnet == ApSpec => []RangeInSubnet
  <1>1. ApInv => RangeInSubnet  BY DEF ApInv
  <1> QED  BY <1>1, SoftApInvariant, PTL

\* It never leases the address of the access point or of the gateway.
THEOREM LeasesSpareHosts == ApSpec => []RangeSparesHosts
  <1>1. ApInv => RangeSparesHosts  BY DEF ApInv
  <1> QED  BY <1>1, SoftApInvariant, PTL

(***************************************************************************)
(* The event task: callbacks and host names, for any functions, events and *)
(* number of entries.                                                      *)
(***************************************************************************)
EntryType == [id : Nat, cb : Cb, ev : Event \cup {Any}]
LoopType == [at : {"idle", "scan", "calling"}, ev : Event \cup {Any}, i : Nat]
CallbackTypes ==
    /\ list \in Seq(EntryType) /\ nextId \in Nat /\ loop \in LoopType
    /\ called \in Seq(Nat) /\ owed \subseteq Nat

\* The first entry the loop will still look at, as EventCallbacks has it.
Ahead == IF loop.at = "calling" THEN loop.i + 1 ELSE loop.i

\* Entries stand in the order of their ids, so those the loop has still to look
\* at are younger than all it has called, however the list moves.
Ordered ==
    /\ \A j, k \in DOMAIN list : j < k => list[j].id < list[k].id
    /\ \A k \in DOMAIN list : list[k].id < nextId
    /\ \A j, k \in DOMAIN called : j < k => called[j] < called[k]
    /\ \A j \in DOMAIN called : called[j] < nextId
    /\ \A j \in DOMAIN called, k \in DOMAIN list : k >= Ahead => called[j] < list[k].id

\* An entry that is owed the event was called or is still ahead.
Owing ==
    \A o \in owed :
        \/ \E j \in DOMAIN called : called[j] = o
        \/ \E k \in DOMAIN list :
              k >= Ahead /\ list[k].id = o /\ list[k].ev \in {loop.ev, Any}

Resting ==
    /\ loop.at = "idle" => called = <<>> /\ owed = {}
    /\ loop.at # "idle" => loop.i >= 1

CallbackInv == CallbackTypes /\ Ordered /\ Owing /\ Resting

Phase == {"out", "wait", "clear", "ask", "asked", "waiting", "woken", "leave"}
NameTypes ==
    /\ at \in [{"sketch", "event"} -> Phase]
    /\ result \in [{"sketch", "event"} -> BOOLEAN]
    /\ request \in [{"sketch", "event"} -> [pending : BOOLEAN, said : BOOLEAN]]
    /\ overlapped \in BOOLEAN

\* What the one task that is past the first wait knows of its request.
Answered(t) ==
    LET r == request[t] IN
    /\ at[t] \in {"out", "wait", "clear", "ask"} => ~r.pending /\ ~r.said
    /\ at[t] \in {"woken", "leave"} => ~r.pending
    /\ at[t] = "ask" => "DONE" \notin bits
    /\ at[t] = "asked" /\ "DONE" \in bits => ~r.pending
    /\ r.pending => ~r.said
    /\ result[t] = r.said

Past(t) == at[t] \notin {"out", "wait"}
Turns ==
    ~overlapped =>
        /\ ~(Past("sketch") /\ Past("event"))
        /\ ~late /\ stale = {}
        /\ Answered("sketch") /\ Answered("event")

NameInv == NameTypes /\ Turns

(***************************************************************************)
(* Host names.                                                             *)
(***************************************************************************)
\* Cardinality as the two modules see it.
LEMMA SameCardinality ==
    ASSUME NEW S
    PROVE  /\ Names!Cardinality(S) = Cardinality(S)
           /\ Callbacks!Cardinality(S) = Cardinality(S)
BY DEF Cardinality, Names!Cardinality, Callbacks!Cardinality

\* Two tasks that are past the first wait are counted as two.
LEMMA TwoInside ==
    ASSUME NEW f \in [{"sketch", "event"} -> Phase],
           f["sketch"] \notin {"out", "wait"}, f["event"] \notin {"out", "wait"}
    PROVE  Cardinality(Names!Inside(f)) > 1
<1>1. Names!Inside(f) = {"sketch", "event"}
  BY DEF Names!Inside, Task
<1>2. Cardinality({"sketch", "event"}) = 2
  <2>1. Cardinality({"sketch"}) = 1 /\ IsFiniteSet({"sketch"})
    BY FS_Singleton
  <2>2. Cardinality({"sketch"} \cup {"event"}) = Cardinality({"sketch"}) + 1
    BY <2>1, FS_AddElement
  <2> QED
    BY <2>1, <2>2
<1> QED
  BY <1>1, <1>2

\* Entering without an overlap leaves one task alone.
LEMMA EnterAlone ==
    ASSUME NEW f \in [{"sketch", "event"} -> Phase], overlapped \in BOOLEAN, Names!Enter(f)
    PROVE  /\ at' = f /\ overlapped' \in BOOLEAN
           /\ ~overlapped' => /\ ~overlapped
                              /\ f["sketch"] \in {"out", "wait"} \/ f["event"] \in {"out", "wait"}
<1>1. at' = f /\ overlapped' = (overlapped \/ Cardinality(Names!Inside(f)) > 1)
  BY SameCardinality DEF Names!Enter
<1> QED
  BY <1>1, TwoInside

\* A step of a resolution answers what lwIP said of its name.
LEMMA NameStep ==
    ASSUME NameInv, Lwip \/ \E t \in Task : Resolve(t) \/ Resolving(t)
    PROVE  NameInv'
<1> USE DEF Task
<1>0. /\ at["sketch"] \in Phase /\ at["event"] \in Phase
      /\ result["sketch"] \in BOOLEAN /\ result["event"] \in BOOLEAN
      /\ request["sketch"] \in [pending : BOOLEAN, said : BOOLEAN]
      /\ request["event"] \in [pending : BOOLEAN, said : BOOLEAN]
      /\ overlapped \in BOOLEAN
  BY DEF NameInv, NameTypes
<1>1. ASSUME NEW t \in {"sketch", "event"}, Names!Call(t)
      PROVE  NameInv'
  <2> DEFINE f == [at EXCEPT ![t] = IF "IDLE" \in bits THEN "clear" ELSE "wait"]
  <2>1. at[t] = "out" /\ Names!Enter(f) /\ UNCHANGED <<bits, result, request, stale, late>>
    BY <1>1 DEF Names!Call
  <2>2. f \in [{"sketch", "event"} -> Phase]
    BY <1>0 DEF NameInv, NameTypes, Phase
  <2>3. /\ at' = f /\ overlapped' \in BOOLEAN
        /\ ~overlapped' => /\ ~overlapped
                           /\ f["sketch"] \in {"out", "wait"} \/ f["event"] \in {"out", "wait"}
    BY <2>1, <2>2, <1>0, EnterAlone
  <2>4. NameTypes'
    BY <2>1, <2>2, <2>3 DEF NameInv, NameTypes
  <2>5. Turns'
    BY <1>0, <2>1, <2>3 DEF NameInv, NameTypes, Turns, Answered, Past
  <2> QED
    BY <2>4, <2>5 DEF NameInv
<1>10. ASSUME NEW t \in {"sketch", "event"}, Names!IdleTimesOut(t)
       PROVE  NameInv'
  <2> DEFINE f == [at EXCEPT ![t] = "clear"]
  <2>1. at[t] = "wait" /\ Names!Enter(f) /\ UNCHANGED <<bits, result, request, stale, late>>
    BY <1>10 DEF Names!IdleTimesOut
  <2>2. f \in [{"sketch", "event"} -> Phase]
    BY <1>0 DEF NameInv, NameTypes, Phase
  <2>3. /\ at' = f /\ overlapped' \in BOOLEAN
        /\ ~overlapped' => /\ ~overlapped
                           /\ f["sketch"] \in {"out", "wait"} \/ f["event"] \in {"out", "wait"}
    BY <2>1, <2>2, <1>0, EnterAlone
  <2>4. NameTypes'
    BY <2>1, <2>2, <2>3 DEF NameInv, NameTypes
  <2>5. Turns'
    BY <1>0, <2>1, <2>3 DEF NameInv, NameTypes, Turns, Answered, Past
  <2> QED
    BY <2>4, <2>5 DEF NameInv
<1>2. ASSUME NEW t \in {"sketch", "event"}, Names!Clear(t)
      PROVE  NameInv'
  BY <1>0, <1>2 DEF NameInv, NameTypes, Turns, Answered, Past, Phase, Names!Clear, Names!Goto
<1>3. ASSUME NEW t \in {"sketch", "event"}, Names!Ask(t)
      PROVE  NameInv'
  <2>1. CASE \E b \in BOOLEAN :
                /\ result' = [result EXCEPT ![t] = b] /\ Names!Goto(t, "leave")
                /\ request' = [request EXCEPT ![t].said = b]
    BY <1>0, <1>3, <2>1 DEF NameInv, NameTypes, Turns, Answered, Past, Phase, Names!Ask, Names!Goto
  <2>2. CASE /\ request' = [request EXCEPT ![t].pending = TRUE]
             /\ Names!Goto(t, "asked") /\ UNCHANGED result
    BY <1>0, <1>3, <2>2 DEF NameInv, NameTypes, Turns, Answered, Past, Phase, Names!Ask, Names!Goto
  <2> QED
    BY <1>3, <2>1, <2>2 DEF Names!Ask
<1>4. ASSUME NEW t \in {"sketch", "event"}, Names!Wait(t)
      PROVE  NameInv'
  BY <1>0, <1>4 DEF NameInv, NameTypes, Turns, Answered, Past, Phase, Names!Wait, Names!Goto
<1>5. ASSUME NEW t \in {"sketch", "event"}, Names!WaitTimesOut(t)
      PROVE  NameInv'
  BY <1>0, <1>5 DEF NameInv, NameTypes, Turns, Answered, Past, Phase, Names!WaitTimesOut, Names!Goto
<1>6. ASSUME NEW t \in {"sketch", "event"}, Names!ClearDone(t)
      PROVE  NameInv'
  BY <1>0, <1>6 DEF NameInv, NameTypes, Turns, Answered, Past, Phase, Names!ClearDone, Names!Goto
<1>7. ASSUME NEW t \in {"sketch", "event"}, Names!Leave(t)
      PROVE  NameInv'
  <2> DEFINE f == Names!SetIdle([at EXCEPT ![t] = "out"])
  <2>1. /\ at[t] = "leave" /\ Names!Enter(f) /\ bits' = bits \cup {"IDLE"}
        /\ stale' = IF request[t].pending THEN stale \cup {t} ELSE stale
        /\ request' = [request EXCEPT ![t] = [pending |-> FALSE, said |-> FALSE]]
        /\ result' = [result EXCEPT ![t] = FALSE] /\ UNCHANGED late
    BY <1>7 DEF Names!Leave, Names!NoRequest
  <2>2. /\ f \in [{"sketch", "event"} -> Phase] /\ f[t] = "out"
        /\ \A u \in {"sketch", "event"} :
             u # t => f[u] = IF at[u] = "wait" THEN "clear" ELSE at[u]
    BY <1>0 DEF NameInv, NameTypes, Phase, Names!SetIdle
  <2> HIDE DEF f
  <2>3. /\ at' = f /\ overlapped' \in BOOLEAN
        /\ ~overlapped' => ~overlapped
    BY <2>1, <2>2, <1>0, EnterAlone
  <2>4. NameTypes'
    BY <1>0, <2>1, <2>2, <2>3 DEF NameInv, NameTypes
  <2>5. Turns'
    BY <1>0, <2>1, <2>2, <2>3 DEF NameInv, NameTypes, Turns, Answered, Past
  <2> QED
    BY <2>4, <2>5 DEF NameInv
<1>8. ASSUME NEW t \in {"sketch", "event"}, Names!Found(t)
      PROVE  NameInv'
  BY <1>0, <1>8 DEF NameInv, NameTypes, Turns, Answered, Past, Phase, Names!Found, Names!SetDone
<1>9. ASSUME NEW t \in {"sketch", "event"}, Names!FoundLate(t)
      PROVE  NameInv'
  BY <1>0, <1>9 DEF NameInv, NameTypes, Turns, Answered, Past, Phase, Names!FoundLate, Names!SetDone
<1> QED
  BY <1>1, <1>2, <1>3, <1>4, <1>5, <1>6, <1>7, <1>8, <1>9, <1>10
     DEF Lwip, Names!Lwip, Resolve, Resolving, Names!Step

(***************************************************************************)
(* Callbacks.                                                              *)
(***************************************************************************)
\* A set of natural numbers that is not empty has a least element.
LEMMA NatHasLeast ==
    ASSUME NEW T \in SUBSET Nat, T # {}
    PROVE  \E x \in T : \A y \in T : x <= y
<1>1. PICK x \in T : \A y \in T : ~ (<<y, x>> \in OpToRel(<, Nat))
  BY NatLessThanWellFounded, WFMin
<1>2. \A y \in T : ~(y < x)
  BY <1>1 DEF OpToRel
<1> QED
  BY <1>2

\* Increasing positions are never ahead of their places.
LEMMA Increasing ==
    ASSUME NEW m \in Nat, NEW n \in Nat, NEW place \in [1..m -> 1..n],
           \A j, k \in 1..m : j < k => place[j] < place[k]
    PROVE  \A k \in 1..m : k <= place[k]
<1> DEFINE T == {k \in 1..m : place[k] < k}
<1> SUFFICES ASSUME T # {}
             PROVE  FALSE
  OBVIOUS
<1>1. PICK k \in T : \A j \in T : k <= j
  <2>1. T \in SUBSET Nat
    OBVIOUS
  <2> HIDE DEF T
  <2> QED
    BY <2>1, NatHasLeast
<1>2. k \in 1..m /\ place[k] < k /\ place[k] \in 1..n
  OBVIOUS
<1>3. k - 1 \in 1..m /\ place[k - 1] \in 1..n
  BY <1>2
<1>4. place[k - 1] < place[k]
  BY <1>2, <1>3
<1>5. k - 1 \in T
  BY <1>2, <1>3, <1>4
<1> QED
  BY <1>1, <1>2, <1>5

\* The places the entries of the new list had in the old one.
Rises(m, place) == \A j, k \in 1..m : j < k => place[j] < place[k]
Reaches(m, place, S) == \A i \in S : \E k \in 1..m : place[k] = i
Moved(m, place) ==
    /\ DOMAIN list' = 1..m /\ Rises(m, place)
    /\ \A k \in 1..m : list'[k] = list[place[k]] /\ k <= place[k]
    /\ \A o \in owed' :
          /\ o \in owed
          /\ \A i \in DOMAIN list : i >= Ahead /\ list[i].id = o =>
                \E k \in 1..m : place[k] = i /\ k >= Ahead

\* An increasing function into a set of as many elements reaches each of them.
LEMMA IncreasingOnto ==
    ASSUME NEW m \in Nat, NEW S, NEW place \in [1..m -> S],
           IsFiniteSet(S), Cardinality(S) = m, S \subseteq Nat, Rises(m, place)
    PROVE  Reaches(m, place, S)
<1> USE DEF Rises, Reaches
<1> DEFINE T == {place[k] : k \in 1..m}
<1>1. \A j, k \in 1..m : place[j] = place[k] => j = k
  <2> SUFFICES ASSUME NEW j \in 1..m, NEW k \in 1..m, place[j] = place[k], j # k
               PROVE  FALSE
    OBVIOUS
  <2>1. j < k \/ k < j
    OBVIOUS
  <2>2. place[j] \in Nat /\ ~(place[j] < place[k]) /\ ~(place[k] < place[j])
    <3>1. place[j] \in Nat
      OBVIOUS
    <3>2. ~(place[j] < place[j])
      BY <3>1
    <3> QED
      BY <3>1, <3>2
  <2> QED
    BY <2>1, <2>2
<1>2. place \in Bijection(1..m, T)
  <2>1. place \in [1..m -> T]
    OBVIOUS
  <2>2. \A t \in T : \E k \in 1..m : place[k] = t
    OBVIOUS
  <2> HIDE DEF T
  <2> QED
    BY <1>1, <2>1, <2>2 DEF Bijection, Injection, Surjection, IsInjective
<1>3. T \in SUBSET S
  OBVIOUS
<1> HIDE DEF T
<1>4. Cardinality(T) = m
  BY <1>2, FS_CountingElements DEF ExistsBijection
<1>5. S = T
  BY <1>3, <1>4, FS_Subset
<1> QED
  BY <1>5 DEF T

\* What stands before everything that is left out stays where it is.
LEMMA FrontStays ==
    ASSUME NEW m \in Nat, NEW n \in Nat, NEW b \in Nat, NEW place \in [1..m -> 1..n],
           \A k \in 1..m : k <= place[k],
           \A j, k \in 1..m : j < k => place[j] < place[k],
           \A i \in 1..n : i < b => \E k \in 1..m : place[k] = i
    PROVE  \A k \in 1..m : k < b => place[k] = k
<1> DEFINE T == {k \in 1..m : k < b /\ place[k] # k}
<1> SUFFICES ASSUME T # {}
             PROVE  FALSE
  OBVIOUS
<1>1. PICK k \in T : \A j \in T : k <= j
  <2>1. T \in SUBSET Nat
    OBVIOUS
  <2> HIDE DEF T
  <2> QED
    BY <2>1, NatHasLeast
<1>2. k \in 1..m /\ k < b /\ place[k] # k /\ k \in 1..n
  <2>1. k \in 1..m /\ k < b /\ place[k] # k /\ k <= place[k] /\ place[k] \in 1..n
    OBVIOUS
  <2> QED
    BY <2>1
<1>3. PICK j \in 1..m : place[j] = k
  BY <1>2
<1>4. j <= k /\ j # k
  BY <1>2, <1>3
<1>5. j \in T
  <2>1. j < b /\ place[j] # j
    BY <1>2, <1>3, <1>4
  <2> QED
    BY <2>1
<1> QED
  BY <1>1, <1>2, <1>4, <1>5

\* What removeEvent does to the list: entries are left out, the others keep
\* their order, none is lost and none moves behind its place; and those before
\* the first that is left out stay.
LEMMA RemoveEffect ==
    ASSUME CallbackTypes, NEW hit, Callbacks!Remove(hit)
    PROVE  /\ UNCHANGED <<nextId, loop, called>> /\ list' \in Seq(EntryType)
           /\ \E m \in Nat : \E place \in [1..m -> 1..Len(list)] : Moved(m, place)
<1> DEFINE n == Len(list)
           kept == {i \in 1..n : ~Callbacks!Gone(hit)[i]}
           erased == 1..n \ kept
           m == Cardinality(kept)
<1>1. n \in Nat /\ list \in Seq(EntryType) /\ DOMAIN list = 1..n /\ \A i \in 1..n : list[i] \in EntryType
  BY DEF CallbackTypes
<1>2. m \in Nat /\ IsFiniteSet(kept)
  <2>1. IsFiniteSet(1..n)
    BY <1>1, FS_Interval
  <2>2. kept \in SUBSET (1..n)
    OBVIOUS
  <2> QED
    BY <2>1, <2>2, FS_Subset, FS_CardinalityType
<1>3. /\ UNCHANGED <<nextId, loop, called>>
      /\ owed' = IF \E i \in erased : i < Ahead THEN {} ELSE owed \ {list[i].id : i \in erased}
      /\ \E place \in [1..Callbacks!Cardinality(kept) -> kept] :
           /\ \A j, k \in DOMAIN place : j < k => place[j] < place[k]
           /\ list' = [k \in DOMAIN place |-> list[place[k]]]
  BY DEF Callbacks!Remove, Callbacks!Ahead, Ahead
<1>4. PICK place :
        /\ place \in [1..m -> kept]
        /\ \A j, k \in DOMAIN place : j < k => place[j] < place[k]
        /\ list' = [k \in DOMAIN place |-> list[place[k]]]
  BY <1>3, SameCardinality
<1>5. place \in [1..m -> 1..n] /\ kept \subseteq 1..n /\ kept \subseteq Nat
  BY <1>4
<1>14. \A j, k \in 1..m : j < k => place[j] < place[k]
  BY <1>4
<1>6. \A i \in kept : \E k \in 1..m : place[k] = i
  <2>1. Cardinality(kept) = m /\ place \in [1..m -> kept] /\ Rises(m, place)
    BY <1>4, <1>14 DEF Rises
  <2> HIDE DEF kept, m
  <2> QED
    <3>1. Reaches(m, place, kept)
      BY <1>2, <1>5, <2>1, IncreasingOnto
    <3> QED
      BY <3>1 DEF Reaches
<1> HIDE DEF m
<1>7. \A k \in 1..m : k <= place[k]
  BY <1>1, <1>2, <1>4, <1>5, Increasing
<1>8. list' \in [1..m -> EntryType] /\ DOMAIN list' = 1..m
  BY <1>1, <1>4, <1>5
<1>9. list' \in Seq(EntryType)
  BY <1>2, <1>8
<1>10. \A k \in 1..m : list'[k] = list[place[k]]
  BY <1>4, <1>5
<1>11. ASSUME NEW o \in owed', NEW i \in 1..n, i >= Ahead, list[i].id = o
       PROVE  o \in owed /\ \E k \in 1..m : place[k] = i /\ k >= Ahead
  <2>1. /\ o \in owed /\ o \notin {list[j].id : j \in erased}
        /\ \A j \in erased : ~(j < Ahead)
    BY <1>3, <1>11
  <2>2. i \in kept /\ \A j \in 1..n : j < Ahead => j \in kept
    BY <1>11, <2>1
  <2>3. Ahead \in Nat
    BY DEF Ahead, CallbackTypes, LoopType
  <2> HIDE DEF kept, erased
  <2>4. PICK k \in 1..m : place[k] = i
    BY <1>6, <2>2
  <2>5. \A j \in 1..m : j < Ahead => place[j] = j
    <3>1. \A j \in 1..n : j < Ahead => \E x \in 1..m : place[x] = j
      BY <1>6, <2>2
    <3> QED
      BY <1>1, <1>2, <1>5, <1>7, <1>14, <2>3, <3>1, FrontStays
  <2>6. k >= Ahead
    BY <1>2, <1>11, <2>3, <2>4, <2>5
  <2> QED
    BY <2>1, <2>4, <2>6
<1>12. \A o \in owed' : o \in owed
  BY <1>3
<1>13. \A o \in owed' :
          /\ o \in owed
          /\ \A i \in DOMAIN list : i >= Ahead /\ list[i].id = o =>
                \E k \in 1..m : place[k] = i /\ k >= Ahead
  BY <1>1, <1>11, <1>12
<1>15. m \in Nat /\ place \in [1..m -> 1..Len(list)]
  BY <1>2, <1>5
<1> HIDE DEF n, kept, erased
<1>16. Moved(m, place)
  BY <1>7, <1>8, <1>10, <1>13, <1>14 DEF Moved, Rises
<1> QED
  BY <1>3, <1>9, <1>15, <1>16, Zenon

\* Removing an entry leaves the order of ids, and owes the event to those that
\* are still ahead.
LEMMA RemoveKeeps ==
    ASSUME CallbackInv, NEW hit, Callbacks!Remove(hit)
    PROVE  CallbackInv'
<1>0. CallbackTypes
  BY DEF CallbackInv
<1>8. PICK m \in Nat : \E place \in [1..m -> 1..Len(list)] : Moved(m, place)
  BY <1>0, RemoveEffect
<1>9. PICK place \in [1..m -> 1..Len(list)] : Moved(m, place)
  BY <1>8
<1>1. /\ UNCHANGED <<nextId, loop, called>> /\ list' \in Seq(EntryType)
      /\ DOMAIN list' = 1..m
      /\ \A j, k \in 1..m : j < k => place[j] < place[k]
      /\ \A k \in 1..m : list'[k] = list[place[k]] /\ k <= place[k]
      /\ \A o \in owed' :
            /\ o \in owed
            /\ \A i \in DOMAIN list : i >= Ahead /\ list[i].id = o =>
                  \E k \in 1..m : place[k] = i /\ k >= Ahead
  BY <1>0, <1>9, RemoveEffect DEF Moved, Rises
<1>2. \A k \in 1..m : place[k] \in DOMAIN list /\ place[k] \in Nat
  BY DEF CallbackInv, CallbackTypes
<1>3. Ahead' = Ahead /\ Ahead \in Nat
  BY <1>1 DEF Ahead, CallbackInv, CallbackTypes, LoopType
<1>4. CallbackTypes'
  BY <1>1 DEF CallbackInv, CallbackTypes
<1>5. Ordered'
  <2>1. \A j, k \in DOMAIN list' : j < k => list'[j].id < list'[k].id
    BY <1>1, <1>2 DEF CallbackInv, Ordered
  <2>2. \A k \in DOMAIN list' : list'[k].id < nextId'
    BY <1>1, <1>2 DEF CallbackInv, Ordered
  <2>3. \A j \in DOMAIN called', k \in DOMAIN list' : k >= Ahead' => called'[j] < list'[k].id
    <3> SUFFICES ASSUME NEW j \in DOMAIN called, NEW k \in 1..m, k >= Ahead
                 PROVE  called[j] < list[place[k]].id
      BY <1>1, <1>3
    <3>1. place[k] >= Ahead
      BY <1>1, <1>2, <1>3
    <3> QED
      BY <1>2, <3>1 DEF CallbackInv, Ordered
  <2> QED
    BY <1>1, <2>1, <2>2, <2>3 DEF CallbackInv, Ordered
<1>6. Owing'
  <2> SUFFICES ASSUME NEW o \in owed'
               PROVE  \/ \E j \in DOMAIN called : called[j] = o
                      \/ \E k \in DOMAIN list' :
                            k >= Ahead /\ list'[k].id = o /\ list'[k].ev \in {loop.ev, Any}
    BY <1>1, <1>3 DEF Owing
  <2>1. CASE \E j \in DOMAIN called : called[j] = o
    BY <2>1
  <2>2. ASSUME NEW i \in DOMAIN list, i >= Ahead, list[i].id = o, list[i].ev \in {loop.ev, Any}
        PROVE  \E k \in DOMAIN list' :
                  k >= Ahead /\ list'[k].id = o /\ list'[k].ev \in {loop.ev, Any}
    <3>1. PICK k \in 1..m : place[k] = i /\ k >= Ahead
      BY <1>1, <2>2
    <3> QED
      BY <1>1, <2>2, <3>1
  <2>3. o \in owed
    BY <1>1
  <2> QED
    BY <2>1, <2>2, <2>3 DEF CallbackInv, Owing
<1>7. Resting'
  BY <1>1 DEF Resting, CallbackInv
<1> QED
  BY <1>4, <1>5, <1>6, <1>7 DEF CallbackInv

\* What stands in the two sequences.
LEMMA Elements ==
    ASSUME CallbackTypes
    PROVE  /\ \A k \in DOMAIN list : /\ k \in Nat /\ k >= 1
                                      /\ list[k] \in EntryType /\ list[k].id \in Nat
           /\ \A j \in DOMAIN called : j \in Nat /\ called[j] \in Nat
<1>1. list \in Seq(EntryType) /\ called \in Seq(Nat)
  BY DEF CallbackTypes
<1>2. DOMAIN list = 1..Len(list) /\ Len(list) \in Nat /\ DOMAIN called = 1..Len(called) /\ Len(called) \in Nat
  BY <1>1, LenProperties
<1>3. \A k \in 1..Len(list) : list[k] \in EntryType
  BY <1>1, ElementOfSeq
<1>4. \A j \in 1..Len(called) : called[j] \in Nat
  BY <1>1, ElementOfSeq
<1>5. \A e \in EntryType : e.id \in Nat
  BY DEF EntryType
<1> QED
  BY <1>2, <1>3, <1>4, <1>5

\* Where the loop may be and what it goes on with.
LEMMA LoopParts ==
    ASSUME CallbackTypes
    PROVE  /\ loop.at \in {"idle", "scan", "calling"} /\ loop.i \in Nat
           /\ [loop EXCEPT !.at = "calling"] \in LoopType
           /\ [loop EXCEPT !.i = loop.i + 1] \in LoopType
           /\ [loop EXCEPT !.at = "scan", !.i = loop.i + 1] \in LoopType
<1>1. loop \in LoopType
  BY DEF CallbackTypes
<1>2. loop.at \in {"idle", "scan", "calling"} /\ loop.i \in Nat /\ loop.ev \in Event \cup {Any}
  BY <1>1 DEF LoopType
<1>3. [loop EXCEPT !.at = "calling"] = [at |-> "calling", ev |-> loop.ev, i |-> loop.i]
  BY <1>1 DEF LoopType
<1>4. [loop EXCEPT !.i = loop.i + 1] = [at |-> loop.at, ev |-> loop.ev, i |-> loop.i + 1]
  BY <1>1 DEF LoopType
<1>5. [loop EXCEPT !.at = "scan", !.i = loop.i + 1] = [at |-> "scan", ev |-> loop.ev, i |-> loop.i + 1]
  <2> DEFINE r == [at |-> "scan", ev |-> loop.ev, i |-> loop.i]
  <2>1. [loop EXCEPT !.at = "scan"] = r
    BY <1>1 DEF LoopType
  <2>2. [r EXCEPT !.i = loop.i + 1] = [at |-> "scan", ev |-> loop.ev, i |-> loop.i + 1]
    OBVIOUS
  <2>3. [loop EXCEPT !.at = "scan", !.i = loop.i + 1] = [[loop EXCEPT !.at = "scan"] EXCEPT !.i = loop.i + 1]
    OBVIOUS
  <2> QED
    BY <2>1, <2>2, <2>3
<1> QED
  BY <1>2, <1>3, <1>4, <1>5 DEF LoopType

\* A new entry is younger than all there are.
LEMMA OnEventKeeps ==
    ASSUME CallbackInv, Callbacks!OnEvent
    PROVE  CallbackInv'
<1>1. PICK c \in Cb, v \in Event \cup {Any} :
        list' = Append(list, [id |-> nextId, cb |-> c, ev |-> v])
  BY DEF Callbacks!OnEvent
<1> DEFINE e == [id |-> nextId, cb |-> c, ev |-> v]
           n == Len(list)
<1>2. list \in Seq(EntryType) /\ nextId \in Nat /\ e \in EntryType /\ n \in Nat
  BY DEF CallbackInv, CallbackTypes, EntryType
<1>3. /\ list' \in Seq(EntryType) /\ DOMAIN list' = 1..n + 1 /\ DOMAIN list = 1..n
      /\ list'[n + 1] = e /\ \A k \in 1..n : list'[k] = list[k]
  BY <1>1, <1>2
<1>4. nextId' = nextId + 1 /\ UNCHANGED <<loop, called, owed>>
  BY DEF Callbacks!OnEvent
<1>5. Ahead' = Ahead /\ Ahead \in Nat
  BY <1>4 DEF Ahead, CallbackInv, CallbackTypes, LoopType
<1>6. /\ e.id = nextId /\ \A k \in 1..n : list[k] \in EntryType /\ list[k].id \in Nat
      /\ \A j \in DOMAIN called : called[j] \in Nat
  BY <1>3, Elements DEF CallbackInv
<1> HIDE DEF e, n
<1>7. CallbackTypes'
  BY <1>2, <1>3, <1>4 DEF CallbackInv, CallbackTypes
<1>8. Ordered'
  <2>1. \A j, k \in 1..n + 1 : j < k => list'[j].id < list'[k].id
    <3> SUFFICES ASSUME NEW j \in 1..n + 1, NEW k \in 1..n + 1, j < k
                 PROVE  list'[j].id < list'[k].id
      OBVIOUS
    <3>1. j \in 1..n
      BY <1>2
    <3>2. CASE k \in 1..n
      BY <1>3, <3>1, <3>2 DEF CallbackInv, Ordered
    <3>3. CASE k = n + 1
      BY <1>3, <1>6, <3>1, <3>3 DEF CallbackInv, Ordered
    <3> QED
      BY <1>2, <3>2, <3>3
  <2>2. \A k \in 1..n + 1 : list'[k].id < nextId'
    <3> SUFFICES ASSUME NEW k \in 1..n + 1
                 PROVE  list'[k].id < nextId'
      OBVIOUS
    <3>1. CASE k \in 1..n
      BY <1>2, <1>3, <1>4, <1>6, <3>1 DEF CallbackInv, Ordered
    <3>2. CASE k = n + 1
      BY <1>2, <1>3, <1>4, <1>6, <3>2
    <3> QED
      BY <1>2, <3>1, <3>2
  <2>3. \A j \in DOMAIN called, k \in 1..n + 1 : k >= Ahead => called[j] < list'[k].id
    <3> SUFFICES ASSUME NEW j \in DOMAIN called, NEW k \in 1..n + 1, k >= Ahead
                 PROVE  called[j] < list'[k].id
      OBVIOUS
    <3>1. CASE k \in 1..n
      BY <1>3, <3>1 DEF CallbackInv, Ordered
    <3>2. CASE k = n + 1
      BY <1>3, <1>6, <3>2 DEF CallbackInv, Ordered
    <3> QED
      BY <1>2, <3>1, <3>2
  <2>4. \A j \in DOMAIN called : called[j] < nextId'
    BY <1>2, <1>4, <1>6 DEF CallbackInv, Ordered
  <2> QED
    BY <1>3, <1>4, <1>5, <2>1, <2>2, <2>3, <2>4 DEF CallbackInv, Ordered
<1>9. Owing'
  <2> SUFFICES ASSUME NEW o \in owed
               PROVE  \/ \E j \in DOMAIN called : called[j] = o
                      \/ \E k \in DOMAIN list' :
                           k >= Ahead /\ list'[k].id = o /\ list'[k].ev \in {loop.ev, Any}
    BY <1>4, <1>5 DEF Owing
  <2>1. CASE \E j \in DOMAIN called : called[j] = o
    BY <2>1
  <2>2. ASSUME NEW k \in DOMAIN list, k >= Ahead, list[k].id = o, list[k].ev \in {loop.ev, Any}
        PROVE  /\ k \in DOMAIN list' /\ k >= Ahead
               /\ list'[k].id = o /\ list'[k].ev \in {loop.ev, Any}
    BY <1>2, <1>3, <2>2
  <2> QED
    BY <2>1, <2>2 DEF CallbackInv, Owing
<1>10. Resting'
  BY <1>4 DEF CallbackInv, Resting
<1> QED
  BY <1>7, <1>8, <1>9, <1>10 DEF CallbackInv

\* An event that comes is owed to the entries there are.
LEMMA DispatchKeeps ==
    ASSUME CallbackInv, NEW v \in Event, Callbacks!Dispatch(v)
    PROVE  CallbackInv'
<1>1. /\ loop.at = "idle" /\ loop' = [at |-> "scan", ev |-> v, i |-> 1]
      /\ owed' = {list[i].id : i \in {j \in DOMAIN list : list[j].ev \in {v, Any}}}
      /\ UNCHANGED <<list, nextId, called>>
  BY DEF Callbacks!Dispatch, Callbacks!NoLoop
<1>2. called = <<>>
  BY <1>1 DEF CallbackInv, Resting
<1>3. \A k \in DOMAIN list : list[k] \in EntryType /\ list[k].id \in Nat /\ k >= 1
  BY Elements DEF CallbackInv
<1>4. loop'.at = "scan" /\ loop'.ev = v /\ loop'.i = 1 /\ loop' \in LoopType
  BY <1>1 DEF LoopType
<1>5. owed' \subseteq Nat
  BY <1>1, <1>3
<1>6. CallbackTypes'
  BY <1>1, <1>4, <1>5 DEF CallbackInv, CallbackTypes
<1>7. Ordered'
  BY <1>1, <1>2 DEF CallbackInv, Ordered
<1>8. Owing'
  <2> SUFFICES ASSUME NEW o \in owed'
               PROVE  \E k \in DOMAIN list :
                         k >= 1 /\ list[k].id = o /\ list[k].ev \in {v, Any}
    BY <1>1, <1>4 DEF Owing, Ahead
  <2> QED
    BY <1>1, <1>3
<1>9. Resting'
  BY <1>4 DEF Resting
<1> QED
  BY <1>6, <1>7, <1>8, <1>9 DEF CallbackInv

\* The loop looks at the next entry: it is younger than all it has called.
LEMMA ScanKeeps ==
    ASSUME CallbackInv, Callbacks!Scan
    PROVE  CallbackInv'
<1> DEFINE i == loop.i
           e == list[i]
           n == Len(called)
<1>1. /\ loop.at = "scan" /\ i <= Len(list) /\ UNCHANGED <<list, nextId, owed>>
      /\ IF e.ev \in {loop.ev, Any}
         THEN loop' = [loop EXCEPT !.at = "calling"] /\ called' = Append(called, e.id)
         ELSE loop' = [loop EXCEPT !.i = i + 1] /\ UNCHANGED called
  BY DEF Callbacks!Scan, Callbacks!After
<1>2. /\ list \in Seq(EntryType) /\ nextId \in Nat /\ loop \in LoopType
      /\ called \in Seq(Nat) /\ owed \subseteq Nat
      /\ i \in Nat /\ i >= 1 /\ i \in DOMAIN list /\ Ahead = i
  BY <1>1 DEF CallbackInv, CallbackTypes, Resting, LoopType, Ahead
<1>3. \A k \in DOMAIN list : list[k] \in EntryType /\ list[k].id \in Nat /\ k \in Nat
  BY Elements DEF CallbackInv
<1>4. Ahead' = i + 1 /\ loop' \in LoopType /\ loop'.ev = loop.ev /\ loop'.at # "idle" /\ loop'.i >= 1
  <2>1. [loop EXCEPT !.at = "calling"] \in LoopType /\ [loop EXCEPT !.i = i + 1] \in LoopType
    BY <1>2, LoopParts DEF CallbackInv
  <2>2. loop \in LoopType /\ DOMAIN loop = {"at", "ev", "i"}
    BY <1>2 DEF LoopType
  <2>3. CASE e.ev \in {loop.ev, Any}
    BY <1>1, <1>2, <2>1, <2>2, <2>3 DEF Ahead
  <2>4. CASE e.ev \notin {loop.ev, Any}
    BY <1>1, <1>2, <2>1, <2>2, <2>4 DEF Ahead
  <2> QED
    BY <2>3, <2>4
<1>5. CASE e.ev \in {loop.ev, Any}
  <2>1. /\ called' \in Seq(Nat) /\ DOMAIN called = 1..n /\ DOMAIN called' = 1..n + 1 /\ n \in Nat
        /\ called'[n + 1] = e.id /\ \A j \in 1..n : called'[j] = called[j]
    <3>1. e.id \in Nat /\ called' = Append(called, e.id)
      BY <1>1, <1>2, <1>3, <1>5
    <3> HIDE DEF e
    <3> QED
      BY <1>2, <3>1, AppendProperties, LenProperties
  <2> HIDE DEF n
  <2>2. CallbackTypes'
    BY <1>1, <1>2, <1>4, <2>1 DEF CallbackTypes
  <2>3. Ordered'
    <3>1. \A j, k \in 1..n + 1 : j < k => called'[j] < called'[k]
      <4> SUFFICES ASSUME NEW j \in 1..n + 1, NEW k \in 1..n + 1, j < k
                   PROVE  called'[j] < called'[k]
        OBVIOUS
      <4>1. j \in 1..n
        BY <2>1
      <4>2. CASE k \in 1..n
        BY <2>1, <4>1, <4>2 DEF CallbackInv, Ordered
      <4>3. CASE k = n + 1
        <5>1. called'[k] = e.id /\ called'[j] = called[j] /\ j \in DOMAIN called
          BY <2>1, <4>1, <4>3
        <5>2. i \in DOMAIN list /\ i >= Ahead /\ e.id = list[i].id
          BY <1>2, <1>3
        <5>3. \A x \in DOMAIN called, y \in DOMAIN list : y >= Ahead => called[x] < list[y].id
          BY DEF CallbackInv, Ordered
        <5> QED
          BY <5>1, <5>2, <5>3
      <4> QED
        BY <2>1, <4>2, <4>3
    <3>2. \A j \in 1..n + 1 : called'[j] < nextId
      <4> SUFFICES ASSUME NEW j \in 1..n + 1
                   PROVE  called'[j] < nextId
        OBVIOUS
      <4>1. CASE j \in 1..n
        BY <2>1, <4>1 DEF CallbackInv, Ordered
      <4>2. CASE j = n + 1
        BY <1>2, <2>1, <4>2 DEF CallbackInv, Ordered
      <4> QED
        BY <2>1, <4>1, <4>2
    <3>3. \A j \in 1..n + 1, k \in DOMAIN list : k >= i + 1 => called'[j] < list[k].id
      <4> SUFFICES ASSUME NEW j \in 1..n + 1, NEW k \in DOMAIN list, k >= i + 1
                   PROVE  called'[j] < list[k].id
        OBVIOUS
      <4>1. k >= Ahead /\ i < k
        BY <1>2, <1>3
      <4>2. CASE j \in 1..n
        BY <2>1, <4>1, <4>2 DEF CallbackInv, Ordered
      <4>3. CASE j = n + 1
        BY <1>2, <2>1, <4>1, <4>3 DEF CallbackInv, Ordered
      <4> QED
        BY <2>1, <4>2, <4>3
    <3> QED
      BY <1>1, <1>4, <2>1, <3>1, <3>2, <3>3 DEF CallbackInv, Ordered
  <2>4. Owing'
    <3> SUFFICES ASSUME NEW o \in owed
                 PROVE  \/ \E j \in DOMAIN called' : called'[j] = o
                        \/ \E k \in DOMAIN list :
                              k >= i + 1 /\ list[k].id = o /\ list[k].ev \in {loop.ev, Any}
      BY <1>1, <1>4 DEF Owing
    <3>1. ASSUME NEW j \in DOMAIN called, called[j] = o
          PROVE  j \in DOMAIN called' /\ called'[j] = o
      BY <2>1, <3>1
    <3>2. ASSUME NEW k \in DOMAIN list, k >= Ahead, list[k].id = o, list[k].ev \in {loop.ev, Any}
          PROVE  k >= i + 1 \/ (n + 1 \in DOMAIN called' /\ called'[n + 1] = o)
      BY <1>2, <1>3, <2>1, <3>2
    <3> QED
      BY <3>1, <3>2 DEF CallbackInv, Owing
  <2> QED
    BY <1>4, <2>2, <2>3, <2>4 DEF CallbackInv, Resting
<1>6. CASE e.ev \notin {loop.ev, Any}
  <2>1. CallbackTypes'
    BY <1>1, <1>2, <1>4, <1>6 DEF CallbackTypes
  <2>2. Ordered'
    <3>1. \A j \in DOMAIN called, k \in DOMAIN list : k >= i + 1 => called[j] < list[k].id
      BY <1>2, <1>3 DEF CallbackInv, Ordered
    <3> QED
      BY <1>1, <1>4, <1>6, <3>1 DEF CallbackInv, Ordered
  <2>3. Owing'
    <3> SUFFICES ASSUME NEW o \in owed
                 PROVE  \/ \E j \in DOMAIN called : called[j] = o
                        \/ \E k \in DOMAIN list :
                              k >= i + 1 /\ list[k].id = o /\ list[k].ev \in {loop.ev, Any}
      BY <1>1, <1>4, <1>6 DEF Owing
    <3>1. ASSUME NEW k \in DOMAIN list, k >= Ahead, list[k].id = o, list[k].ev \in {loop.ev, Any}
          PROVE  k >= i + 1
      BY <1>2, <1>3, <1>6, <3>1
    <3> QED
      BY <3>1 DEF CallbackInv, Owing
  <2> QED
    BY <1>4, <2>1, <2>2, <2>3 DEF CallbackInv, Resting
<1> QED
  BY <1>5, <1>6

\* After a callback the loop goes to the next index, whatever stands there.
LEMMA ReturnKeeps ==
    ASSUME CallbackInv, Callbacks!CallbackReturns
    PROVE  CallbackInv'
<1>1. /\ loop.at = "calling" /\ loop' = [loop EXCEPT !.at = "scan", !.i = loop.i + 1]
      /\ UNCHANGED <<list, nextId, called, owed>>
  BY DEF Callbacks!CallbackReturns, Callbacks!After
<1>2. /\ loop' \in LoopType /\ loop'.at = "scan" /\ loop'.ev = loop.ev /\ loop'.i >= 1
      /\ Ahead' = Ahead
  <2>1. [loop EXCEPT !.at = "scan", !.i = loop.i + 1] \in LoopType /\ loop.i \in Nat
    BY LoopParts DEF CallbackInv
  <2>2. loop \in LoopType /\ DOMAIN loop = {"at", "ev", "i"}
    BY DEF CallbackInv, CallbackTypes, LoopType
  <2> QED
    BY <1>1, <2>1, <2>2 DEF Ahead
<1>3. CallbackTypes' /\ Ordered'
  BY <1>1, <1>2 DEF CallbackInv, CallbackTypes, Ordered
<1>4. Owing' /\ Resting'
  BY <1>1, <1>2 DEF CallbackInv, Owing, Resting
<1> QED
  BY <1>3, <1>4 DEF CallbackInv

\* At the end of the list nothing is called and nothing owed any more.
LEMMA HandledKeeps ==
    ASSUME CallbackInv, Callbacks!Handled
    PROVE  CallbackInv'
<1>1. /\ loop' = [at |-> "idle", ev |-> Any, i |-> 0] /\ called' = <<>> /\ owed' = {}
      /\ UNCHANGED <<list, nextId>>
  BY DEF Callbacks!Handled, Callbacks!NoLoop
<1>2. loop' \in LoopType /\ loop'.at = "idle"
  BY <1>1 DEF LoopType
<1>3. CallbackTypes'
  BY <1>1, <1>2 DEF CallbackInv, CallbackTypes
<1>4. Ordered' /\ Owing' /\ Resting'
  BY <1>1, <1>2 DEF CallbackInv, Ordered, Owing, Resting
<1> QED
  BY <1>3, <1>4 DEF CallbackInv

(***************************************************************************)
(* The composition.                                                        *)
(***************************************************************************)
EventInv == CallbackInv /\ NameInv

\* Every step of the sketch, of the event task and of lwIP keeps the invariant.
LEMMA EventNextInv ==
    ASSUME EventInv, [Next]_vars
    PROVE  EventInv'
<1>1. CASE UNCHANGED vars
  <2>1. UNCHANGED <<list, nextId, loop, called, owed, bits, at, result, request, stale, late, overlapped>>
    BY <1>1 DEF vars, callbackVars, nameVars
  <2>2. CallbackInv'
    BY <2>1 DEF EventInv, CallbackInv, CallbackTypes, Ordered, Owing, Resting, Ahead
  <2>3. NameInv'
    BY <2>1 DEF EventInv, NameInv, NameTypes, Turns, Answered, Past
  <2> QED
    BY <2>2, <2>3 DEF EventInv
<1>2. ASSUME UNCHANGED nameVars
      PROVE  NameInv'
  BY <1>2 DEF EventInv, NameInv, NameTypes, Turns, Answered, Past, nameVars
<1>3. ASSUME UNCHANGED callbackVars
      PROVE  CallbackInv'
  BY <1>3 DEF EventInv, CallbackInv, CallbackTypes, Ordered, Owing, Resting, Ahead, callbackVars
<1>4. CASE Change
  <2>1. CallbackInv'
    BY <1>4, OnEventKeeps, RemoveKeeps
       DEF EventInv, Change, Callbacks!Change, Callbacks!RemoveId,
           Callbacks!RemoveCallback
  <2> QED
    BY <1>2, <1>4, <2>1 DEF EventInv, Change
<1>5. CASE Comes
  BY <1>2, <1>5, DispatchKeeps DEF EventInv, Comes
<1>6. CASE Loop
  BY <1>2, <1>6, ScanKeeps, ReturnKeeps, HandledKeeps DEF EventInv, Loop, Callbacks!Loop
<1>7. CASE Lwip \/ \E t \in Task : Resolve(t) \/ Resolving(t)
  <2>1. NameInv'
    BY <1>7, NameStep DEF EventInv
  <2>2. UNCHANGED callbackVars
    BY <1>7 DEF Lwip, Resolve, Resolving
  <2> QED
    BY <1>3, <2>1, <2>2 DEF EventInv
<1> QED
  BY <1>1, <1>4, <1>5, <1>6, <1>7 DEF Next

\* The invariant holds before the first callback is registered.
LEMMA EventInitInv ==
    ASSUME Init
    PROVE  EventInv
<1>1. /\ list = <<>> /\ nextId = 1 /\ loop = [at |-> "idle", ev |-> Any, i |-> 0]
      /\ called = <<>> /\ owed = {}
  BY DEF Init, Callbacks!Init, Callbacks!NoLoop
<1>2. /\ at = [t \in {"sketch", "event"} |-> "out"]
      /\ result = [t \in {"sketch", "event"} |-> FALSE]
      /\ request = [t \in {"sketch", "event"} |-> [pending |-> FALSE, said |-> FALSE]]
      /\ stale = {} /\ late = FALSE /\ overlapped = FALSE
  BY DEF Init, Names!Init, Names!NoRequest, Task
<1>3. loop \in LoopType /\ loop.at = "idle"
  BY <1>1 DEF LoopType
<1>4. CallbackInv
  BY <1>1, <1>3 DEF CallbackInv, CallbackTypes, Ordered, Owing, Resting
<1>5. NameInv
  BY <1>2 DEF NameInv, NameTypes, Turns, Answered, Past, Phase
<1> QED
  BY <1>4, <1>5 DEF EventInv

\* In every state the list is in the order of its ids and the loop has called
\* only what it has left behind; and a task that resolves a name alone knows
\* what became of its request, for any functions, events and number of entries.
THEOREM EventInvariant == Spec => []EventInv
BY EventInitInv, EventNextInv, PTL DEF Spec

\* No entry is called twice for an event, and none that was there when it came
\* and was not removed is left out, unless one the loop had come to was removed.
THEOREM CalledOnce == Spec => []EachCalledOnce
<1>1. EventInv => EachCalledOnce
  <2> SUFFICES ASSUME EventInv
               PROVE  EachCalledOnce
    OBVIOUS
  <2>1. called \in Seq(Nat) /\ \A j \in DOMAIN called : j \in Nat /\ called[j] \in Nat
    BY DEF EventInv, CallbackInv, CallbackTypes
  <2>2. \A j, k \in DOMAIN called : j # k => called[j] # called[k]
    BY <2>1 DEF EventInv, CallbackInv, Ordered
  <2>3. ASSUME loop.at = "scan", loop.i > Len(list), NEW o \in owed
        PROVE  \E j \in DOMAIN called : called[j] = o
    <3>1. /\ Ahead = loop.i /\ loop.i \in Nat /\ Len(list) \in Nat
          /\ \A k \in DOMAIN list : k \in Nat /\ k <= Len(list)
      BY <2>3 DEF EventInv, CallbackInv, CallbackTypes, LoopType, Ahead
    <3>2. \A k \in DOMAIN list : ~(k >= Ahead)
      BY <2>3, <3>1
    <3> QED
      BY <3>2 DEF EventInv, CallbackInv, Owing
  <2> QED
    BY <2>2, <2>3 DEF EachCalledOnce
<1> QED
  BY <1>1, EventInvariant, PTL

\* While two tasks never were past the first wait together, a resolution
\* answers what lwIP said of its name, and lwIP writes to no result that is gone.
THEOREM AloneIsRight == Spec => []ResolvesAlone
<1>1. EventInv => ResolvesAlone
  BY DEF EventInv, NameInv, NameTypes, Turns, Answered, ResolvesAlone, Task
<1> QED
  BY <1>1, EventInvariant, PTL

(***************************************************************************)
(* UDP: what the object knows of lwIP, what leaves in a packet and what is *)
(* read of a datagram, for any addresses, groups and sizes.                *)
(***************************************************************************)
SentType == [to : Peer \cup {Group, None}, bytes : Seq(Nat)]
PacketType == [to : Peer \cup {Group, None}, n : Nat, out : Seq(SentType),
               state : {"none", "building", "ended"}, odd : SUBSET {"again", "lost", "parsed"}]
PacketTypes ==
    /\ fd \in BOOLEAN /\ group \in BOOLEAN
    /\ remote \in Peer \cup {Group, None}
    /\ tx \in [buf : BOOLEAN, bytes : Seq(Nat)]
    /\ net \in [open : Nat, bound : BOOLEAN, joined : BOOLEAN, bufs : Nat]
    /\ pkt \in PacketType
ReadTypes ==
    /\ inbox \in Seq([from : Peer, len : Nat])
    /\ rx \in Seq([from : Peer, place : Nat]) /\ got \in Seq([from : Peer, place : Nat])

\* What left and what waits in the buffer are together what was written; a
\* packet that no datagram has redirected goes where it was begun for.
Whole ==
    pkt.state # "none" /\ pkt.odd \cap {"lost", "again"} = {} =>
        SentBytes \o (IF pkt.state = "ended" THEN <<>> ELSE tx.bytes) = [i \in 1..pkt.n |-> i]
Addressed ==
    /\ pkt.state = "none" => pkt.out = <<>>
    /\ "parsed" \notin pkt.odd =>
          /\ pkt.state # "none" => remote = pkt.to
          /\ \A i \in DOMAIN pkt.out : pkt.out[i].to = pkt.to

UdpInv == PacketTypes /\ ReadTypes /\ ObjectMatchesLwip /\ (~fd => ~group) /\ Whole /\ Addressed

\* A device that restarts is as the invariant says.
LEMMA CrashRestarts ==
    ASSUME ParseCrashes
    PROVE  UdpInv'
<1>1. [to |-> None, n |-> 0, out |-> <<>>, state |-> "none", odd |-> {}] \in PacketType
  BY DEF PacketType
<1>2. /\ fd' = FALSE /\ group' = FALSE /\ remote' = None
      /\ tx' = [buf |-> FALSE, bytes |-> <<>>] /\ rx' = <<>> /\ inbox' = <<>> /\ got' = <<>>
      /\ net' = [open |-> 0, bound |-> FALSE, joined |-> FALSE, bufs |-> 0]
      /\ pkt' \in PacketType /\ pkt'.state = "none" /\ pkt'.out = <<>>
  BY <1>1 DEF ParseCrashes, NoPacket
<1>3. tx' \in [buf : BOOLEAN, bytes : Seq(Nat)] /\ ~tx'.buf
  BY <1>2
<1>4. /\ net' \in [open : Nat, bound : BOOLEAN, joined : BOOLEAN, bufs : Nat]
      /\ net'.open = 0 /\ net'.bufs = 0 /\ net'.joined = FALSE
  BY <1>2
<1>5. PacketTypes'
  BY <1>2, <1>3, <1>4 DEF PacketTypes
<1>6. ReadTypes'
  BY <1>2 DEF ReadTypes
<1>7. (ObjectMatchesLwip /\ (~fd => ~group))'
  BY <1>2, <1>3, <1>4 DEF ObjectMatchesLwip
<1>8. (Whole /\ Addressed)'
  BY <1>2 DEF Whole, Addressed
<1> QED
  BY <1>5, <1>6, <1>7, <1>8 DEF UdpInv

\* The bytes of datagrams are put together one datagram after the other.
LEMMA BytesUnfold ==
    ASSUME NEW out \in Seq(SentType)
    PROVE  \E c : /\ c[0] = <<>> /\ AllBytes(out) = c[Len(out)]
                  /\ \A k \in 1..Len(out) : c[k] = c[k - 1] \o out[k].bytes
                  /\ \A k \in 0..Len(out) : c[k] \in Seq(Nat)
<1> DEFINE G(f, n) == [k \in 0..n |-> IF k = 0 THEN <<>> ELSE f[k - 1] \o out[k].bytes]
           T == {n \in 0..Len(out) : ~\E f : f = G(f, n)}
           c == CHOOSE f : f = G(f, Len(out))
<1>1. Len(out) \in Nat /\ \A k \in 1..Len(out) : out[k].bytes \in Seq(Nat)
  <2>1. Len(out) \in Nat /\ \A k \in 1..Len(out) : out[k] \in SentType
    OBVIOUS
  <2> QED
    BY <2>1 DEF SentType
<1>2. ASSUME NEW n \in 0..Len(out), n # 0, NEW f, f = G(f, n - 1)
      PROVE  \E g : g = G(g, n)
  <2> DEFINE g == [k \in 0..n |-> IF k = n THEN f[n - 1] \o out[n].bytes ELSE f[k]]
  <2>1. n \in Nat /\ n - 1 \in Nat
    BY <1>1, <1>2
  <2>2. \A k \in 0..n - 1 : f[k] = IF k = 0 THEN <<>> ELSE f[k - 1] \o out[k].bytes
    BY <1>2
  <2>3. \A k \in 0..n - 1 : g[k] = f[k]
    BY <2>1
  <2>4. ASSUME NEW k \in 0..n
        PROVE  g[k] = IF k = 0 THEN <<>> ELSE g[k - 1] \o out[k].bytes
    <3>1. CASE k = 0
      BY <1>2, <2>1, <2>2, <2>3, <3>1
    <3>2. CASE k # 0 /\ k # n
      <4>1. k \in 0..n - 1 /\ k - 1 \in 0..n - 1
        BY <2>1, <3>2
      <4> QED
        BY <2>2, <2>3, <3>2, <4>1
    <3>3. CASE k = n
      <4>1. g[k] = f[n - 1] \o out[n].bytes /\ g[n - 1] = f[n - 1]
        BY <2>1, <2>3, <3>3
      <4> QED
        BY <1>2, <3>3, <4>1
    <3> QED
      BY <3>1, <3>2, <3>3
  <2>5. g = [k \in 0..n |-> g[k]]
    OBVIOUS
  <2> HIDE DEF g
  <2>6. g = G(g, n)
    BY <2>4, <2>5
  <2> QED
    BY <2>6
<1> HIDE DEF G
<1>3. T = {}
  <2> SUFFICES ASSUME T # {}
               PROVE  FALSE
    OBVIOUS
  <2>1. T \in SUBSET Nat
    BY <1>1
  <2>2. PICK n \in T : \A y \in T : n <= y
    <3> HIDE DEF T
    <3> QED
      BY <2>1, NatHasLeast
  <2>3. n # 0
    <3>1. [k \in 0..0 |-> <<>>] = G([k \in 0..0 |-> <<>>], 0)
      BY DEF G
    <3> QED
      BY <2>2, <3>1
  <2>4. n - 1 \in 0..Len(out) /\ n - 1 \notin T
    <3>1. n \in 0..Len(out)
      BY <2>2
    <3> HIDE DEF T
    <3> QED
      BY <1>1, <2>2, <2>3, <3>1
  <2>5. PICK f : f = G(f, n - 1)
    BY <2>4
  <2> QED
    BY <1>2, <2>2, <2>3, <2>5
<1>4. c = G(c, Len(out))
  <2>1. Len(out) \in 0..Len(out)
    BY <1>1
  <2>2. \E f : f = G(f, Len(out))
    BY <1>3, <2>1
  <2> QED
    BY <2>2
<1>5. AllBytes(out) = c[Len(out)]
  BY DEF AllBytes, G
<1> HIDE DEF c
<1>6. c[0] = <<>> /\ \A k \in 1..Len(out) : c[k] = c[k - 1] \o out[k].bytes
  <2>1. \A k \in 0..Len(out) : c[k] = IF k = 0 THEN <<>> ELSE c[k - 1] \o out[k].bytes
    BY <1>4 DEF G
  <2>2. 0 \in 0..Len(out) /\ \A k \in 1..Len(out) : k \in 0..Len(out) /\ k # 0
    BY <1>1
  <2> QED
    BY <2>1, <2>2
<1>7. \A k \in 0..Len(out) : c[k] \in Seq(Nat)
  <2> DEFINE U == {k \in 0..Len(out) : c[k] \notin Seq(Nat)}
  <2> SUFFICES ASSUME U # {}
               PROVE  FALSE
    OBVIOUS
  <2>1. U \in SUBSET Nat
    BY <1>1
  <2>2. PICK k \in U : \A y \in U : k <= y
    <3> HIDE DEF U
    <3> QED
      BY <2>1, NatHasLeast
  <2>3. k # 0
    <3>1. <<>> \in Seq(Nat) /\ c[k] \notin Seq(Nat)
      BY <2>2
    <3> QED
      BY <1>6, <3>1
  <2>4. k \in 1..Len(out) /\ k - 1 \in 0..Len(out) /\ k - 1 \notin U
    BY <1>1, <2>2, <2>3
  <2>5. c[k - 1] \in Seq(Nat) /\ out[k].bytes \in Seq(Nat)
    BY <1>1, <2>4
  <2>6. c[k] \in Seq(Nat)
    <3>1. c[k] = c[k - 1] \o out[k].bytes
      BY <1>6, <2>4
    <3> QED
      BY <2>5, <3>1, ConcatProperties
  <2> QED
    BY <2>2, <2>6
<1> QED
  BY <1>5, <1>6, <1>7

\* The bytes of no datagram are none, and one more datagram adds its own.
LEMMA BytesOfMore ==
    /\ AllBytes(<<>>) = <<>>
    /\ \A out \in Seq(SentType), d \in SentType :
          /\ AllBytes(out) \in Seq(Nat)
          /\ AllBytes(Append(out, d)) = AllBytes(out) \o d.bytes
<1>1. AllBytes(<<>>) = <<>>
  <2>1. <<>> \in Seq(SentType) /\ Len(<<>>) = 0
    OBVIOUS
  <2> QED
    BY <2>1, BytesUnfold
<1>2. ASSUME NEW out \in Seq(SentType), NEW d \in SentType
      PROVE  /\ AllBytes(out) \in Seq(Nat)
             /\ AllBytes(Append(out, d)) = AllBytes(out) \o d.bytes
  <2> DEFINE more == Append(out, d)
             n == Len(out)
  <2>1. /\ more \in Seq(SentType) /\ Len(more) = n + 1 /\ n \in Nat /\ more[n + 1] = d
        /\ \A k \in 1..n : more[k] = out[k]
    BY AppendProperties, LenProperties
  <2>2. PICK c : /\ c[0] = <<>> /\ AllBytes(out) = c[n]
                 /\ \A k \in 1..n : c[k] = c[k - 1] \o out[k].bytes
                 /\ \A k \in 0..n : c[k] \in Seq(Nat)
    BY BytesUnfold
  <2> HIDE DEF more
  <2>3. PICK e : /\ e[0] = <<>> /\ AllBytes(more) = e[Len(more)]
                 /\ \A k \in 1..Len(more) : e[k] = e[k - 1] \o more[k].bytes
    BY <2>1, BytesUnfold
  <2> DEFINE T == {k \in 0..n : c[k] # e[k]}
  <2>4. T = {}
    <3> SUFFICES ASSUME T # {}
                 PROVE  FALSE
      OBVIOUS
    <3>1. T \in SUBSET Nat
      BY <2>1
    <3>2. PICK k \in T : \A y \in T : k <= y
      <4> HIDE DEF T
      <4> QED
        BY <3>1, NatHasLeast
    <3>3. k # 0
      BY <2>2, <2>3, <3>2
    <3>4. k \in 1..n /\ k \in 1..Len(more) /\ k - 1 \in 0..n /\ k - 1 \notin T
      BY <2>1, <3>2, <3>3
    <3>5. c[k - 1] = e[k - 1] /\ more[k] = out[k]
      BY <2>1, <3>4
    <3>6. c[k] = e[k]
      BY <2>2, <2>3, <3>4, <3>5
    <3> QED
      BY <3>2, <3>6
  <2>5. c[n] = e[n]
    BY <2>1, <2>4
  <2>6. e[n + 1] = e[(n + 1) - 1] \o more[n + 1].bytes /\ (n + 1) - 1 = n
    <3>1. n + 1 \in 1..Len(more) /\ (n + 1) - 1 = n
      BY <2>1
    <3> QED
      BY <2>3, <3>1
  <2>7. n \in 0..n
    BY <2>1
  <2> QED
    BY <2>1, <2>2, <2>3, <2>5, <2>6, <2>7 DEF more
<1> QED
  BY <1>1, <1>2

\* No call changes the types, and the object follows lwIP through each of them.
LEMMA UdpObjectStep ==
    ASSUME UdpInv, UdpNext
    PROVE  PacketTypes' /\ ObjectMatchesLwip' /\ (~fd => ~group)'
<1>0. /\ fd \in BOOLEAN /\ group \in BOOLEAN
      /\ remote \in Peer \cup {Group, None}
      /\ tx \in [buf : BOOLEAN, bytes : Seq(Nat)]
      /\ net \in [open : Nat, bound : BOOLEAN, joined : BOOLEAN, bufs : Nat]
      /\ pkt \in PacketType
      /\ net.open = (IF fd THEN 1 ELSE 0) /\ net.bufs = (IF tx.buf THEN 1 ELSE 0)
      /\ group = net.joined /\ (~fd => ~group)
  BY DEF UdpInv, PacketTypes, ObjectMatchesLwip
<1>1. [to |-> None, n |-> 0, out |-> <<>>, state |-> "none", odd |-> {}] \in PacketType
  BY DEF PacketType
<1>2. [buf |-> FALSE, bytes |-> <<>>] \in [buf : BOOLEAN, bytes : Seq(Nat)]
  OBVIOUS
<1>3. CASE Stop
  <2>1. net' = [open |-> 0, bound |-> net.bound /\ ~fd, joined |-> net.joined /\ ~fd, bufs |-> 0]
    BY <1>0, <1>3 DEF Stop, NetAfterStop
  <2>2. net' \in [open : Nat, bound : BOOLEAN, joined : BOOLEAN, bufs : Nat]
    BY <1>0, <2>1
  <2>3. /\ fd' = FALSE /\ group' = (group /\ ~fd) /\ tx' = [buf |-> FALSE, bytes |-> <<>>]
        /\ pkt' \in PacketType /\ UNCHANGED remote
    BY <1>1, <1>3 DEF Stop, GroupAfterStop, NoPacket
  <2>4. PacketTypes'
    BY <1>0, <1>2, <2>2, <2>3 DEF PacketTypes
  <2>5. ObjectMatchesLwip' /\ (~fd => ~group)'
    BY <1>0, <2>1, <2>3 DEF ObjectMatchesLwip
  <2> QED
    BY <2>4, <2>5
<1>4. CASE Begin
  <2>1. PICK buf \in BOOLEAN, open \in BOOLEAN, multi \in BOOLEAN :
          /\ open => buf
          /\ multi => open
          /\ fd' = open /\ tx' = [buf |-> buf, bytes |-> <<>>]
          /\ group' = (multi \/ GroupAfterStop)
          /\ net' = [open |-> NetAfterStop.open + (IF open THEN 1 ELSE 0), bound |-> open,
                     joined |-> multi, bufs |-> NetAfterStop.bufs + (IF buf THEN 1 ELSE 0)]
    BY <1>4 DEF Begin
  <2>2. NetAfterStop.open = 0 /\ NetAfterStop.bufs = 0
    BY <1>0 DEF NetAfterStop
  <2>3. net' = [open |-> IF open THEN 1 ELSE 0, bound |-> open, joined |-> multi,
                bufs |-> IF buf THEN 1 ELSE 0]
    BY <2>1, <2>2
  <2>4. net' \in [open : Nat, bound : BOOLEAN, joined : BOOLEAN, bufs : Nat]
    BY <2>3
  <2>5. pkt' \in PacketType /\ UNCHANGED remote
    BY <1>1, <1>4 DEF Begin, NoPacket
  <2>6. tx' \in [buf : BOOLEAN, bytes : Seq(Nat)] /\ tx'.buf = buf /\ fd' = open
    BY <2>1
  <2>7. group' \in BOOLEAN /\ (group' <=> multi)
    BY <1>0, <2>1 DEF GroupAfterStop
  <2>8. PacketTypes'
    BY <1>0, <2>4, <2>5, <2>6, <2>7 DEF PacketTypes
  <2>9. ObjectMatchesLwip' /\ (~fd => ~group)'
    <3>1. /\ net'.open = (IF fd' THEN 1 ELSE 0) /\ net'.bufs = (IF tx'.buf THEN 1 ELSE 0)
          /\ net'.joined = multi
      BY <2>3, <2>6
    <3>2. group' = multi
      BY <2>7
    <3>3. ~fd' => ~group'
      BY <2>1, <3>2
    <3> QED
      BY <3>1, <3>2, <3>3 DEF ObjectMatchesLwip
  <2> QED
    BY <2>8, <2>9
<1>5. ASSUME NEW a \in Peer \cup {Group, None}, BeginPacketTo(a)
      PROVE  PacketTypes' /\ ObjectMatchesLwip' /\ (~fd => ~group)'
  <2>1. PICK buf \in BOOLEAN, open \in BOOLEAN :
          /\ tx.buf => buf
          /\ fd => open
          /\ open /\ ~fd => buf
          /\ tx' = [buf |-> buf, bytes |-> IF buf THEN <<>> ELSE tx.bytes]
          /\ fd' = open
          /\ net' = [net EXCEPT !.open = @ + (IF open /\ ~fd THEN 1 ELSE 0),
                                !.bufs = @ + (IF buf /\ ~tx.buf THEN 1 ELSE 0)]
          /\ pkt' = IF buf /\ open THEN [NoPacket EXCEPT !.to = a, !.state = "building"]
                    ELSE NoPacket
    BY <1>5 DEF BeginPacketTo
  <2>2. pkt' \in PacketType
    BY <1>1, <2>1 DEF NoPacket, PacketType
  <2>3. tx' \in [buf : BOOLEAN, bytes : Seq(Nat)]
    BY <1>0, <2>1
  <2>4. UNCHANGED group /\ remote' = a /\ fd' = open
    BY <1>5, <2>1 DEF BeginPacketTo
  <2>5. net' = [net EXCEPT !.open = IF open THEN 1 ELSE 0, !.bufs = IF buf THEN 1 ELSE 0]
    <3>1. /\ net.open + (IF open /\ ~fd THEN 1 ELSE 0) = (IF open THEN 1 ELSE 0)
          /\ net.bufs + (IF buf /\ ~tx.buf THEN 1 ELSE 0) = (IF buf THEN 1 ELSE 0)
      BY <1>0, <2>1
    <3>2. net' = [net EXCEPT !.open = net.open + (IF open /\ ~fd THEN 1 ELSE 0),
                             !.bufs = net.bufs + (IF buf /\ ~tx.buf THEN 1 ELSE 0)]
      BY <2>1
    <3> QED
      BY <3>1, <3>2
  <2>6. /\ net' \in [open : Nat, bound : BOOLEAN, joined : BOOLEAN, bufs : Nat]
        /\ net'.open = (IF open THEN 1 ELSE 0) /\ net'.bufs = (IF buf THEN 1 ELSE 0)
        /\ net'.joined = net.joined
    BY <1>0, <2>5
  <2>7. PacketTypes'
    BY <1>0, <1>5, <2>2, <2>3, <2>4, <2>6 DEF PacketTypes
  <2>8. ObjectMatchesLwip' /\ (~fd => ~group)'
    BY <1>0, <2>1, <2>4, <2>6 DEF ObjectMatchesLwip
  <2> QED
    BY <2>7, <2>8
<1>6. CASE BeginPacket
  BY <1>0, <1>5, <1>6 DEF BeginPacket
<1>7. CASE BeginMulticastPacket
  BY <1>5, <1>7 DEF BeginMulticastPacket
<1>8. ASSUME NEW p \in PacketType
      PROVE  Sent(p) \in PacketType
  <2>1. [to |-> remote, bytes |-> tx.bytes] \in SentType
    BY <1>0 DEF SentType
  <2>2. Append(p.out, [to |-> remote, bytes |-> tx.bytes]) \in Seq(SentType)
    BY <1>8, <2>1, AppendProperties DEF PacketType
  <2> QED
    BY <1>8, <2>2 DEF Sent, PacketType
<1>9. ASSUME NEW p \in PacketType, NEW q \in PacketType, SendTo(p, q)
      PROVE  pkt' \in PacketType /\ net' \in [open : Nat, bound : BOOLEAN, joined : BOOLEAN, bufs : Nat]
             /\ net'.open = net.open /\ net'.bufs = net.bufs /\ net'.joined = net.joined
  BY <1>0, <1>9 DEF SendTo
<1>10. CASE Write
  <2> DEFINE p == [pkt EXCEPT !.n = @ + 1]
             q == [p EXCEPT !.odd = @ \cup {"lost"}]
  <2>1. p \in PacketType /\ p.n = pkt.n + 1
    BY <1>0 DEF PacketType
  <2>2. q \in PacketType
    BY <2>1 DEF PacketType
  <2>3. p.n \in Nat
    BY <2>1 DEF PacketType
  <2>4. \/ SendTo(Sent(p), q) /\ tx' = [tx EXCEPT !.bytes = Append(<<>>, p.n)]
        \/ pkt' = p /\ tx' = [tx EXCEPT !.bytes = Append(@, p.n)] /\ UNCHANGED net
    BY <1>10 DEF Write, AfterFull
  <2>5. Sent(p) \in PacketType
    BY <1>8, <2>1
  <2> HIDE DEF p, q
  <2>6. /\ pkt' \in PacketType /\ net' \in [open : Nat, bound : BOOLEAN, joined : BOOLEAN, bufs : Nat]
        /\ net'.open = net.open /\ net'.bufs = net.bufs /\ net'.joined = net.joined
    BY <1>0, <1>9, <2>1, <2>2, <2>4, <2>5
  <2>7. Append(<<>>, p.n) \in Seq(Nat) /\ Append(tx.bytes, p.n) \in Seq(Nat)
    BY <1>0, <2>3, AppendProperties
  <2>8. tx' \in [buf : BOOLEAN, bytes : Seq(Nat)] /\ tx'.buf = tx.buf
    BY <1>0, <2>4, <2>7
  <2> QED
    BY <1>0, <1>10, <2>6, <2>8 DEF Write, PacketTypes, ObjectMatchesLwip
<1>11. CASE EndPacket
  <2> DEFINE odd == IF pkt.state = "ended" THEN Sent(pkt).odd \cup {"again"} ELSE Sent(pkt).odd
             p == [Sent(pkt) EXCEPT !.state = "ended", !.odd = odd]
  <2>1. Sent(pkt) \in PacketType
    BY <1>0, <1>8
  <2>2. p \in PacketType
    BY <2>1 DEF PacketType
  <2>3. SendTo(p, pkt)
    BY <1>11 DEF EndPacket
  <2> HIDE DEF p
  <2>4. /\ pkt' \in PacketType /\ net' \in [open : Nat, bound : BOOLEAN, joined : BOOLEAN, bufs : Nat]
        /\ net'.open = net.open /\ net'.bufs = net.bufs /\ net'.joined = net.joined
    BY <1>0, <1>9, <2>2, <2>3
  <2> QED
    BY <1>0, <1>11, <2>4 DEF EndPacket, object, PacketTypes, ObjectMatchesLwip
<1>12. CASE ParsePacket
  <2>1. Head(inbox).from \in Peer
    <3> DEFINE D == [from : Peer, len : Nat]
    <3>1. inbox \in Seq(D) /\ inbox # <<>>
      BY <1>12 DEF UdpInv, ReadTypes, ParsePacket, MayParse
    <3> HIDE DEF D
    <3>2. Head(inbox) \in D
      BY <3>1, HeadTailProperties
    <3> QED
      BY <3>2 DEF D
  <2>2. [pkt EXCEPT !.odd = @ \cup {"parsed"}] \in PacketType
    BY <1>0 DEF PacketType
  <2>3. pkt' \in PacketType /\ remote' = Head(inbox).from /\ UNCHANGED <<fd, group, tx, net>>
    BY <1>0, <1>12, <2>2 DEF ParsePacket
  <2> QED
    BY <1>0, <2>1, <2>3 DEF PacketTypes, ObjectMatchesLwip
<1>13. CASE Read \/ Flush \/ Arrives
  BY <1>0, <1>13 DEF Read, Flush, Arrives, object, PacketTypes, ObjectMatchesLwip
<1>14. CASE ParseCrashes
  BY <1>14, CrashRestarts DEF UdpInv
<1> QED
  BY <1>3, <1>4, <1>6, <1>7, <1>10, <1>11, <1>12, <1>13, <1>14 DEF UdpNext

\* What is received and read stays a sequence of bytes of known senders.
LEMMA ReadTypesStep ==
    ASSUME UdpInv, UdpNext
    PROVE  ReadTypes'
<1> DEFINE B == [from : Peer, place : Nat]
           D == [from : Peer, len : Nat]
<1>1. inbox \in Seq(D) /\ rx \in Seq(B) /\ got \in Seq(B)
  BY DEF UdpInv, ReadTypes
<1>2. <<>> \in Seq(B) /\ <<>> \in Seq(D)
  OBVIOUS
<1>3. CASE Stop \/ Begin
  BY <1>1, <1>2, <1>3 DEF Stop, Begin, ReadTypes
<1>4. CASE BeginPacket \/ BeginMulticastPacket
  BY <1>1, <1>4 DEF BeginPacket, BeginMulticastPacket, BeginPacketTo, ReadTypes
<1>5. CASE Write \/ EndPacket
  BY <1>1, <1>5 DEF Write, EndPacket, object, ReadTypes
<1>6. CASE ParsePacket
  <2> DEFINE d == Head(inbox)
  <2>1. d \in D /\ Tail(inbox) \in Seq(D)
    BY <1>1, <1>6, HeadTailProperties DEF ParsePacket, MayParse
  <2>2. d.from \in Peer /\ d.len \in Nat /\ Full \in Nat
    BY <2>1, UdpAssumption
  <2>3. rx' = SubSeq(Bytes(d.from, d.len), 1, LeastOf(Full, d.len))
    BY <1>6 DEF ParsePacket
  <2> HIDE DEF d
  <2>4. \A i \in 1..d.len : Bytes(d.from, d.len)[i] \in B
    BY <2>2 DEF Bytes
  <2>5. LeastOf(Full, d.len) \in 0..d.len
    BY <2>2 DEF LeastOf
  <2> DEFINE bytes == Bytes(d.from, d.len)
             n == LeastOf(Full, d.len)
  <2>7. n \in Int /\ \A i \in 1..n : bytes[i] \in B
    BY <2>2, <2>4, <2>5
  <2> HIDE DEF bytes, n
  <2>8. SubSeq(bytes, 1, n) \in Seq(B)
    BY <2>7, SubSeqProperties
  <2>6. rx' \in Seq(B)
    BY <2>3, <2>8 DEF bytes, n
  <2> QED
    BY <1>1, <1>2, <1>6, <2>1, <2>6 DEF ParsePacket, ReadTypes, d
<1>7. CASE Read
  <2>1. PICK k \in 1..Len(rx) : got' = got \o SubSeq(rx, 1, k) /\ rx' = SubSeq(rx, k + 1, Len(rx))
    BY <1>7 DEF Read
  <2>2. SubSeq(rx, 1, k) \in Seq(B) /\ SubSeq(rx, k + 1, Len(rx)) \in Seq(B)
    <3>1. Len(rx) \in Nat /\ \A i \in 1..Len(rx) : rx[i] \in B
      BY <1>1, LenProperties, ElementOfSeq
    <3>2. k \in Int /\ k + 1 \in Int /\ Len(rx) \in Int /\ 1 \in Int
          /\ (\A i \in 1..k : rx[i] \in B) /\ (\A i \in k + 1..Len(rx) : rx[i] \in B)
      BY <3>1
    <3> HIDE DEF B
    <3> QED
      BY <3>2, SubSeqProperties
  <2> QED
    BY <1>1, <1>7, <2>1, <2>2, ConcatProperties DEF Read, ReadTypes
<1>8. CASE Flush
  BY <1>1, <1>2, <1>8 DEF Flush, ReadTypes
<1>9. CASE Arrives
  <2>1. PICK p \in Peer, n \in 0..Full + 1 : inbox' = Append(inbox, [from |-> p, len |-> n])
    BY <1>9 DEF Arrives
  <2>2. [from |-> p, len |-> n] \in D
    BY UdpAssumption
  <2>3. inbox' \in Seq(D)
    BY <1>1, <2>1, <2>2, AppendProperties
  <2> QED
    BY <1>1, <1>9, <2>3 DEF Arrives, object, ReadTypes
<1>10. CASE ParseCrashes
  BY <1>10, CrashRestarts DEF UdpInv
<1> QED
  BY <1>3, <1>4, <1>5, <1>6, <1>7, <1>8, <1>9, <1>10 DEF UdpNext

\* A byte behind what was put together is a byte behind its last part.
LEMMA AppendBehind ==
    ASSUME NEW s \in Seq(Nat), NEW t \in Seq(Nat), NEW x \in Nat
    PROVE  s \o Append(t, x) = Append(s \o t, x)
  BY AppendIsConcat, ConcatAssociative, ConcatProperties

\* Whatever leaves, and whatever fails, what left and what waits are what was written.
LEMMA WholeStep ==
    ASSUME UdpInv, UdpNext
    PROVE  Whole'
<1> DEFINE upTo(n) == [i \in 1..n |-> i]
<1>0. /\ tx.bytes \in Seq(Nat) /\ pkt.out \in Seq(SentType) /\ pkt.n \in Nat
      /\ pkt \in PacketType /\ remote \in Peer \cup {Group, None}
      /\ [to |-> remote, bytes |-> tx.bytes] \in SentType
  BY DEF UdpInv, PacketTypes, PacketType, SentType
<1>1. CASE Stop \/ Begin
  BY <1>1 DEF Stop, Begin, NoPacket, Whole
<1>2. ASSUME NEW a, BeginPacketTo(a)
      PROVE  Whole'
  <2>1. \/ pkt' = NoPacket
        \/ pkt' = [NoPacket EXCEPT !.to = a, !.state = "building"] /\ tx'.bytes = <<>>
    BY <1>2 DEF BeginPacketTo
  <2>2. CASE pkt' = NoPacket
    BY <2>2 DEF NoPacket, Whole
  <2>3. CASE pkt' = [NoPacket EXCEPT !.to = a, !.state = "building"] /\ tx'.bytes = <<>>
    <3>1. pkt'.out = <<>> /\ pkt'.n = 0 /\ pkt'.state = "building"
      BY <2>3 DEF NoPacket
    <3>2. AllBytes(pkt'.out) \o tx'.bytes = <<>>
      BY <2>3, <3>1, BytesOfMore
    <3>3. <<>> = [i \in 1..0 |-> i]
      OBVIOUS
    <3> QED
      BY <3>1, <3>2, <3>3 DEF Whole, SentBytes
  <2> QED
    BY <2>1, <2>2, <2>3
<1>3. CASE BeginPacket \/ BeginMulticastPacket
  BY <1>2, <1>3 DEF BeginPacket, BeginMulticastPacket
<1>4. ASSUME pkt.state = "building", pkt.odd \cap {"lost", "again"} = {}
      PROVE  AllBytes(pkt.out) \o tx.bytes = upTo(pkt.n)
  BY <1>4 DEF UdpInv, Whole, SentBytes
<1>5. /\ AllBytes(pkt.out) \in Seq(Nat)
      /\ AllBytes(Append(pkt.out, [to |-> remote, bytes |-> tx.bytes])) = AllBytes(pkt.out) \o tx.bytes
  BY <1>0, BytesOfMore
<1>6. ASSUME NEW n \in Nat
      PROVE  upTo(n) \in Seq(Nat) /\ upTo(n + 1) = Append(upTo(n), n + 1)
  <2>1. upTo(n) \in Seq(Nat) /\ Len(upTo(n)) = n
    OBVIOUS
  <2>2. Append(upTo(n), n + 1) = [i \in 1..n + 1 |-> IF i = n + 1 THEN n + 1 ELSE upTo(n)[i]]
    BY <2>1
  <2>3. \A i \in 1..n + 1 : (IF i = n + 1 THEN n + 1 ELSE upTo(n)[i]) = i
    OBVIOUS
  <2> HIDE DEF upTo
  <2>4. upTo(n + 1) = [i \in 1..n + 1 |-> i]
    BY DEF upTo
  <2> QED
    BY <2>1, <2>2, <2>3, <2>4
<1>7. CASE Write
  <2> DEFINE m == pkt.n + 1
             p == [pkt EXCEPT !.n = @ + 1]
             q == [p EXCEPT !.odd = @ \cup {"lost"}]
  <2>1. /\ p.n = m /\ p.out = pkt.out /\ p.odd = pkt.odd /\ p.state = pkt.state
        /\ "lost" \in q.odd /\ Sent(p).n = m /\ Sent(p).odd = pkt.odd /\ Sent(p).state = pkt.state
        /\ Sent(p).out = Append(pkt.out, [to |-> remote, bytes |-> tx.bytes])
    BY <1>0 DEF PacketType, Sent
  <2>2. /\ pkt.state = "building"
        /\ \/ (pkt' = Sent(p) \/ pkt' = q) /\ tx'.bytes = Append(<<>>, p.n)
           \/ pkt' = p /\ tx'.bytes = Append(tx.bytes, p.n)
    BY <1>0, <1>7 DEF Write, AfterFull, SendTo, UdpInv, PacketTypes
  <2>3. m \in Nat /\ upTo(m) = Append(upTo(pkt.n), m) /\ upTo(pkt.n) \in Seq(Nat)
    BY <1>0, <1>6
  <2> HIDE DEF p, q, m, upTo
  <2>4. CASE pkt' = q
    BY <2>1, <2>4 DEF Whole
  <2>5. CASE pkt' = Sent(p) /\ tx'.bytes = Append(<<>>, p.n)
    <3> SUFFICES ASSUME pkt.odd \cap {"lost", "again"} = {}
                 PROVE  AllBytes(pkt'.out) \o tx'.bytes = upTo(m)
      BY <2>1, <2>2, <2>5 DEF Whole, SentBytes, upTo
    <3>1. AllBytes(pkt'.out) = upTo(pkt.n)
      BY <1>4, <1>5, <2>1, <2>2, <2>5
    <3>2. upTo(pkt.n) \o Append(<<>>, m) = Append(upTo(pkt.n), m)
      BY <2>3, AppendIsConcat, ConcatEmptySeq
    <3> QED
      BY <2>1, <2>3, <2>5, <3>1, <3>2
  <2>6. CASE pkt' = p /\ tx'.bytes = Append(tx.bytes, p.n)
    <3> SUFFICES ASSUME pkt.odd \cap {"lost", "again"} = {}
                 PROVE  AllBytes(pkt'.out) \o tx'.bytes = upTo(m)
      BY <2>1, <2>2, <2>6 DEF Whole, SentBytes, upTo
    <3>1. AllBytes(pkt.out) \o tx.bytes = upTo(pkt.n)
      BY <1>4, <2>2
    <3>2. AllBytes(pkt.out) \o Append(tx.bytes, m) = Append(AllBytes(pkt.out) \o tx.bytes, m)
      BY <1>0, <1>5, <2>3, AppendBehind
    <3> QED
      BY <2>1, <2>3, <2>6, <3>1, <3>2
  <2> QED
    BY <2>2, <2>4, <2>5, <2>6
<1>8. CASE EndPacket
  <2> DEFINE p == [Sent(pkt) EXCEPT !.state = "ended",
                       !.odd = IF pkt.state = "ended" THEN @ \cup {"again"} ELSE @]
  <2>1. /\ p.state = "ended" /\ p.n = pkt.n
        /\ p.odd = (IF pkt.state = "ended" THEN pkt.odd \cup {"again"} ELSE pkt.odd)
        /\ p.out = Append(pkt.out, [to |-> remote, bytes |-> tx.bytes])
    BY <1>0 DEF PacketType, Sent
  <2>2. pkt.state \in {"building", "ended"} /\ UNCHANGED tx /\ (pkt' = p \/ pkt' = pkt)
    BY <1>0, <1>8 DEF EndPacket, SendTo, object, PacketType
  <2> HIDE DEF p
  <2>3. CASE pkt' = pkt
    BY <2>2, <2>3 DEF UdpInv, Whole, SentBytes
  <2>4. CASE pkt' = p
    <3> SUFFICES ASSUME p.odd \cap {"lost", "again"} = {}
                 PROVE  AllBytes(p.out) \o <<>> = upTo(pkt.n)
      BY <2>1, <2>4 DEF Whole, SentBytes
    <3>1. pkt.state = "building" /\ pkt.odd \cap {"lost", "again"} = {}
      BY <2>1, <2>2
    <3>2. AllBytes(p.out) = upTo(pkt.n)
      BY <1>4, <1>5, <2>1, <3>1
    <3>3. upTo(pkt.n) \in Seq(Nat)
      BY <1>0, <1>6
    <3> HIDE DEF upTo
    <3> QED
      BY <3>2, <3>3, ConcatEmptySeq
  <2> QED
    BY <2>2, <2>3, <2>4
<1>9. CASE ParsePacket
  <2>1. /\ UNCHANGED tx
        /\ pkt'.state = pkt.state /\ pkt'.out = pkt.out /\ pkt'.n = pkt.n /\ pkt.odd \subseteq pkt'.odd
    BY <1>0, <1>9 DEF ParsePacket, PacketType
  <2> QED
    BY <2>1 DEF UdpInv, Whole, SentBytes
<1>10. CASE Read \/ Flush \/ Arrives
  BY <1>10 DEF Read, Flush, Arrives, object, UdpInv, Whole, SentBytes
<1>11. CASE ParseCrashes
  BY <1>11, CrashRestarts DEF UdpInv
<1> QED
  BY <1>1, <1>3, <1>7, <1>8, <1>9, <1>10, <1>11 DEF UdpNext

\* A packet goes where it was begun for, until a datagram is parsed.
LEMMA AddressedStep ==
    ASSUME UdpInv, UdpNext
    PROVE  Addressed'
<1> DEFINE d == [to |-> remote, bytes |-> tx.bytes]
           To(out, a) == \A i \in DOMAIN out : out[i].to = a
<1>0. /\ pkt \in PacketType /\ d \in SentType /\ pkt.out \in Seq(SentType)
      /\ pkt.state = "none" => pkt.out = <<>>
      /\ "parsed" \notin pkt.odd => (pkt.state # "none" => remote = pkt.to) /\ To(pkt.out, pkt.to)
  BY DEF UdpInv, PacketTypes, PacketType, SentType, Addressed
<1>1. CASE Stop \/ Begin
  BY <1>1 DEF Stop, Begin, NoPacket, Addressed
<1>2. CASE BeginPacket \/ BeginMulticastPacket
  <2>1. PICK a : BeginPacketTo(a)
    BY <1>2 DEF BeginPacket, BeginMulticastPacket
  <2>2. /\ remote' = a
        /\ (pkt' = NoPacket \/ pkt' = [NoPacket EXCEPT !.to = a, !.state = "building"])
    BY <2>1 DEF BeginPacketTo
  <2>3. pkt'.out = <<>> /\ (pkt'.state # "none" => pkt'.to = a)
    <3>1. CASE pkt' = NoPacket
      BY <3>1 DEF NoPacket
    <3>2. CASE pkt' = [NoPacket EXCEPT !.to = a, !.state = "building"]
      BY <3>2 DEF NoPacket
    <3> QED
      BY <2>2, <3>1, <3>2
  <2> QED
    BY <2>2, <2>3 DEF Addressed
<1>3. ASSUME pkt.state # "none", "parsed" \notin pkt.odd
      PROVE  To(Append(pkt.out, d), pkt.to)
  <2> DEFINE out == Append(pkt.out, d)
             n == Len(pkt.out)
  <2>1. /\ n \in Nat /\ DOMAIN out = 1..n + 1 /\ out[n + 1] = d /\ DOMAIN pkt.out = 1..n
        /\ \A i \in 1..n : out[i] = pkt.out[i]
    <3> HIDE DEF d
    <3> QED
      BY <1>0, AppendProperties, LenProperties
  <2>2. d.to = pkt.to
    BY <1>0, <1>3
  <2> HIDE DEF out, d, n
  <2>3. \A i \in 1..n + 1 : i \in 1..n \/ i = n + 1
    BY <2>1
  <2> QED
    BY <1>0, <1>3, <2>1, <2>2, <2>3 DEF out, d
<1>4. CASE Write
  <2> DEFINE p == [pkt EXCEPT !.n = @ + 1]
             q == [p EXCEPT !.odd = @ \cup {"lost"}]
  <2>1. /\ p.out = pkt.out /\ p.odd = pkt.odd /\ p.state = pkt.state /\ p.to = pkt.to
        /\ q.out = pkt.out /\ pkt.odd \subseteq q.odd /\ q.state = pkt.state /\ q.to = pkt.to
        /\ Sent(p).odd = pkt.odd /\ Sent(p).state = pkt.state /\ Sent(p).to = pkt.to
        /\ Sent(p).out = Append(pkt.out, d)
    BY <1>0 DEF PacketType, Sent
  <2>2. pkt.state = "building" /\ UNCHANGED remote /\ (pkt' = Sent(p) \/ pkt' = q \/ pkt' = p)
    BY <1>4 DEF Write, SendTo
  <2> HIDE DEF p, q, d
  <2> QED
    BY <1>0, <1>3, <2>1, <2>2 DEF Addressed
<1>5. CASE EndPacket
  <2> DEFINE p == [Sent(pkt) EXCEPT !.state = "ended",
                       !.odd = IF pkt.state = "ended" THEN @ \cup {"again"} ELSE @]
  <2>1. /\ p.state = "ended" /\ p.to = pkt.to /\ pkt.odd \subseteq p.odd
        /\ p.out = Append(pkt.out, d)
    BY <1>0 DEF PacketType, Sent
  <2>2. pkt.state # "none" /\ UNCHANGED remote /\ (pkt' = p \/ pkt' = pkt)
    BY <1>5 DEF EndPacket, SendTo, object
  <2> HIDE DEF p, d
  <2> QED
    BY <1>0, <1>3, <2>1, <2>2 DEF Addressed
<1>6. CASE ParsePacket
  <2>1. CASE pkt.state = "none"
    BY <1>0, <1>6, <2>1 DEF ParsePacket, Addressed
  <2>2. CASE pkt.state # "none"
    <3>1. pkt'.state = pkt.state /\ "parsed" \in pkt'.odd
      BY <1>0, <1>6, <2>2 DEF ParsePacket, PacketType
    <3> QED
      BY <2>2, <3>1 DEF Addressed
  <2> QED
    BY <2>1, <2>2
<1>7. CASE Read \/ Flush \/ Arrives
  BY <1>0, <1>7 DEF Read, Flush, Arrives, object, Addressed
<1>8. CASE ParseCrashes
  BY <1>8, CrashRestarts DEF UdpInv
<1> QED
  BY <1>1, <1>2, <1>4, <1>5, <1>6, <1>7, <1>8 DEF UdpNext

\* In every state the object knows what it opened, and a packet is whole and
\* goes where it was begun for, but for what is recorded to have gone wrong.
THEOREM UdpInvariant == UdpSpec => []UdpInv
<1>1. ASSUME UdpInit
      PROVE  UdpInv
  <2>1. [to |-> None, n |-> 0, out |-> <<>>, state |-> "none", odd |-> {}] \in PacketType
    BY DEF PacketType
  <2>4. /\ fd = FALSE /\ group = FALSE /\ remote = None
        /\ tx = [buf |-> FALSE, bytes |-> <<>>] /\ rx = <<>> /\ inbox = <<>> /\ got = <<>>
        /\ net = [open |-> 0, bound |-> FALSE, joined |-> FALSE, bufs |-> 0]
        /\ pkt \in PacketType /\ pkt.state = "none" /\ pkt.out = <<>>
    BY <1>1, <2>1 DEF UdpInit, NoPacket
  <2>5. tx \in [buf : BOOLEAN, bytes : Seq(Nat)] /\ ~tx.buf
    BY <2>4
  <2>6. /\ net \in [open : Nat, bound : BOOLEAN, joined : BOOLEAN, bufs : Nat]
        /\ net.open = 0 /\ net.bufs = 0 /\ net.joined = FALSE
    BY <2>4
  <2>7. PacketTypes
    BY <2>4, <2>5, <2>6 DEF PacketTypes
  <2>8. ReadTypes
    BY <2>4 DEF ReadTypes
  <2>2. PacketTypes /\ ReadTypes
    BY <2>7, <2>8
  <2>9. ObjectMatchesLwip /\ (~fd => ~group)
    BY <2>4, <2>5, <2>6 DEF ObjectMatchesLwip
  <2>10. Whole /\ Addressed
    BY <2>4 DEF Whole, Addressed
  <2>3. ObjectMatchesLwip /\ (~fd => ~group) /\ Whole /\ Addressed
    BY <2>9, <2>10
  <2> QED
    BY <2>2, <2>3 DEF UdpInv
<1>2. ASSUME UdpInv, UdpNext
      PROVE  UdpInv'
  BY <1>2, UdpObjectStep, ReadTypesStep, WholeStep, AddressedStep DEF UdpInv
<1>3. ASSUME UdpInv, UNCHANGED udpVars
      PROVE  UdpInv'
  BY <1>3 DEF UdpInv, PacketTypes, ReadTypes, ObjectMatchesLwip, Whole, Addressed, SentBytes, udpVars, object
<1>4. UdpInv /\ [UdpNext]_udpVars => UdpInv'
  BY <1>2, <1>3
<1> QED
  BY <1>1, <1>4, PTL DEF UdpSpec

\* Whatever failed in between, the object knows of every socket and buffer it
\* opened, and of the group it is in.
THEOREM SocketsAreKnown == UdpSpec => []ObjectMatchesLwip
<1>1. UdpInv => ObjectMatchesLwip
  BY DEF UdpInv
<1> QED
  BY <1>1, UdpInvariant, PTL

\* A packet leaves in order, once and whole, to the address it was begun for,
\* for buffers, packets and any number of datagrams of every size.
THEOREM PacketsAreWhole == UdpSpec => []SentAsBuilt
<1>1. UdpInv => SentAsBuilt
  BY DEF UdpInv, Whole, Addressed, SentAsBuilt
<1> QED
  BY <1>1, UdpInvariant, PTL

\* What is joined to the parts of a sequence is joined to the sequence.
LEMMA Joined ==
    ASSUME NEW B, NEW r \in Seq(B), NEW a \in Seq(B), NEW b \in Seq(B), NEW s, s = a \o b
    PROVE  (r \o a) \o b = r \o s
  OBVIOUS

\* What was read, the first part of the rest and what is then left.
LEMMA CutJoin ==
    ASSUME NEW B, NEW r \in Seq(B), NEW s \in Seq(B), NEW k \in 1..Len(s)
    PROVE  (r \o SubSeq(s, 1, k)) \o SubSeq(s, k + 1, Len(s)) = r \o s
<1> DEFINE n == Len(s)
           a == SubSeq(s, 1, k)
           b == SubSeq(s, k + 1, n)
<1>1. n \in Nat /\ k \in Nat /\ k <= n /\ 1 \in Int /\ k + 1 \in Int /\ \A i \in 1..n : s[i] \in B
  BY LenProperties, ElementOfSeq
<1>2. (\A i \in 1..k : s[i] \in B) /\ (\A i \in k + 1..n : s[i] \in B)
  BY <1>1
<1>3. /\ a \in Seq(B) /\ Len(a) = (IF 1 <= k THEN k - 1 + 1 ELSE 0)
      /\ \A i \in 1..k - 1 + 1 : a[i] = s[1 + i - 1]
  BY <1>1, <1>2, SubSeqProperties
<1>4. /\ b \in Seq(B) /\ Len(b) = (IF k + 1 <= n THEN n - (k + 1) + 1 ELSE 0)
      /\ \A i \in 1..n - (k + 1) + 1 : b[i] = s[(k + 1) + i - 1]
  BY <1>1, <1>2, SubSeqProperties
<1> HIDE DEF a, b
<1>5. Len(a) = k /\ Len(b) = n - k
  BY <1>1, <1>3, <1>4
<1>6. /\ a \o b \in Seq(B) /\ Len(a \o b) = n
      /\ \A i \in 1..n : (a \o b)[i] = IF i <= k THEN a[i] ELSE b[i - k]
  <2>1. /\ a \o b \in Seq(B) /\ Len(a \o b) = Len(a) + Len(b)
        /\ \A i \in 1..Len(a) + Len(b) : (a \o b)[i] = IF i <= Len(a) THEN a[i] ELSE b[i - Len(a)]
    BY <1>3, <1>4, ConcatProperties
  <2>2. Len(a) + Len(b) = n
    BY <1>1, <1>5
  <2> QED
    BY <1>5, <2>1, <2>2
<1>7. \A i \in 1..n : (a \o b)[i] = s[i]
  <2> SUFFICES ASSUME NEW i \in 1..n
               PROVE  (a \o b)[i] = s[i]
    OBVIOUS
  <2>1. CASE i <= k
    <3>1. i \in 1..k - 1 + 1 /\ 1 + i - 1 = i
      BY <1>1, <2>1
    <3>2. a[i] = s[i]
      BY <1>3, <3>1
    <3> QED
      BY <1>6, <2>1, <3>2
  <2>2. CASE ~(i <= k)
    <3>1. i - k \in 1..n - (k + 1) + 1 /\ (k + 1) + (i - k) - 1 = i
      BY <1>1, <2>2
    <3>2. b[i - k] = s[i]
      BY <1>4, <3>1
    <3> QED
      BY <1>6, <2>2, <3>2
  <2> QED
    BY <2>1, <2>2
<1>8. s = a \o b
  BY <1>6, <1>7, SeqEqual
<1>9. r \in Seq(B) /\ a \in Seq(B) /\ b \in Seq(B)
  BY <1>3, <1>4
<1>10. (r \o a) \o b = r \o s
  BY <1>8, <1>9, Joined
<1> QED
  BY <1>10 DEF a, b

\* Every step leaves of a datagram what is unread behind what was read of it.
THEOREM DatagramsReadInOrder == UdpSpec => ReadAsReceived
<1>1. ASSUME UdpInv, UdpNext, rx # <<>>
      PROVE  got' \o rx' = got \o rx \/ (rx' = <<>> /\ got' = got)
  <2>1. CASE Stop \/ Begin \/ Flush
    BY <2>1 DEF Stop, Begin, Flush
  <2>2. CASE BeginPacket \/ BeginMulticastPacket \/ Write \/ EndPacket \/ Arrives
    BY <2>2 DEF BeginPacket, BeginMulticastPacket, BeginPacketTo, Write, EndPacket, Arrives, object
  <2>3. CASE ParsePacket \/ ParseCrashes
    BY <1>1, <2>3 DEF ParsePacket, ParseCrashes, MayParse
  <2>4. CASE Read
    <3> DEFINE B == [from : Peer, place : Nat]
    <3>1. PICK k \in 1..Len(rx) : got' = got \o SubSeq(rx, 1, k) /\ rx' = SubSeq(rx, k + 1, Len(rx))
      BY <2>4 DEF Read
    <3>2. rx \in Seq(B) /\ got \in Seq(B)
      BY <1>1 DEF UdpInv, ReadTypes
    <3> HIDE DEF B
    <3>3. (got \o SubSeq(rx, 1, k)) \o SubSeq(rx, k + 1, Len(rx)) = got \o rx
      BY <3>2, CutJoin
    <3> QED
      BY <3>1, <3>3
  <2> QED
    BY <1>1, <2>1, <2>2, <2>3, <2>4 DEF UdpNext
<1>2. UdpInv /\ [UdpNext]_udpVars =>
        [rx # <<>> => got' \o rx' = got \o rx \/ (rx' = <<>> /\ got' = got)]_udpVars
  BY <1>1
<1> QED
  BY <1>2, UdpInvariant, PTL DEF UdpSpec, ReadAsReceived
================================================================================
