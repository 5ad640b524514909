# EC544 Crypto Locker: TLA+ models, model checking and proofs

The repository is a remote locker: a C server (`locker/aws_server.c`) keeps
reservations, clients in containers (`client/client.py`, `client/client.c`)
create and delete them over TCP, and an ESP32 (`locker/locker.ino` with a bundled
copy of the Arduino WiFi library in `locker/src`) polls the server and blinks.
This directory holds TLA+ modules of that system, TLC configurations for them and
machine-checked proofs.

## Inventory

| component | state it keeps | operations | correct when |
|---|---|---|---|
| reservation list (`aws_server.c:35-156`) | `reservations`, its `head`, cells linked by `next`, `USER`, `LOCKED` | create, delete, search, update | the list stays acyclic, in order of arrival; a deleted cell never returns; `USER` is the oldest user |
| server loop (`aws_server.c:163-258, 304-317`) | the 1024x16 `buffer`, the row index, `client_fd`, `esp32_fd`, open descriptors | accept, read a row, end a frame, dispatch, update, ACK, close | the index stays in `buffer`; between frames the reservations change as the abstract queue's; a message is executed at most once |
| scripted client (`client.py`) | position in its list of items | one connection per item | each CREATE makes at most one reservation, although scripts may die between two items |
| command line client (`client.c`) | one connection | connect, send, blocking read | it waits for an answer that only the connection ending a frame gets; no property, see What is left |
| locker device (`locker.ino`) | phase of `setup`/`loop` | connect, print, wait at most 5 s, blink | it blinks only for a reserved locker |
| WiFi station (`WiFiSTA.cpp`, `WiFiGeneric.cpp`) | event queue, `_sta_status_group`, STA bits of the event group, `first_connect` | `begin`, `reconnect`, `disconnect`, `status`, `_eventCallback` | status and bits tell the truth once every event is handled; retried losses lead back to a connection |
| WiFi client, receiving (`WiFiClient.cpp`) | `WiFiClientRxBuffer`: `_buffer`, `_pos`, `_fill`, `_failed`; the socket | `read`, `peek`, `available`, `flush`, `stop` | the sketch reads what was sent, in order; a read ends |
| WiFi scan (`WiFiScan.cpp`) | `_scanStarted`, `_scanResult`, `_scanCount`, two bits of the event group | `scanNetworks`, `scanComplete`, `scanDelete`, `_scanDone` | results are in bounds and stay until deleted; a scan is not running for ever |
| WiFi client, connecting and sending (`WiFiClient.cpp`) | `clientSocketHandle` (shared by copies), `_connected`, lwIP's descriptors, `errno` | `connect`, `write`, `write(Stream&)`, `connected`, `stop`, copying | a handle's descriptor is its own; nothing leaks; bytes leave in order; calls return |
| WiFi server (`WiFiServer.cpp`) | `sockfd`, `_accepted_sockfd`, `_listening` | `begin`, `hasClient`, `available`, `end` | the same, for the peers it hands out |
| WiFi UDP (`WiFiUdp.cpp`) | `udp_server`, `tx_buffer`, `rx_buffer`, `remote_ip`, `multicast_ip` | `begin`, `beginMulticast`, `beginPacket`, `write`, `endPacket`, `parsePacket`, `read`, `flush`, `stop` | it owns what it opened; packets leave as built and are read as received |
| WiFi multi (`WiFiMulti.cpp`) | `APlist`; the station and the scan | `addAP`, `run` | it takes the strongest network of its list |
| radio modes (`WiFiGeneric.cpp:653-736, 1244-1356`, `WiFiAP.cpp:129, 225`) | `lowLevelInitDone`, `_esp_wifi_started`, the started bits | `mode`, `enableSTA`, `enableAP`, `softAP`, `softAPdisconnect` | flags say what the driver is; TRUE means done |
| host names (`WiFiGeneric.cpp:1544-1582`) | two DNS bits, `aResult` | `hostByName`, its callback | an answer is the answer to one's own question |
| event callbacks (`WiFiGeneric.cpp:740-1023, 1156-1171`) | `cbEventList`, `current_id` | `onEvent`, `removeEvent`, the loop | every callback once, unless an entry the loop has passed is removed |
| access point addresses (`WiFiGeneric.cpp:123-216`, `WiFiAP.cpp:199`) | interface address, DHCP range, DHCP server | `softAPConfig` | with netmasks from /24 to /28 the server leases free addresses of the subnet |

The parts meet on one TCP port. A client or the device connects; the server
accepts connections one at a time, in order, and reads once from each. The text of
one connection fills one row of `buffer`. The first row that reads as the empty
string ends the frame; row 0 then selects the command, `update_reservation` runs,
and the connection that ended the frame gets an ACK. Connections before it are
neither answered (but for the device's poll) nor closed.

The device reaches the server through its copy of the WiFi library. `setup()` waits
for the station's status; the event task writes that status, from events the driver
posts, and itself disconnects and connects; the event task also ends a scan. The
sketch and the event task share static members and event-group bits, without locks.

What is hard here: messages of several clients mix in one frame; the date of 19
bytes does not fit a row of 16 and spills into the next; every frame leaks
descriptors; the process dies on a null pointer after a legal sequence of commands;
scripts can die between two items; the device gives up while its poll is still
queued. In the library: a status that lags behind the link and on which `begin()`
decides; two tasks that connect and disconnect the same station, or switch the same
radio; buffers that are refilled in the middle of a read; results of one scan that
arrive during the next; copies of a client that share a socket; calls of the driver and
of lwIP that fail half way through; a list of callbacks that changes while it is walked;
two tasks that wait for the same bit of the event group.
`hazards` in `PROJECT.json` lists these with their lines.

Not modelled: provisioning and smartconfig (IDF components that only report events to
this library), key generation (calls of openssl), build and deployment scripts,
`lockerhandler` (commented out in full), `tests/test.c` (a macro) and `UI/app.py`
(empty): there is no behaviour of this repository to model in them. Partly modelled:
the station (IPv6, Ethernet and WPA2 enterprise are left out, and the getters, which
read what the driver keeps) and the access point (`softAPConfig` in `SoftAp`, `softAP`
and `softAPdisconnect` in `WiFiRadio`; the getters and IPv6 are left out).

## Modules

| module | models | lines of the code |
|---|---|---|
| `ReservationQueue` | abstract: a queue of reservations; cancelling the only one stops the service | promise of the list and of the server |
| `ReservationList` | pointers, cells, `create_`/`delete_`/`search_`/`update_reservation` | `aws_server.c:23-149` |
| `ReservationListProperties` | its properties; the queue as a refinement | |
| `ReservationListProofs` | proofs | |
| `LockerServer` | `setup_socket`, `listen_aws`, `main`, and what any client may do | `aws_server.c:55-317` |
| `LockerServerProperties` | what the server guarantees to any clients; the queue as a refinement | |
| `LockerSystem` | the server with `client.py`, `client.c`, `locker.ino` | `client.py`, `client.c`, `locker.ino` |
| `LockerSystemProperties` | what the parts guarantee together | |
| `LockerProofs` | proofs about server and composition | |
| `WiFiStation` | driver, event task and sketch around the station | `WiFiGeneric.cpp:301-366, 1029-1202`, `WiFiSTA.cpp:116-367`, `locker.ino:32-37` |
| `WiFiStationProperties`, `WiFiStationProofs` | its properties; proofs | |
| `WiFiClientRx` | the receive buffer, the calls on it and the peer | `WiFiClient.cpp:44-156, 202-207, 461-524` |
| `WiFiClientRxProperties`, `WiFiClientRxProofs` | its properties; proofs | |
| `WiFiScan` | sketch, driver and `_scanDone`, an action for each access to shared state (`scanDelete` is four) | `WiFiScan.cpp:45-171` |
| `WiFiScanProperties`, `WiFiScanProofs` | its properties; proofs about it and about `WiFiMulti` | |
| `WiFiSockets` | descriptors, handles, clients, a server; the network acts between the steps of `connect` and `write` | `WiFiClient.cpp`, `WiFiClient.h`, `WiFiServer.cpp` |
| `WiFiSocketsProperties`, `WiFiSocketsProofs` | its properties; proofs | |
| `WiFiUdp` | a UDP socket, the packet being built, the datagram being read | `WiFiUdp.cpp` |
| `WiFiUdpProperties` | its properties | |
| `WiFiRadio` | the two tasks in `mode()` and what calls it, an action for each test or write of a flag and each call of the driver | `WiFiGeneric.cpp:653-736, 1038-1109, 1244-1356`, `WiFiAP.cpp:129-253` |
| `WiFiRadioProperties`, `WiFiRadioProofs` | its properties; proofs | |
| `EventCallbacks` | `cbEventList` and the loop of the event task over it | `WiFiGeneric.cpp:740-1035, 1156-1171` |
| `HostNames` | `hostByName` by two tasks, lwIP's callback | `WiFiGeneric.cpp:902-933, 1544-1582` |
| `EventTask` | composes the two: a callback may resolve a name | |
| `EventTaskProperties` | its properties | |
| `WiFiMulti` | `addAP`, `run`; station and scan as `run` sees them, with what `begin` and `disconnect` answer | `WiFiMulti.cpp` |
| `WiFiMultiProperties` | its properties | |
| `SoftAp` | `softAPConfig`, with its properties | `WiFiGeneric.cpp:123-216, 1602-1625` |
| `WiFiLibraryProofs` | proofs about `SoftAp`, `EventTask` and `WiFiUdp` | |
| `MC_*` | instances for TLC | |

Proofs about several parts that do not interact share a module, so the state machines
of `SoftAp`, `WiFiUdp` and `WiFiMulti` have names with a prefix (`ApSpec`, `UdpSpec`,
`MultiSpec`). Definitions whose comment starts with "Wrong:" are plausible bugs; each is used to
show that some property notices it and none is part of a specification.

## Checks

`reservation_list` explores every command sequence with three strings (two users,
and the word CREATE, which becomes a user when frames mix) and three cells: enough
for a deletion at the head, in the middle and at the end, followed by an append.
`locker` has one script that makes a reservation and deletes it, a copy of `client.c`
whose command is CREATE, and a device that polls for ever (no bound is needed:
descriptors end). Nine descriptors and nine rows are enough for the script to be served
beside a few polls, for a frame to hold rows of all three, for the deletion to bring the
server down and for the descriptors to run out. The run also checks that what the server
does behind its frames is what `ReservationQueue` allows (`ServesTheQueue`).
`mixed_frames` has two scripts and looks for a reservation that names no client.

`station` lets the driver lose the link for every reason `_eventCallback` tells apart:
those it retries, those it does not, and OTHER for all that fall to its `default: return
false`. The sketch calls `begin`, `reconnect`, `disconnect` and `setAutoReconnect`. The
driver may refuse what `begin` and `disconnect` ask of it, before the attempt starts or
with the station still off; `refused` says whether the last one ended so. The driver
posts while fewer than two events are in flight (`MaxEvents`), so a loss can be queued
behind the one that is being retried; what a `disconnect()` of the event task or the
sketch posts always finds room, and waiting for room never blocks the event task.
`receive` has a buffer of three bytes, reads of one, three and five, a flush chunk of
two and seven bytes sent, so that a buffer is exactly used up, left half read, refilled
within a read, and smaller than a read; `peek`, `flush` and `stop` come between reads,
and the peer may close or reset at any time. `FIONREAD` and `recv` may fail. EWOULDBLOCK
is not answered where `FIONREAD` has counted bytes, since nobody else reads the socket.
`scan` has at most two networks: none, an array, and a smaller array than before. A
scan may outlive the two timeouts (`_scanTimeout`, `waitStatusBits`), with at most
three events in flight (`MaxPending`), and may end before `scanNetworks` has made its
last assignments; `scanDelete` and `scanNetworks` may free the array between its
allocation by `_scanDone` and the driver's copy into it. The history variable `timing`
records what has happened of this: `RecordsInBounds` and `NoArrayLost` are claimed until
a scan was "late", since a second scan may then start while the event of the first is
still to come; `RecordsInBounds` until the sketch "deleted" during `_scanDone`, and it
says that otherwise nothing is "freed" then; `ScanningEnds` until a scan was "quick".
`sockets` has two clients, two handles and three descriptors, so that both clients, the
server and an accepted peer compete and descriptors run out. Three bytes are written at
once or in chunks of two, in parts as lwIP takes them, with two retries for the ten of
the code. `accept` may fail with ECONNABORTED, which takes the peer away, and the
`errno` a dead connection leaves is any of those `connected` tells apart. `faults`
records what has gone wrong, for the exceptions of the properties.
`udp` has buffers of two bytes, packets of four, which fill a buffer twice, datagrams of
up to three, which are cut, two of them waiting, from two peers. Where `parsePacket`
finds no memory for its `rx_buffer` the device restarts (`ParseCrashes`).
`radio` lets the sketch switch either interface, set up the access point in two ways and
take it down, while the event task begins again, with a driver that may refuse every
call. A test of a flag and the write that follows are two steps; `getMode` is one, and a
call of the driver is one with the write of the flag directly behind it. Storage is set
(`Persistent` FALSE, the longer way). Calls of the sketch wait until no more than one
event is queued; events that calls and the driver cause find room.
`events` has one function, registered for one of two events or for all, up to two entries,
and two tasks that resolve names. What the loop does with more functions, events and
entries is `CalledOnce` among the proofs.
`multi` has three names, two strengths, two entries and scans of up to seven networks,
whose count wraps at six (`Half` is 3: it reads as -3 to 1) where that of the code wraps
at 256: counts that read as failed, as none, and as fewer than there are. The driver may
refuse what `begin` and `disconnect` ask of it.
`soft_ap` has 512 subnets of 256 addresses, with interfaces, gateways and starts at both ends
of subnets, contiguous netmasks of 16 and 256 addresses, refused ones of 8 and 512, and
255.255.255.15, 255.255.255.253 and 255.255.0.255, which `calculateSubnetCIDR` counts as /24.

Symmetry is used in `udp` and `multi` only, over peers and names, which no operator
orders, and without liveness properties. Every module has a type invariant, a part of the
inductive invariant of its proof; the run of the access point checks it, where it says
that a range of addresses never wraps.

Deadlock is checked where a program never stops, in all but four runs. In
`reservation_list`, `locker`, `receive` and `station` it may: the server dies, clients
end, `setup()` waits for ever when `WiFi.begin` failed, a client is closed, a station
without reconnection is left alone.

### Fairness

* `WiFiStation!FairSpec`: weak fairness of the event task (it blocks on its queue only)
  and of the second halves of the sketch's calls; strong fairness of `Associate` and
  `GetIP`, an assumption about the access point: repeated attempts succeed some time.
  `Reconnects` is meaningless without it.
* `WiFiClientRx!FairSpec`: a call that runs takes its next step. Nothing is assumed of
  the peer: it need not send, close or reset.
* `WiFiScan!FairSpec`: the driver ends a scan, the event task runs, a call of the sketch
  (`scanDelete` included) runs on. `scanNetworks` in synchronous mode waits at most ten
  seconds, so its waiting is no assumption.
* `WiFiSockets!FairSpec`: a `connect` or `write` that runs takes its next step. `select`
  has a timeout, so nothing is assumed of the peer. A negative timeout, with which
  `select` waits for ever, is not an input.
* `EventTask!FairSpec`: weak fairness of the two tasks in `hostByName` and of lwIP, which
  answers or gives up; strong fairness of the event task's loop, which a callback that
  resolves one name after the other would starve: callbacks are taken to return.

### Runs that find a violation

| run | what the source says | what happens |
|---|---|---|
| `mixed_frames` | "locker is centralized", "containers are clients" | a reservation for CREATE or an address |

### Where the properties make exceptions

Other disagreements between the code and its comments were met while modelling. They
have no run of their own; the models contain the behaviour and the properties name it
as an exception:

* A user who has a reservation gets a second one ("create new user reservation if name
  doesn't exist", `aws_server.c:53`): the search at line 74 compares users with the word
  CREATE. The queue holds users any number of times.
* Deleting the only reservation dereferences NULL at `aws_server.c:142`, before the test
  `if (reservations -> head == NULL)` that would set LOCKED to 0 (143-144). The queue goes
  out of service with its last reservation, so no property objects to it.
* `aws_server.h:56` says that sessions must not overlap, but start and end of a
  reservation are stored and never compared (`aws_server.c:94`).
* AUTH_EXPIRE is listed as a reason to retry, but `_eventCallback` sets no status for
  it: the `begin()` of the retry finds WL_CONNECTED and does nothing. `StatusIsTrue`,
  `RetryConnects` and `Reconnects` except it. The last two also except attempts that the
  driver refused: nothing tries again then; `Reconnects` is about reasons that are
  retried. For the same reason a sketch's `begin()` directly after `disconnect()` may do
  nothing.
* "Voluntarily disconnected. Don't reconnect!" holds only if no other loss is queued:
  `LeaveHolds` excepts `RetryDue`.
* A scan that ends while `scanNetworks` still has to set WIFI_SCANNING_BIT leaves that
  bit set for ever ("quick" in `ScanningEnds`): every later `scanNetworks` answers that
  a scan runs. `scanComplete` can also answer "not triggered" for a scan that ends between its
  reads of the two bits; no property says that it does not.
* `flush` of a client ("it also means to clear RX") keeps the bytes that were buffered
  and drops later ones instead; behind the end of the stream it never returns.
* `connected` trusts an `errno` that its `recv` did not set: after another connection was
  lost it may give up a live one. `LiveStaysConnected` is claimed until the first loss.
* A `setsockopt` that is refused, a `begin` after one that failed, and a `begin` while a
  peer is accepted but not taken each leave a descriptor open for ever (`NothingLeaks`).
* `write(Stream&)` goes on with the next chunk when one was cut short (`WritesAreGapless`).
* A UDP packet is sent again by a second `endPacket`; `parsePacket` redirects a packet
  that is being built; a buffer that could not be sent in the middle of a packet is
  dropped (`SentAsBuilt`). `write` without a buffer is left to the sketch's care.
* `softAPdisconnect` compares the answer of `enableAP` with an error code
  (`WiFiAP.cpp:232`), so with `wifioff` it answers TRUE only when the access point
  could not be taken down (`TrueMeansDone`).
* When calls of the sketch and of the event task overlap, `_esp_wifi_started` may stay set
  for a driver that does not run, and `mode` then answers TRUE for ever: `FlagsMatchDriver`
  is claimed until they overlap, `BitsFollowRadio` always. A driver whose storage was
  refused is initialised, but the flag says it is not.
* Two tasks that resolve names at once both pass the first wait and share
  WIFI_DNS_DONE_BIT: one may return on the other's answer, and lwIP then writes to an
  `aResult` that is gone. `ResolvesAlone` is claimed until they overlap.
* `removeEvent` has an "optional filter (WIFI_EVENT_MAX is all events)"
  (`WiFiGeneric.cpp:985`), which is its default argument (`WiFiGeneric.h:162`). The code
  compares it with the event of the entry (line 995): without a filter it removes what was
  registered for all events and leaves what was registered for one.
* `removeEvent` skips the entry behind the one it erased, so that the second of two
  equal neighbours stays although it "removes a callback" (`WiFiGeneric.cpp:983, 996`). No
  property says what is removed, for these two reasons.
* The loop of the event task misses an entry that moved: `EachCalledOnce` excepts, for its
  second half, events during which an entry that the loop had passed was removed. The vector
  has no lock; a task that is preempted inside a change of it is not modelled.
* `WiFiMulti::run` forgets the passphrase of a name that was added again without one
  (`ListedOnce` in `PicksStrongest`). It keeps the number of networks in eight bits: 128
  read as a failed scan, 256 as none and 257 as one, so `PicksStrongest` is about scans
  that found fewer than `Half` networks. It does not look at the answer of
  `disconnect()` (`WiFiMulti.cpp:98`) and may answer WL_CONNECTED for a network that is
  not listed when that call was refused (`ConnectedToAListed` excepts `run.refused`), or
  with the status of a connection that is already gone.
* "netmask must have room for at least 12 IP addresses" and "must be limited to the last 8
  bits" (`WiFiGeneric.cpp:144-145`), but `calculateSubnetCIDR` skips octets it does not know: a
  netmask such as 255.255.255.253 or 255.255.255.15 counts as /24 and is accepted. With it
  the range leaves the subnet and may hold the gateway. `RangeInSubnet` and the gateway's part
  of `RangeSparesHosts` are about netmasks from /24 to /28; the access point's own address is
  spared with every netmask that is accepted.
* `softAPConfig` that is refused behind line 132 leaves the DHCP server off, with the new
  address set. The properties speak of a server that is on.
* A DHCP range holds both of its ends: eleven addresses, where `WiFiGeneric.cpp:157`
  announces ten. `RangeInSubnet` and `RangeSparesHosts` hold for the eleven.

## Proofs

`tlapm` proves, for all values of the constants that satisfy the named assumptions:

* `LockerProofs`, of the server: `RowsNeverOverrun`, `ExhaustionIsForEver` and type
  correctness. The inductive invariant `Inv` adds to the types and these properties where a
  connection can be (`reading` is set exactly in `pc = "read"`), that every row kept a
  descriptor (the rows of a frame are no more than `held`, which is why the index is bounded
  by `Slots <= Rows`), and that a running server whose list exists has a reservation, which
  `ServerIsTheService` and `BlinksOnlyWhileReserved` need. `ServerAssumption` asks
  that descriptors are no more than rows. On a system with 1024 rows and a limit of
  1024 descriptors, three of them taken by the standard streams and one by the listener,
  this holds; with a higher limit the index is not bounded.
* `LockerProofs`, of the composition: it implements `LockerServer`
  (`SystemImplementsServer`: each step of a client is a step `LockerServer` allows to any
  client), so the theorems above hold of it; its types; and `BlinksOnlyWhileReserved`,
  from the server's invariant and the fact that an answer "cmd" in the device's inbox
  implies a reservation.
* `LockerProofs`, of the composition, `CreatesCountOnce`: the server never holds more
  reservations than the programs sent CREATE. A word is counted where it is: on a
  connection that waits, on the one being read, in the first row of the frame, on the
  list (`Underway`). Every step of the server moves a word from one place to the next or
  loses it: only row 0 is executed, once, and `Dispatch` forgets the rows. A client adds a
  word to at most one connection, since it has one that it has not used
  (`OnePending`). The sum is bounded by the set of the CREATEs that were sent (`CountInv`).
* `LockerProofs`, `ServerIsTheService` and `SystemIsTheService`: the server implements
  `ReservationQueue`, the specification that the linked list implements too. `Booked`
  maps the list of `LockerServer` to the abstract queue: it forgets the hours,
  descriptors and rows. The step that matters is `Dispatch`: with the command of row 0
  the list grows at its end, loses the oldest entry of a user, or stays, and
  `update_reservation` kills the process exactly when the last entry went, which needs
  that a list without structure is empty.
* `WiFiLibraryProofs`, of addresses: type correctness (a range in a netmask from /24 to
  /28 never wraps), `LeasesStayInSubnet` and `LeasesSpareHosts`. `ApInv` is their
  conjunction. An address and a netmask are four octets, and `&` goes through their
  bits; `NetIsBase` shows that for the netmasks from /24 to /28 this is division with
  remainder (`Masked`, of one octet), after which the arithmetic of `%` is split over
  these five. `SameSubnet` covers a gateway that the code does not compare because it is
  in another subnet, `SubnetInSpace` needs an address space that is a multiple of 256.
  That the access point's own address is spared is proved for every netmask that passes
  the checks.
* `WiFiLibraryProofs`, of the event task: `CalledOnce`, `AloneIsRight`.
  The list is always in the order of its ids, so what the loop has still to look at is
  younger than all it has called, wherever erasing moves it (`Ordered`): nothing is called
  twice. An entry that is owed the event was called or is ahead (`Owing`). For a proof
  `Remove` was restated by positions: what is kept moves up in order, where it had been
  concatenated with a fold. Of host names: until two tasks were past the first wait
  together, at most one is past it (`Turns`), and that one knows of its request what
  the bit says (`Answered`).
* `WiFiLibraryProofs`, of UDP: `SocketsAreKnown`, `PacketsAreWhole`,
  `DatagramsReadInOrder`. What left and what waits in the buffer are together the bytes
  that were written (`Whole`), for the address they were begun for (`Addressed`).
  `AllBytes` puts datagrams together with a recursive function; what a packet's next
  datagram adds to it is a lemma. `CrashRestarts` takes the step without memory back to
  the initial states.
* `ReservationListProofs`: `LockedForTheFirst`, and `ListImplementsQueue`, the refinement.
  What they need is the shape of the list, `ListInv`: from `head`, `next` visits finitely
  many cells and ends in NULL, each cell younger than the one before. malloc never
  returns a cell again, so cells are numbered in order of arrival and the chain
  is a function on positions, which replaces reachability and its induction. Appending,
  unlinking the first cell and unlinking a later one each make a new chain from the old one, and
  `Listed` of the new chain is what the queue's operation makes of the old.
* `WiFiSocketsProofs`: `ClientsKeepApart`, `DescriptorsHaveOwners`, `WritesInOrder`,
  `LiveOnesStayConnected`. `Inv` says who may own a descriptor: one handle, the listener,
  an accepted peer, the call of `connect` that is under way, or nobody after a fault that
  is recorded; that a handle is referred to by the clients counted in it; and what of a
  write has left (`Sends`). Trying to prove `DescriptorsHaveOwners` showed that `begin` had been
  modelled wrongly: it overwrites `sockfd` when `socket()` then fails too
  (`WiFiServer.cpp:80-82`); the model now does.
* `WiFiClientRxProofs`: `NoByteLost` and `NoByteStuck`. `Inv` speaks of the stream as the
  call under way has cut it: what was read before, what this call has copied, what is
  buffered and what is still in the socket. Concatenated they are in order (any two bytes,
  not only neighbours, so that a piece may be taken out by `flush`) and are the bytes
  sent but not thrown away. A refill in the middle of `read` moves a piece from one part
  to the next.
* `WiFiScanProofs`: `RecordsStay` and `ArraysAreKept`. They need that at most one scan is
  anywhere between the driver, the queue and `_scanDone` (`OneScan`), and that the array
  `_scanDone` is filling, or has announced, is as long as the count (`Bounded`).
* `WiFiScanProofs`, of `WiFiMulti`: `StrongestIsPicked` and `ConnectedIsListed`. `Best`
  goes through the networks with a recursive function; that it ends with the strongest
  usable one, or with none only if none is usable, is `BestIsStrongest`, for every list.
  `run` looks at as many networks as the eight bit count says (`Signed`); `Countable`
  shows that these are all that were found when they are fewer than `Half`. `Waiting`
  says that the network `run` waits for is one of its list, and that "connected" was
  read while the driver had no other, unless `disconnect()` was refused.
* `WiFiRadioProofs`: `FlagsAreRight`, `AnswersAreTrue`, `BitsAreRight`. The first two
  need `Alone`: at each step of the one call under way, what `lowLevelInitDone` and
  `_esp_wifi_started` say of the driver (`Levels`, `Flags`: both are written ahead of it)
  and how far the call has come from the mode it found to the one it is after
  (`Progress`). TLC had accepted an invariant that was not inductive: it lacked that a
  call past `wifiLowLevelInit` keeps `lowLevelInitDone`, and that a started driver has a mode
  other than none. `BitsAreRight` needs types only: a change of the mode appends the
  events of exactly what changed, and the last event that tells of an interface decides.
* `WiFiStationProofs`: `StatusTellsTheTruth`, `RetriesConnect`, `LeftIsLeft`. What is
  published lags behind the link, so `Inv` relates the link to what is still to come: the
  youngest event (`Youngest`), or the status once there is none; the bits as they
  will be when every queued event has set them (`Posted`), which neither the driver, which
  posts what it changes, nor the event task, which takes what it sets, can alter; and how
  far the event task is with its event (`Handling`), from which it follows that nothing
  publishes WL_CONNECTED between a loss and the `begin()` of its retry. The step after
  ASSOC_LEAVE could not be proved at first: `AfterLoss` had been a CASE with
  overlapping guards, which TLC reads in order and the logic does not. It is an IF now.

Every inductive invariant was checked by TLC on the instance of the module's run before
it was proved. The proofs of the library's parts assume no more of the constants than the
named assumption in each module (positive sizes, distinct values, as many handles as clients).

A few lemmas are about what a recursive function computes for every sequence:
`PathOfChain` (the cells `next` visits), `BytesUnfold` and `BytesOfMore` (the bytes of
datagrams), `BestUnfold` and `BestIsStrongest`. They are proved without an induction
rule: if some length were wrong there would be a least one (`NatHasLeast`, from the
well-foundedness of `<`), it is not 0, and the one before it, which is right, makes it
right. The `Unfold` lemmas show in this way that the recursive definition has a value at
all.

`MultiAssumption` says that None is no network, that strengths are integers and that the counter
holds more than one network; `UdpAssumption` that a buffer has
room, and that a group and no address are not peers.

Every invariant and every action property that a run checks is stated by a theorem, for
all values of the constants. Only model-checked are the liveness properties
(`Reconnects`, `ReadsEnd`, `ScanningEnds`, `CallsReturn`, `EventsAreHandled`): they rest
on fairness, hence on ENABLED, which is out of the prover's reach. That the violation of
`mixed_frames` exists is a single behaviour, which TLC shows.

## Abstractions

* Words, users and dates are tokens. What a row of 16 bytes does to them is kept: the
  spilled end of a date, rows that run into the next, the byte that ends a frame.
* A connection carries at most one word, as every program of the repository sends.
  Losing a server's answer is not modelled: nothing depends on it but the device, which
  also times out.
* Bytes of a stream are their positions; addresses are numbers and a netmask is its
  four octets.
* The driver, lwIP and the DHCP client are modelled from how the library uses them and
  are marked external in `PROJECT.json`.
* `mode()` reads the driver's mode in one step. The allocations inside `cbuf`, which is not
  part of the repository, do not fail. The configurations given to `softAP` are
  those its argument checks accept.
* Calls of the sockets other than `connect` and `write` are one step: nothing in them
  waits, and one task makes them.

## What is left

* Four hazards of the list have no property, because nothing in the repository says what
  should happen; the models contain the behaviour. `flush` of a client behind the end of
  the stream never returns (`FlushSpins` in `WiFiClientRx`), so `ReadsEnd` is about reads.
  `client.c` may wait for an answer until the server dies (`CReturn` in `LockerSystem`). A
  refused `softAPConfig` leaves the DHCP server off (`Refuse` in `SoftAp`). `parsePacket`
  without memory restarts the device (`ParseCrashes` in `WiFiUdp`).
* The liveness properties hold on the instances of the runs; for other sizes
  the arguments are in the comments above them.
* The parts named as not modelled under Inventory.
