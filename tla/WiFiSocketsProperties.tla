------------------------- MODULE WiFiSocketsProperties -------------------------
(***************************************************************************)
(* What a sketch may rely on of its clients and its server.                *)
(***************************************************************************)
EXTENDS WiFiSockets

Held == {fdOf[h] : h \in Used(handle)}
Others == {server.fd, server.accepted} \cup (IF call.op = "connect" THEN {call.fd} ELSE {})

\* However clients are copied, assigned, connected again and stopped, each
\* handle has an open descriptor that nobody else has: no call closes, reads
\* or writes the connection of another.
HandlesOwnTheirSockets ==
    /\ \A h \in Used(handle) : fdOf[h] # None /\ sock[fdOf[h]] \in {"up", "dead"}
    /\ \A g, h \in Used(handle) : fdOf[g] = fdOf[h] => g = h
    /\ Held \cap Others = {}
    /\ server.accepted # None => sock[server.accepted] \in {"up", "dead"}

\* As long as no option was refused, no begin() came after a failed one and none
\* while a peer that hasClient() accepted was still there, every open descriptor
\* has an owner who will close it.
NothingLeaks ==
    faults \cap {"option", "begin", "pending"} = {} =>
        \A f \in Fd : sock[f] # "free" => f \in Held \cup Others

\* Bytes of a write() leave in order, none twice and none left out; only
\* write(Stream&) goes on behind a gap, and only after a chunk was cut short.
WritesAreGapless ==
    call.op \in {"write", "stream"} =>
        LET n == Len(call.out) IN
        /\ \A i \in 1..n - 1 : call.out[i] < call.out[i + 1]
        /\ call.op = "write" \/ ~call.cut => call.out = [i \in 1..n |-> i]
        /\ call.retry = 0 /\ ~call.cut => n = call.taken

\* connected() gives no live connection up, unless some connection was lost
\* before: then errno may still tell of that one.
LiveStaysConnected ==
    \A c \in Cl : "death" \notin faults /\ handle[c] # None => connected[c]

\* connect() and write() return, whatever the peer does.
CallsReturn == (call.op # "none") ~> (call.op = "none")
===============================================================================
