------------------------------ MODULE WiFiSockets ------------------------------
(***************************************************************************)
(* The descriptors of lwIP and who owns them: WiFiClient objects, which    *)
(* share a WiFiClientSocketHandle when they are copied, and a WiFiServer.  *)
(* One task, the sketch, makes the calls.  connect() waits in select and   *)
(* write() sends in a loop, so their steps are apart and the network acts  *)
(* in between; every other call is one step.                               *)
(*                                                                         *)
(* A WiFiClientRxBuffer is made and dropped together with the handle.      *)
(* Bytes are their places in what the running write() was given.  Of lwIP  *)
(* it is used that a descriptor is free again after close, that recv of no *)
(* byte may leave errno as it was if data is waiting or the peer has       *)
(* finished, and that any call may fail.                                   *)
(***************************************************************************)
EXTENDS Naturals, Sequences, FiniteSets

CONSTANTS
    Cl,             \* WiFiClient objects of the sketch
    Fd,             \* descriptors
    Handle,         \* WiFiClientSocketHandle objects
    None,           \* no descriptor (-1), no handle (NULL), no client
    MaxRetry,       \* WIFI_CLIENT_MAX_WRITE_RETRY: 10
    Chunk,          \* bytes write(Stream&) takes at once: 1360
    Size            \* bytes given to a write()

ASSUME SocketsAssumption ==
    /\ IsFiniteSet(Cl) /\ IsFiniteSet(Handle)
    /\ Cardinality(Cl) <= Cardinality(Handle)
    /\ None \notin Cl \cup Fd \cup Handle
    /\ {MaxRetry, Chunk, Size} \subseteq Nat \ {0}

VARIABLES
    sock,           \* what each descriptor is
    handle,         \* clientSocketHandle of each client
    fdOf,           \* sockfd of each handle
    connected,      \* _connected of each client
    server,         \* sockfd, _accepted_sockfd and _listening of the server
    waiting,        \* a peer waits to be accepted
    errno,          \* of the last failed call: gone for a lost connection
    call,           \* the connect() or write() that is running
    faults          \* what has gone wrong so far

clients == <<handle, fdOf, connected>>
vars == <<sock, clients, server, waiting, errno, call, faults>>

NoCall == [op |-> "none", c |-> None, fd |-> None, taken |-> 0, left |-> 0, next |-> 1,
           retry |-> 0, out |-> <<>>, cut |-> FALSE]
Idle == call = NoCall
Free == {f \in Fd : sock[f] = "free"}
Used(h) == {h[c] : c \in Cl} \ {None}
FdOf(c) == IF handle[c] = None THEN None ELSE fdOf[handle[c]]

TypeOK ==
    /\ sock \in [Fd -> {"free", "connecting", "up", "dead", "bound", "listening"}]
    /\ handle \in [Cl -> Handle \cup {None}]
    /\ fdOf \in [Handle -> Fd \cup {None}]
    /\ connected \in [Cl -> BOOLEAN]
    /\ server \in [fd : Fd \cup {None}, accepted : Fd \cup {None}, listening : BOOLEAN]
    /\ waiting \in BOOLEAN /\ errno \in {"gone", "other"}
    /\ call \in [op : {"none", "connect", "write", "stream"}, c : Cl \cup {None},
                 fd : Fd \cup {None}, taken : 0..Size, left : 0..Size, next : 1..Size + 1,
                 retry : 0..MaxRetry, out : Seq(1..Size), cut : BOOLEAN]
    /\ faults \subseteq {"option", "pending", "begin", "death"}

Init ==
    /\ sock = [f \in Fd |-> "free"]
    /\ handle = [c \in Cl |-> None] /\ fdOf = [h \in Handle |-> None]
    /\ connected = [c \in Cl |-> FALSE]
    /\ server = [fd |-> None, accepted |-> None, listening |-> FALSE]
    /\ waiting = FALSE /\ errno = "other" /\ call = NoCall /\ faults = {}

(***************************************************************************)
(* Ownership.  The last client that lets go of a handle destroys it, and   *)
(* the destructor closes the descriptor.                                   *)
(***************************************************************************)
Closed(s, fds) == [f \in Fd |-> IF f \in fds THEN "free" ELSE s[f]]
Without(c) == [handle EXCEPT ![c] = None]

\* Wrong: every client closes the descriptor it lets go of.
Dropped_ByEach(h) == {fdOf[handle[c]] : c \in {d \in Cl : handle[d] \notin {None, h[d]}}}

Dropped(h) == {fdOf[x] : x \in Used(handle) \ Used(h)}

\* stop(), the destructor, and the assignment of an empty client; s is sock
\* after what the call did before.
Leave(c, s) ==
    LET h == Without(c) IN
    /\ handle' = h
    /\ fdOf' = [x \in Handle |-> IF x \in Used(h) THEN fdOf[x] ELSE None]
    /\ sock' = Closed(s, Dropped(h))
    /\ connected' = [connected EXCEPT ![c] = FALSE]

\* A new handle for descriptor f.
Own(c, f, s) ==
    LET kept == Used(Without(c)) IN
    \E h \in Handle \ kept :
        /\ handle' = [handle EXCEPT ![c] = h]
        /\ fdOf' = [x \in Handle |-> IF x \in kept THEN fdOf[x]
                                     ELSE IF x = h THEN f ELSE None]
        /\ sock' = Closed(s, Dropped(Without(c)))
        /\ connected' = [connected EXCEPT ![c] = TRUE]

Stop(c) ==
    /\ Idle /\ Leave(c, sock)
    /\ UNCHANGED <<server, waiting, errno, call, faults>>

Assign(c, d) ==     \* c = d, which stops c first: c = c loses the connection
    LET h == [Without(c) EXCEPT ![c] = Without(c)[d]] IN
    /\ Idle
    /\ handle' = h
    /\ fdOf' = [x \in Handle |-> IF x \in Used(h) THEN fdOf[x] ELSE None]
    /\ sock' = Closed(sock, Dropped(h))
    /\ connected' = [connected EXCEPT ![c] = c # d /\ connected[d]]
    /\ UNCHANGED <<server, waiting, errno, call, faults>>

(***************************************************************************)
(* connect().                                                              *)
(***************************************************************************)
ConnectStart(c) ==
    /\ Idle
    /\ \E f \in Free :
        /\ sock' = [sock EXCEPT ![f] = "connecting"]
        /\ call' = [NoCall EXCEPT !.op = "connect", !.c = c, !.fd = f]
    /\ errno' = "other"        \* EINPROGRESS
    /\ UNCHANGED <<clients, server, waiting, faults>>

\* Wrong: a connect() that timed out returns at once.
ConnectFails_KeepsSocket ==
    /\ call.op = "connect"
    /\ call' = NoCall
    /\ UNCHANGED <<sock, clients, server, waiting, errno, faults>>

\* Wrong: select waits without a limit for the peer to answer.
ConnectFails_NoTimeout ==
    /\ call.op = "connect" /\ sock[call.fd] # "connecting"
    /\ sock' = Closed(sock, {call.fd}) /\ call' = NoCall
    /\ UNCHANGED <<clients, server, waiting, errno, faults>>

\* connect, select or getsockopt fail, or select times out: the timeout is not
\* negative, which would be a select without a limit.
ConnectFails ==
    /\ call.op = "connect"
    /\ sock' = Closed(sock, {call.fd}) /\ call' = NoCall
    /\ UNCHANGED <<clients, server, waiting, errno, faults>>

ConnectOptionFails ==       \* ROE_WIFICLIENT returns without a close
    /\ call.op = "connect" /\ sock[call.fd] = "up"
    /\ call' = NoCall /\ faults' = faults \cup {"option"}
    /\ UNCHANGED <<sock, clients, server, waiting, errno>>

ConnectDone ==
    /\ call.op = "connect" /\ sock[call.fd] = "up"
    /\ Own(call.c, call.fd, sock) /\ call' = NoCall
    /\ UNCHANGED <<server, waiting, errno, faults>>

(***************************************************************************)
(* write(buf, size) and write(Stream&), which passes on what it takes from *)
(* its stream chunk by chunk and does not look at what became of a chunk.  *)
(* A chunk is being sent while retry > 0.                                  *)
(***************************************************************************)
Writing == call.op \in {"write", "stream"} /\ call.retry > 0
LeastOf(a, b) == IF a < b THEN a ELSE b
Write(c) ==
    /\ Idle /\ connected[c] /\ handle[c] # None
    /\ \E n \in 1..Size :
        call' = [NoCall EXCEPT !.op = "write", !.c = c, !.fd = FdOf(c), !.taken = n,
                               !.left = n, !.retry = MaxRetry]
    /\ UNCHANGED <<sock, clients, server, waiting, errno, faults>>

WriteStream(c) ==
    /\ Idle
    /\ call' = [NoCall EXCEPT !.op = "stream", !.c = c]
    /\ UNCHANGED <<sock, clients, server, waiting, errno, faults>>

NextChunk ==
    LET k == LeastOf(Chunk, Size - call.taken)
        able == connected[call.c] /\ handle[call.c] # None IN
    /\ call.op = "stream" /\ call.retry = 0 /\ k > 0
    /\ call' = [call EXCEPT !.taken = @ + k, !.next = call.taken + 1,
                            !.left = k, !.fd = FdOf(call.c),
                            !.retry = IF able THEN MaxRetry ELSE 0,
                            !.cut = @ \/ ~able]
    /\ UNCHANGED <<sock, clients, server, waiting, errno, faults>>

\* Wrong: after a part of the buffer is sent, the same part is sent again.
AfterSend_Restarts(k) == [call EXCEPT !.left = @ - k, !.retry = MaxRetry]

AfterSend(k) == [call EXCEPT !.left = @ - k, !.next = @ + k, !.retry = MaxRetry]

SendSome ==         \* also after a FIN of the peer
    /\ Writing
    /\ \E k \in 1..call.left :
        LET sent == call.out \o [i \in 1..k |-> call.next + i - 1] IN
        call' = IF k = call.left
                THEN [call EXCEPT !.left = 0, !.retry = 0, !.out = sent]
                ELSE [AfterSend(k) EXCEPT !.out = sent]
    /\ UNCHANGED <<sock, clients, server, waiting, errno, faults>>

\* What is left of the attempts after one that sent nothing: select found the
\* socket busy or send answered EAGAIN or 0; or select failed and write returns.
Attempts == {call.retry - 1, 0}

SendNothing ==
    /\ Writing
    /\ \E n \in Attempts : call' = [call EXCEPT !.retry = n, !.cut = @ \/ n = 0]
    /\ errno' \in {errno, "other"}
    /\ UNCHANGED <<sock, clients, server, waiting, faults>>

\* send fails, as the connection is lost or as lwIP is out of memory: the client
\* is stopped.
SendFails ==
    /\ Writing
    /\ Leave(call.c, sock)
    /\ errno' = (IF sock[call.fd] = "dead" THEN "gone" ELSE "other")
    /\ call' = [call EXCEPT !.retry = 0, !.cut = TRUE]
    /\ UNCHANGED <<server, waiting, faults>>

WriteReturns ==
    /\ call.retry = 0
    /\ call.op = "write" \/ (call.op = "stream" /\ call.taken = Size)
    /\ call' = NoCall
    /\ UNCHANGED <<sock, clients, server, waiting, errno, faults>>

(***************************************************************************)
(* connected(): recv of no byte.  With data waiting, or after the peer's   *)
(* FIN, it answers 0 and leaves errno as the last failed call left it.     *)
(***************************************************************************)
\* Wrong: nothing received means that the connection is lost.
Gone_Always(e) == TRUE

Gone(e) == e = "gone"

Connected(c) ==
    /\ Idle /\ connected[c]
    /\ errno' \in {errno, IF FdOf(c) # None /\ sock[FdOf(c)] = "dead" THEN "gone" ELSE "other"}
    /\ connected' = [connected EXCEPT ![c] = ~Gone(errno')]
    /\ UNCHANGED <<sock, handle, fdOf, server, waiting, call, faults>>

(***************************************************************************)
(* WiFiServer.                                                             *)
(***************************************************************************)
Begin ==
    /\ Idle /\ ~server.listening
    /\ \/ Free = {} /\ server' = [server EXCEPT !.fd = None] /\ UNCHANGED sock
       \/ \E f \in Free :       \* bind or listen fails
            /\ sock' = [sock EXCEPT ![f] = "bound"] /\ server' = [server EXCEPT !.fd = f]
       \/ \E f \in Free :
            /\ sock' = [sock EXCEPT ![f] = "listening"]
            /\ server' = [fd |-> f, accepted |-> None, listening |-> TRUE]
    /\ faults' = faults \cup (IF server.fd # None THEN {"begin"} ELSE {})
                        \cup (IF server.accepted # None /\ server'.listening THEN {"pending"} ELSE {})
    /\ UNCHANGED <<clients, waiting, errno, call>>

End ==              \* end(), close(), stop() and the destructor
    /\ Idle
    /\ sock' = Closed(sock, {server.fd} \ {None})
    /\ server' = [server EXCEPT !.fd = None, !.listening = FALSE]
    /\ waiting' = FALSE
    /\ UNCHANGED <<clients, errno, call, faults>>

\* The descriptors accept() may answer.
Pending == waiting /\ server.fd # None /\ sock[server.fd] = "listening"
Accepted == IF Pending THEN Free ELSE {}

AcceptFails ==      \* nobody waits, or (ECONNABORTED) the peer has gone again
    \/ Accepted = {} /\ errno' = "other" /\ UNCHANGED <<waiting, faults>>
    \/ Pending /\ errno' = "gone" /\ waiting' = FALSE /\ faults' = faults \cup {"death"}

HasClient ==
    /\ Idle /\ server.accepted = None
    /\ \/ AcceptFails /\ UNCHANGED <<sock, server>>
       \/ \E f \in Accepted :
            /\ sock' = [sock EXCEPT ![f] = "up"] /\ server' = [server EXCEPT !.accepted = f]
            /\ waiting' = FALSE /\ UNCHANGED <<errno, faults>>
    /\ UNCHANGED <<clients, call>>

\* c = server.available(): a client for f, or an empty one if an option fails.
Hand(c, f, s) ==
    \/ Own(c, f, s) /\ UNCHANGED faults
    \/ Leave(c, s) /\ faults' = faults \cup {"option"}

Available(c) ==
    /\ Idle
    /\ \/ /\ ~server.listening
          /\ Leave(c, sock) /\ UNCHANGED <<server, waiting, errno, faults>>
       \/ /\ server.listening /\ server.accepted # None
          /\ server' = [server EXCEPT !.accepted = None] /\ Hand(c, server.accepted, sock)
          /\ UNCHANGED <<waiting, errno>>
       \/ /\ server.listening /\ server.accepted = None
          /\ AcceptFails /\ Leave(c, sock) /\ UNCHANGED server
       \/ \E f \in Accepted :
          /\ server.listening /\ server.accepted = None
          /\ Hand(c, f, [sock EXCEPT ![f] = "up"])
          /\ waiting' = FALSE /\ UNCHANGED <<server, errno>>
    /\ UNCHANGED call

(***************************************************************************)
(* The network.                                                            *)
(***************************************************************************)
Established(f) ==
    /\ sock[f] = "connecting" /\ sock' = [sock EXCEPT ![f] = "up"]
    /\ UNCHANGED <<clients, server, waiting, errno, call, faults>>

Dies(f) ==          \* FIN or RST of the peer
    /\ sock[f] = "up" /\ sock' = [sock EXCEPT ![f] = "dead"]
    /\ faults' = faults \cup {"death"}
    /\ UNCHANGED <<clients, server, waiting, errno, call>>

Arrives ==
    /\ server.listening /\ ~waiting /\ waiting' = TRUE
    /\ UNCHANGED <<sock, clients, server, errno, call, faults>>

Network == Arrives \/ \E f \in Fd : Established(f) \/ Dies(f)
Running ==
    \/ ConnectFails \/ ConnectOptionFails \/ ConnectDone
    \/ NextChunk \/ SendSome \/ SendNothing \/ SendFails \/ WriteReturns
Sketch ==
    \/ \E c \in Cl : \/ Stop(c) \/ ConnectStart(c) \/ Write(c) \/ WriteStream(c)
                     \/ Connected(c) \/ Available(c)
                     \/ \E d \in Cl : Assign(c, d)
    \/ Begin \/ End \/ HasClient
Next == Network \/ Running \/ Sketch

Spec == Init /\ [][Next]_vars
FairSpec == Spec /\ WF_vars(Running)        \* a call of the sketch runs on
===============================================================================
