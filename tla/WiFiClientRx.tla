----------------------------- MODULE WiFiClientRx -----------------------------
(***************************************************************************)
(* The receiving side of a connected WiFiClient: WiFiClientRxBuffer, which *)
(* keeps up to Size bytes between the socket and the sketch, and the calls *)
(* of WiFiClient that use it.  read() may call fillBuffer several times    *)
(* and flush() may call recv several times; each such call is a step, so   *)
(* bytes arrive, and the peer closes or resets, in between.                *)
(*                                                                         *)
(* A byte is its place in what the peer sends.  Of lwIP it is used that    *)
(* recv hands out bytes in order, some or all of those asked for, answers  *)
(* 0 after the peer's FIN, and that after a reset it may fail although     *)
(* FIONREAD counted bytes; it does not answer EWOULDBLOCK where FIONREAD   *)
(* counted some, as nobody else receives from the socket.  FIONREAD itself *)
(* may fail.                                                               *)
(***************************************************************************)
EXTENDS Naturals, Sequences, FiniteSets

CONSTANTS
    Size,           \* _size: 1436 in the code
    Chunk,          \* WIFI_CLIENT_FLUSH_BUFFER_SIZE: 1024
    Lengths,        \* lengths a sketch reads
    Bytes,          \* how many bytes the peer sends at most
    Calls           \* what the sketch calls beside read()

ASSUME RxAssumption ==
    /\ Size \in Nat \ {0} /\ Chunk \in Nat \ {0} /\ Bytes \in Nat
    /\ Lengths \subseteq Nat \ {0}
    /\ Calls \subseteq {"peek", "flush", "stop"}

VARIABLES
    sent,           \* bytes the peer has sent
    peer,           \* open, fin or reset
    kernel,         \* bytes in the socket, oldest first
    rx,             \* the WiFiClientRxBuffer; fill is the length of buf
    open,           \* the client still has its socket and its buffer
    call,           \* the call that is running
    got,            \* every byte the sketch has read
    thrown          \* bytes flush() received and dropped

vars == <<sent, peer, kernel, rx, open, call, got, thrown>>

Byte == 1..Bytes
NoCall == [op |-> "none", left |-> 0, out |-> <<>>]
LeastOf(a, b) == IF a < b THEN a ELSE b
First(s, n) == SubSeq(s, 1, n)
Rest(s, n) == SubSeq(s, n + 1, Len(s))
Held(r) == Len(r.buf) - r.pos           \* _fill - _pos
Available == Held(rx) + Len(kernel)
BytesOf(s) == {s[i] : i \in 1..Len(s)}

TypeOK ==
    /\ sent \in 0..Bytes
    /\ peer \in {"open", "fin", "reset"}
    /\ kernel \in Seq(Byte)
    /\ rx \in [buf : Seq(Byte), pos : Nat, allocated : BOOLEAN, failed : BOOLEAN]
    /\ rx.pos <= Len(rx.buf) /\ Len(rx.buf) <= Size
    /\ open \in BOOLEAN
    /\ call \in [op : {"none", "fast", "slow", "flush"}, left : Nat,
                 out : Seq(Byte)]
    /\ got \in Seq(Byte) /\ thrown \subseteq Byte

Init ==
    /\ sent = 0 /\ peer = "open" /\ kernel = <<>>
    /\ rx = [buf |-> <<>>, pos |-> 0, allocated |-> FALSE, failed |-> FALSE]
    /\ open = TRUE /\ call = NoCall /\ got = <<>> /\ thrown = {}

(***************************************************************************)
(* fillBuffer: the set of its outcomes, with n the number it returns.      *)
(***************************************************************************)
\* Wrong: a buffer read to its end is not rewound.
Rewound_Never(r) == r

Rewound(r) == IF r.pos = Len(r.buf) THEN [r EXCEPT !.buf = <<>>, !.pos = 0] ELSE r

Outcome(r, k, n) == [rx |-> r, kernel |-> k, n |-> n]

RoomIn(r) == Size - Len(r.buf)

Fill ==
    LET r == [Rewound(rx) EXCEPT !.allocated = TRUE]
        most == LeastOf(Len(kernel), RoomIn(r))
        Failed == [r EXCEPT !.failed = TRUE]
        NoMemory == {Outcome([rx EXCEPT !.failed = TRUE], kernel, 0)}
        Nothing == {Outcome(r, kernel, 0)}
        CountFails == {Outcome(Failed, kernel, 0)}
        RecvFails == {Outcome(Failed, <<>>, 0)}
        Received == {Outcome([r EXCEPT !.buf = @ \o First(kernel, n)], Rest(kernel, n), n)
                        : n \in 1..most}
    IN  (IF rx.allocated THEN {} ELSE NoMemory)
        \cup (IF RoomIn(r) = 0 THEN {} ELSE CountFails)
        \cup (IF Len(kernel) = 0 \/ RoomIn(r) = 0 THEN Nothing
              ELSE Received \cup (IF peer = "reset" THEN RecvFails ELSE {}))

\* n bytes copied out of buffer r.
Copied(r, n) == First(Rest(r.buf, r.pos), n)
Advanced(r, n) == [r EXCEPT !.pos = @ + n]

(***************************************************************************)
(* The calls.  WiFiClient::read and peek stop the client if the buffer     *)
(* failed, after handing over what was read.                               *)
(***************************************************************************)
Return(r, out) ==
    /\ got' = got \o out
    /\ rx' = r /\ open' = ~r.failed
    /\ call' = NoCall

Read(len) ==        \* up to the end of the first if
    /\ call = NoCall /\ open
    /\ IF Held(rx) > 0
       THEN /\ call' = [NoCall EXCEPT !.op = "fast", !.left = len]
            /\ UNCHANGED <<rx, kernel, open, got>>
       ELSE \E f \in Fill :
            /\ kernel' = f.kernel
            /\ IF f.n = 0
               THEN Return(f.rx, <<>>)
               ELSE /\ call' = [NoCall EXCEPT !.op = "fast", !.left = len]
                    /\ rx' = f.rx
                    /\ UNCHANGED <<open, got>>
    /\ UNCHANGED <<sent, peer, thrown>>

\* Wrong: after a refill that was not enough, what it brought is skipped.
ReadFast_DropsRefill ==
    LET len == call.left
        a == Held(rx)
        fits == len - a <= Size - Len(rx.buf)
        begin(r) ==
            /\ call' = [call EXCEPT !.op = "slow", !.left = len - a, !.out = Copied(r, a)]
            /\ rx' = Advanced(r, Held(r))
            /\ UNCHANGED <<open, got>>
    IN
    /\ call.op = "fast"
    /\ \/ len <= a /\ Return(Advanced(rx, len), Copied(rx, len)) /\ UNCHANGED kernel
       \/ len > a /\ fits /\ \E f \in Fill :
            /\ kernel' = f.kernel
            /\ IF f.n >= len - a
               THEN Return(Advanced(f.rx, len), Copied(f.rx, len))
               ELSE begin(f.rx)
       \/ len > a /\ ~fits /\ begin(rx) /\ UNCHANGED kernel
    /\ UNCHANGED <<sent, peer, thrown>>

\* What is buffered is enough, or one more fillBuffer makes it enough; if not,
\* what was buffered before that fillBuffer is copied and the loop begins.
ReadFast ==
    LET len == call.left
        a == Held(rx)
        fits == len - a <= Size - Len(rx.buf)
        begin(r) ==
            /\ call' = [call EXCEPT !.op = "slow", !.left = len - a, !.out = Copied(r, a)]
            /\ rx' = Advanced(r, a)
            /\ UNCHANGED <<open, got>>
    IN
    /\ call.op = "fast"
    /\ \/ len <= a /\ Return(Advanced(rx, len), Copied(rx, len)) /\ UNCHANGED kernel
       \/ len > a /\ fits /\ \E f \in Fill :
            /\ kernel' = f.kernel
            /\ IF f.n >= len - a
               THEN Return(Advanced(f.rx, len), Copied(f.rx, len))
               ELSE begin(f.rx)
       \/ len > a /\ ~fits /\ begin(rx) /\ UNCHANGED kernel
    /\ UNCHANGED <<sent, peer, thrown>>

\* Wrong: the loop goes on until it has all the bytes it was asked for.
ReadSlow_Insists ==
    /\ call.op = "slow"
    /\ \E f \in Fill :
        LET n == LeastOf(Held(f.rx), call.left)
            out == call.out \o Copied(f.rx, n) IN
        /\ kernel' = f.kernel
        /\ IF n = call.left
           THEN Return(Advanced(f.rx, n), out)
           ELSE /\ call' = [call EXCEPT !.left = @ - n, !.out = out]
                /\ rx' = Advanced(f.rx, n)
                /\ UNCHANGED <<open, got>>
    /\ UNCHANGED <<sent, peer, thrown>>

ReadSlow ==
    /\ call.op = "slow"
    /\ \E f \in Fill :
        /\ kernel' = f.kernel
        /\ IF f.n = 0
           THEN Return(f.rx, call.out)
           ELSE LET n == LeastOf(Held(f.rx), call.left)
                    out == call.out \o Copied(f.rx, n) IN
                IF n = call.left
                THEN Return(Advanced(f.rx, n), out)
                ELSE /\ call' = [call EXCEPT !.left = @ - n, !.out = out]
                     /\ rx' = Advanced(f.rx, n)
                     /\ UNCHANGED <<open, got>>
    /\ UNCHANGED <<sent, peer, thrown>>

Peek ==
    /\ "peek" \in Calls /\ call = NoCall /\ open
    /\ IF Held(rx) > 0
       THEN UNCHANGED <<rx, kernel, open>>
       ELSE \E f \in Fill : kernel' = f.kernel /\ rx' = f.rx /\ open' = ~f.rx.failed
    /\ UNCHANGED <<sent, peer, call, got, thrown>>

Flush ==            \* available() counts the buffer; the loop only receives
    /\ "flush" \in Calls /\ call = NoCall /\ open /\ Available > 0
    /\ call' = [NoCall EXCEPT !.op = "flush", !.left = Available]
    /\ UNCHANGED <<sent, peer, kernel, rx, open, got, thrown>>

FlushRecv ==
    /\ call.op = "flush"
    /\ \/ \E n \in 1..LeastOf(Len(kernel), LeastOf(call.left, Chunk)) :
            /\ kernel' = Rest(kernel, n)
            /\ thrown' = thrown \cup BytesOf(First(kernel, n))
            /\ call' = IF n = call.left THEN NoCall ELSE [call EXCEPT !.left = @ - n]
            /\ UNCHANGED open
       \/ /\ peer = "reset" \/ (kernel = <<>> /\ peer = "open")     \* recv < 0
          /\ open' = FALSE /\ call' = NoCall /\ kernel' = <<>>
          /\ UNCHANGED thrown
    /\ UNCHANGED <<sent, peer, rx, got>>

FlushSpins ==       \* recv answers 0 and a stays what it is
    /\ call.op = "flush" /\ kernel = <<>> /\ peer = "fin"
    /\ UNCHANGED vars

Stop ==             \* or available() cannot count the bytes of the socket
    /\ "stop" \in Calls /\ call = NoCall /\ open
    /\ open' = FALSE
    /\ UNCHANGED <<sent, peer, kernel, rx, call, got, thrown>>

(***************************************************************************)
(* The peer.                                                               *)
(***************************************************************************)
PeerSend ==
    /\ peer = "open" /\ open /\ sent < Bytes
    /\ sent' = sent + 1 /\ kernel' = Append(kernel, sent + 1)
    /\ UNCHANGED <<peer, rx, open, call, got, thrown>>

PeerEnds ==
    /\ peer = "open" /\ peer' \in {"fin", "reset"}
    /\ UNCHANGED <<sent, kernel, rx, open, call, got, thrown>>

Peer == PeerSend \/ PeerEnds
Sketch ==
    \/ \E len \in Lengths : Read(len)
    \/ Peek \/ Flush \/ Stop
Running == ReadFast \/ ReadSlow \/ FlushRecv
Next == Peer \/ Sketch \/ Running \/ FlushSpins

Spec == Init /\ [][Next]_vars
FairSpec == Spec /\ WF_vars(Running)       \* a call runs on until it returns
===============================================================================
