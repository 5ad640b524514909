------------------------ MODULE WiFiClientRxProperties ------------------------
(***************************************************************************)
(* What a sketch may rely on when it reads from a WiFiClient.              *)
(***************************************************************************)
EXTENDS WiFiClientRx

Unread == Rest(rx.buf, rx.pos) \o kernel
Increasing(s) == \A i \in 1..Len(s) - 1 : s[i] < s[i + 1]

\* While no socket call failed, every byte the peer sent is in exactly one
\* place, and read, being copied, buffered and received bytes are in the order
\* of the sender: refills, partial reads, peeks and flushes neither repeat,
\* lose nor reorder a byte.
StreamKept ==
    LET all == got \o call.out \o Unread IN
    open /\ ~rx.failed =>
        /\ Increasing(all)
        /\ BytesOf(all) = 1..sent \ thrown
        /\ Len(all) = Cardinality(1..sent \ thrown)

\* A sketch that saw available() > 0 gets at least one byte from read(), unless
\* the buffer fails: no buffer state makes fillBuffer answer 0 to received data.
AvailableIsReadable ==
    open /\ call = NoCall /\ Available > 0 =>
        Held(rx) > 0 \/ \A f \in Fill : f.n > 0 \/ f.rx.failed

\* A read that has found a byte returns, whatever the peer and the socket do.
ReadsEnd == (call.op \in {"fast", "slow"}) ~> (call.op = "none")
=============================================================================
