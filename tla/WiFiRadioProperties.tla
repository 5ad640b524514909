-------------------------- MODULE WiFiRadioProperties --------------------------
(***************************************************************************)
(* What a sketch may rely on when it switches the radio.                   *)
(***************************************************************************)
EXTENDS WiFiRadio

Quiet == \A t \in Task : ~Busy(t)

\* Whatever the driver refused on the way, between calls the two flags say
\* what the driver is, so that the next call does neither too little nor too
\* much; unless calls of the two tasks ever overlapped, and except that a
\* driver whose storage could not be set is taken for none.
FlagsMatchDriver ==
    Quiet /\ ~raced =>
        /\ started = (drv.state = "started")
        /\ low => drv.state # "none"
        /\ ~low /\ ~refused => drv.state = "none"

\* A call that answers TRUE has done what it was asked for and has left the
\* other interface as it was, unless calls of the two tasks overlapped; but
\* softAPdisconnect(true), which takes the answer of enableAP() for an error
\* code, has then only blanked the configuration and kept the station.
TrueMeansDone ==
    \A t \in Task :
        LET c == call[t] IN
        At(t, "done") /\ c.answer /\ ~raced =>
            CASE c.op = "mode" -> Radio = c.goal
              [] c.op = "on" -> Radio = c.was \cup {c.i}
              [] c.op = "off" -> Radio = c.was \ {c.i}
              [] c.op = "softap" -> Radio = c.was \cup {"ap"} /\ drv.conf = c.conf
              [] c.op = "apoff" -> Radio \ {"ap"} = c.was \ {"ap"} /\ drv.conf = "blank"
              [] c.op = "blank" -> Radio = c.was /\ drv.conf = "blank"

\* Event e tells whether interface i is up.
Tells(e, i) == e.i = i /\ e.what \in {"start", "stop"}

\* The started bit of i once the events of q are handled: what the last of them
\* tells, or the bit of now if none does.
BitAfter(i, q) ==
    \/ \E k \in 1..Len(q) :
          /\ Tells(q[k], i) /\ q[k].what = "start"
          /\ \A j \in k + 1..Len(q) : ~Tells(q[j], i)
    \/ i \in bits /\ \A k \in 1..Len(q) : ~Tells(q[k], i)

\* In whatever order the tasks switch the radio, once the events that wait are
\* handled the started bits tell which interfaces are up.
BitsFollowRadio == \A i \in Iface : BitAfter(i, queue) <=> i \in Radio
===============================================================================
