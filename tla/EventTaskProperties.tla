-------------------------- MODULE EventTaskProperties --------------------------
(***************************************************************************)
(* What a sketch may rely on when it registers callbacks and resolves      *)
(* names.                                                                  *)
(***************************************************************************)
EXTENDS EventTask

\* For one event no entry is called twice, however the callbacks and the sketch
\* change the list meanwhile; and none that was there when the event came and was
\* not removed is left out, unless an entry the loop had come to was removed: the
\* loop then goes past as many of those behind it.
EachCalledOnce ==
    /\ \A i, j \in DOMAIN called : i # j => called[i] # called[j]
    /\ loop.at = "scan" /\ loop.i > Len(list) => owed \subseteq {called[i] : i \in DOMAIN called}

\* As long as two tasks were never past the first wait together, a resolution
\* answers what lwIP said of its name and lwIP writes to no result of a call
\* that has returned.
ResolvesAlone ==
    ~overlapped =>
        /\ ~late /\ stale = {}
        /\ \A t \in Task : at[t] = "leave" => result[t] = request[t].said /\ ~request[t].pending

\* Whatever names its callbacks resolve, the event task comes to its next event,
\* also when another task takes the answer's bit away before it waits for it.
EventsAreHandled == (loop.at # "idle") ~> (loop.at = "idle")
===============================================================================
