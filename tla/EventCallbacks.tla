---------------------------- MODULE EventCallbacks ----------------------------
(***************************************************************************)
(* The list of event callbacks, and the loop of the event task that calls  *)
(* them.  Callbacks, which run inside the loop, and the sketch add and     *)
(* remove entries, while the loop goes by an index.  Nothing locks the     *)
(* list; here a change of it is a step, as it is for a callback, and for   *)
(* the sketch unless the event task preempts it inside the vector.         *)
(***************************************************************************)
EXTENDS Naturals, Sequences, FiniteSets

CONSTANTS
    Cb,             \* functions
    Event,          \* events
    Any,            \* ARDUINO_EVENT_MAX: every event
    MaxId           \* entries a sketch adds

VARIABLES
    list,           \* cbEventList
    nextId,         \* current_id
    loop,           \* of the event task: where it is, event, index
    called,         \* ids called for the event, in order
    owed            \* ids that were there for it when it came, less the removed;
                    \* none any more when an entry the loop has passed is removed

vars == <<list, nextId, loop, called, owed>>

Entry == [id : 1..MaxId, cb : Cb, ev : Event \cup {Any}]
NoLoop == [at |-> "idle", ev |-> Any, i |-> 0]

TypeOK ==
    /\ list \in Seq(Entry) /\ nextId \in 1..MaxId + 1
    /\ loop \in [at : {"idle", "scan", "calling"}, ev : Event \cup {Any},
                 i : 0..MaxId + 1]
    /\ called \in Seq(1..MaxId) /\ owed \subseteq 1..MaxId

Init ==
    /\ list = <<>> /\ nextId = 1 /\ loop = NoLoop
    /\ called = <<>> /\ owed = {}

OnEvent ==          \* onEvent for each of the three kinds of function
    /\ nextId <= MaxId /\ nextId' = nextId + 1
    /\ \E c \in Cb, v \in Event \cup {Any} :
        list' = Append(list, [id |-> nextId, cb |-> c, ev |-> v])
    /\ UNCHANGED <<loop, called, owed>>

\* Which entries the erase loop of removeEvent erases: what moves into the place
\* of an erased entry is not looked at.
Gone(hit) ==
    LET gone[i \in 1..Len(list)] == i \in hit /\ (i = 1 \/ ~gone[i - 1]) IN gone

\* The first entry the loop will still look at.
Ahead == IF loop.at = "calling" THEN loop.i + 1 ELSE loop.i

Remove(hit) ==      \* what is not erased moves up, in order
    LET gone == Gone(hit)
        kept == {i \in 1..Len(list) : ~gone[i]}
        erased == 1..Len(list) \ kept IN
    /\ hit # {}
    /\ \E place \in [1..Cardinality(kept) -> kept] :
        /\ \A j, k \in DOMAIN place : j < k => place[j] < place[k]
        /\ list' = [k \in DOMAIN place |-> list[place[k]]]
    /\ owed' = IF \E i \in erased : i < Ahead THEN {} ELSE owed \ {list[i].id : i \in erased}
    /\ UNCHANGED <<nextId, loop, called>>

Hits(c, v) == {i \in DOMAIN list : list[i].cb = c /\ list[i].ev = v}
RemoveCallback(c, v) == Remove(Hits(c, v))                  \* removeEvent(cbEvent, event)
RemoveId == \E i \in DOMAIN list : Remove({i})              \* removeEvent(id)

(***************************************************************************)
(* The loop of _eventCallback.                                             *)
(***************************************************************************)
Dispatch(v) ==
    /\ loop.at = "idle"
    /\ loop' = [NoLoop EXCEPT !.at = "scan", !.ev = v, !.i = 1]
    /\ owed' = {list[i].id : i \in {j \in DOMAIN list : list[j].ev \in {v, Any}}}
    /\ UNCHANGED <<list, nextId, called>>

\* Wrong: the loop goes back when the list has become shorter.
After_Back(i) == IF i > Len(list) THEN 1 ELSE i + 1

After(i) == i + 1

Scan ==             \* an entry that matches is copied and called
    /\ loop.at = "scan" /\ loop.i <= Len(list)
    /\ LET e == list[loop.i] IN
       IF e.ev \in {loop.ev, Any}
       THEN loop' = [loop EXCEPT !.at = "calling"] /\ called' = Append(called, e.id)
       ELSE loop' = [loop EXCEPT !.i = After(@)] /\ UNCHANGED called
    /\ UNCHANGED <<list, nextId, owed>>

CallbackReturns ==
    /\ loop.at = "calling" /\ loop' = [loop EXCEPT !.at = "scan", !.i = After(@)]
    /\ UNCHANGED <<list, nextId, called, owed>>

Handled ==
    /\ loop.at = "scan" /\ loop.i > Len(list) /\ loop' = NoLoop
    /\ called' = <<>> /\ owed' = {} /\ UNCHANGED <<list, nextId>>

Change == OnEvent \/ RemoveId \/ \E c \in Cb, v \in Event \cup {Any} : RemoveCallback(c, v)
Loop == Scan \/ CallbackReturns \/ Handled
Next == Change \/ Loop \/ \E v \in Event : Dispatch(v)
===============================================================================
