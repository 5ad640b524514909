------------------------------- MODULE EventTask -------------------------------
(***************************************************************************)
(* The event task runs the callbacks, and a callback may resolve a name    *)
(* while the sketch resolves another: EventCallbacks and HostNames         *)
(* together.  A callback returns when its resolution has.                  *)
(***************************************************************************)
EXTENDS Naturals, Sequences, FiniteSets

CONSTANTS Cb, Event, Any, MaxId
Task == {"sketch", "event"}

ASSUME EventTaskAssumption == Any \notin Event /\ MaxId \in Nat \ {0}

VARIABLES list, nextId, loop, called, owed,
          bits, at, result, request, stale, late, overlapped

Callbacks == INSTANCE EventCallbacks
Names == INSTANCE HostNames

callbackVars == <<list, nextId, loop, called, owed>>
nameVars == <<bits, at, result, request, stale, late, overlapped>>
vars == <<callbackVars, nameVars>>

TypeOK == Callbacks!TypeOK /\ Names!TypeOK
Init == Callbacks!Init /\ Names!Init

Change == Callbacks!Change /\ UNCHANGED nameVars
Comes == \E v \in Event : Callbacks!Dispatch(v) /\ UNCHANGED nameVars
Loop == Callbacks!Loop /\ at["event"] = "out" /\ UNCHANGED nameVars
Resolve(t) ==
    /\ t = "event" => loop.at = "calling"
    /\ Names!Call(t) /\ UNCHANGED callbackVars
Resolving(t) == Names!Step(t) /\ UNCHANGED callbackVars
Lwip == Names!Lwip /\ UNCHANGED callbackVars

Next == Change \/ Comes \/ Loop \/ Lwip \/ \E t \in Task : Resolve(t) \/ Resolving(t)

\* The scheduler runs a task that can run, lwIP answers what it was asked, and
\* a callback resolves a bounded number of names, so that it returns.
Fairness ==
    /\ SF_vars(Loop) /\ WF_vars(Lwip)
    /\ \A t \in Task : WF_vars(Resolving(t))
Spec == Init /\ [][Next]_vars
FairSpec == Spec /\ Fairness
===============================================================================
