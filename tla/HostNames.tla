------------------------------- MODULE HostNames -------------------------------
(***************************************************************************)
(* WiFiGenericClass::hostByName.  Tasks take turns by a bit of the event   *)
(* group, WIFI_DNS_IDLE_BIT, and lwIP's callback tells them by another,    *)
(* WIFI_DNS_DONE_BIT; waiting for a bit does not take it.  Setting a bit   *)
(* wakes whoever waits for it, whatever becomes of the bit afterwards.     *)
(*                                                                         *)
(* lwIP is external: it knows a name at once, or answers within 14         *)
(* seconds, before the 15 of the wait are over, or refuses to ask.  The    *)
(* wait for WIFI_DNS_IDLE_BIT may run out at any time: how long the task   *)
(* that has the turn is kept from running is not bounded.                  *)
(***************************************************************************)
EXTENDS Naturals, FiniteSets

CONSTANT Task       \* two tasks at most

VARIABLES
    bits,           \* WIFI_DNS_IDLE_BIT, WIFI_DNS_DONE_BIT
    at,             \* where each task is in hostByName
    result,         \* aResult is an address
    request,        \* of each task's running call: lwIP has it; and what lwIP said
    stale,          \* tasks whose call returned before lwIP answered it
    overlapped,     \* two tasks were past the first wait together
    late            \* before that, lwIP wrote to the aResult of a call that had returned

vars == <<bits, at, result, request, stale, late, overlapped>>

NoRequest == [pending |-> FALSE, said |-> FALSE]

TypeOK ==
    /\ bits \subseteq {"IDLE", "DONE"}
    /\ at \in [Task -> {"out", "wait", "clear", "ask", "asked", "waiting", "woken", "leave"}]
    /\ result \in [Task -> BOOLEAN] /\ stale \subseteq Task /\ {late, overlapped} \subseteq BOOLEAN
    /\ request \in [Task -> [pending : BOOLEAN, said : BOOLEAN]]

Init ==
    /\ bits = {"IDLE"} /\ at = [t \in Task |-> "out"] /\ result = [t \in Task |-> FALSE]
    /\ request = [t \in Task |-> NoRequest]
    /\ stale = {} /\ late = FALSE /\ overlapped = FALSE

Inside(f) == {t \in Task : f[t] \notin {"out", "wait"}}
Enter(f) == at' = f /\ overlapped' = (overlapped \/ Cardinality(Inside(f)) > 1)
Goto(t, a) == at' = [at EXCEPT ![t] = a] /\ UNCHANGED overlapped

\* Setting a bit moves those who wait for it on.
SetIdle(f) == [u \in Task |-> IF f[u] = "wait" THEN "clear" ELSE f[u]]
SetDone == at' = [u \in Task |-> IF at[u] = "waiting" THEN "woken" ELSE at[u]]

Call(t) ==
    /\ at[t] = "out"
    /\ Enter([at EXCEPT ![t] = IF "IDLE" \in bits THEN "clear" ELSE "wait"])
    /\ UNCHANGED <<bits, result, request, stale, late>>

IdleTimesOut(t) ==      \* nobody looks whether the bit came
    /\ at[t] = "wait" /\ Enter([at EXCEPT ![t] = "clear"])
    /\ UNCHANGED <<bits, result, request, stale, late>>

Clear(t) ==
    /\ at[t] = "clear" /\ bits' = bits \ {"IDLE", "DONE"} /\ Goto(t, "ask")
    /\ UNCHANGED <<result, request, stale, late>>

Ask(t) ==
    /\ at[t] = "ask"
    /\ \/ \E b \in BOOLEAN :        \* ERR_OK, or an error
            /\ result' = [result EXCEPT ![t] = b] /\ Goto(t, "leave")
            /\ request' = [request EXCEPT ![t].said = b]
       \/ /\ request' = [request EXCEPT ![t].pending = TRUE]
          /\ Goto(t, "asked") /\ UNCHANGED result
    /\ UNCHANGED <<bits, stale, late>>

Wait(t) ==
    /\ at[t] = "asked" /\ Goto(t, IF "DONE" \in bits THEN "woken" ELSE "waiting")
    /\ UNCHANGED <<bits, result, request, stale, late>>

\* Wrong: the wait is shorter than lwIP's.
WaitTimesOut_Early(t) ==
    /\ at[t] = "waiting" /\ Goto(t, "woken")
    /\ UNCHANGED <<bits, result, request, stale, late>>

\* Wrong: the wait has no end of its own.
WaitTimesOut_Never(t) ==
    at[t] = "waiting" /\ "DONE" \in bits /\ Goto(t, "woken")
        /\ UNCHANGED <<bits, result, request, stale, late>>

WaitTimesOut(t) ==      \* only after lwIP's own 14 seconds
    /\ at[t] = "waiting" /\ ~request[t].pending /\ Goto(t, "woken")
    /\ UNCHANGED <<bits, result, request, stale, late>>

ClearDone(t) ==
    /\ at[t] = "woken" /\ bits' = bits \ {"DONE"} /\ Goto(t, "leave")
    /\ UNCHANGED <<result, request, stale, late>>

Leave(t) ==
    /\ at[t] = "leave" /\ bits' = bits \cup {"IDLE"}
    /\ Enter(SetIdle([at EXCEPT ![t] = "out"]))
    /\ stale' = IF request[t].pending THEN stale \cup {t} ELSE stale
    /\ request' = [request EXCEPT ![t] = NoRequest] /\ result' = [result EXCEPT ![t] = FALSE]
    /\ UNCHANGED late

\* wifi_dns_found_callback, on the task of lwIP.
Found(t) ==
    /\ request[t].pending
    /\ \E b \in BOOLEAN :
        /\ result' = [result EXCEPT ![t] = @ \/ b]
        /\ request' = [request EXCEPT ![t] = [pending |-> FALSE, said |-> b]]
    /\ bits' = bits \cup {"DONE"} /\ SetDone
    /\ UNCHANGED <<stale, late, overlapped>>

FoundLate(t) ==         \* for a call that has returned
    /\ t \in stale /\ stale' = stale \ {t}
    /\ \E b \in BOOLEAN : late' = (late \/ (b /\ ~overlapped))
    /\ bits' = bits \cup {"DONE"} /\ SetDone
    /\ UNCHANGED <<result, request, overlapped>>

Step(t) ==
    \/ IdleTimesOut(t) \/ Clear(t) \/ Ask(t) \/ Wait(t)
    \/ WaitTimesOut(t) \/ ClearDone(t) \/ Leave(t)
Lwip == \E t \in Task : Found(t) \/ FoundLate(t)
Next == Lwip \/ \E t \in Task : Call(t) \/ Step(t)
===============================================================================
