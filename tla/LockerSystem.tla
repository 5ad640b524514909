----------------------------- MODULE LockerSystem -----------------------------
(***************************************************************************)
(* The server together with the programs of the repository that talk to   *)
(* it: client.py (one connection per item of its messages), client.c (one  *)
(* word, then a blocking read for the answer) and locker.ino on the ESP32  *)
(* (poll, wait up to five seconds for an answer, poll again).              *)
(***************************************************************************)
EXTENDS LockerServer, FiniteSets

CONSTANTS
    Python,         \* running copies of client.py
    Program,        \* the words each of them sends, in order
    CClients,       \* running copies of client.c
    CWord,          \* argv[3] of each of them; strlen() stops before a "\0"
    Esp             \* the locker's device; not in Client when it is off

ASSUME SystemAssumption ==
    /\ Python \subseteq Client /\ CClients \subseteq Client
    /\ Python \cap CClients = {}
    /\ Esp \notin Python \cup CClients
    /\ Program \in [Python -> Seq(Word \cup {Empty}) \ {<<>>}]
    /\ CWord \in [CClients -> (Word \ {Nul}) \cup {Empty}]
    /\ Esp \in Client => Locker \in Word

VARIABLES
    at,             \* the item each copy of client.py sends next
    py,             \* where each copy of client.py is
    cc,             \* where each copy of client.c is
    esp             \* where the device is

vars == <<serverVars, at, py, cc, esp>>

EspPhase == {"setup", "setupPrint", "setupWait", "connect", "print", "wait",
             "blink"}

SystemTypeOK ==
    /\ TypeOK
    /\ at \in [Python -> Nat]
    /\ py \in [Python -> {"connect", "send", "done", "failed"}]
    /\ cc \in [CClients -> {"connect", "send", "wait", "done", "failed"}]
    /\ esp \in EspPhase

SystemInit ==
    /\ Init
    /\ at = [p \in Python |-> 1]
    /\ py = [p \in Python |-> "connect"]
    /\ cc = [c \in CClients |-> "connect"]
    /\ esp = "setup"

-----------------------------------------------------------------------------
(* client.py *)

PyConnect(p) ==
    /\ py[p] = "connect"
    /\ Connect(p)
    /\ py' = [py EXCEPT ![p] = "send"]
    /\ UNCHANGED <<at, cc, esp>>

\* s.send(str(message[i]).encode()) and s.close().
PySend(p) ==
    /\ py[p] = "send"
    /\ Send(p, Program[p][at[p]], FALSE)
    /\ at' = [at EXCEPT ![p] = @ + 1]
    /\ py' = [py EXCEPT ![p] = IF at[p] = Len(Program[p]) THEN "done"
                               ELSE "connect"]
    /\ UNCHANGED <<cc, esp>>

\* connect() is refused, or is not answered while the backlog stays full; the
\* exception ends the script in the middle of its messages.
PyFail(p) ==
    /\ \/ py[p] = "connect" /\ (pc = "down" \/ Len(backlog) = Backlog)
       \/ py[p] = "send" /\ pc = "down"
    /\ py' = [py EXCEPT ![p] = "failed"]
    /\ UNCHANGED <<serverVars, at, cc, esp>>

-----------------------------------------------------------------------------
(* client.c *)

CConnect(c) ==
    /\ cc[c] = "connect"
    /\ Connect(c)
    /\ cc' = [cc EXCEPT ![c] = "send"]
    /\ UNCHANGED <<at, py, esp>>

\* send() of the command; with an empty command nothing travels, and the
\* connection is not closed either.
CSend(c) ==
    /\ cc[c] = "send"
    /\ IF CWord[c] = Empty THEN UNCHANGED serverVars ELSE Send(c, CWord[c], TRUE)
    /\ cc' = [cc EXCEPT ![c] = "wait"]
    /\ UNCHANGED <<at, py, esp>>

\* read() returns: an answer, or the server is gone.
CReturn(c) ==
    /\ cc[c] = "wait"
    /\ inbox[c] # {} \/ pc = "down"
    /\ cc' = [cc EXCEPT ![c] = "done"]
    /\ HangUp(c)
    /\ UNCHANGED <<at, py, esp>>

CFail(c) ==
    /\ \/ cc[c] = "connect" /\ (pc = "down" \/ Len(backlog) = Backlog)
       \/ cc[c] = "send" /\ pc = "down"
    /\ cc' = [cc EXCEPT ![c] = "failed"]
    /\ UNCHANGED <<serverVars, at, py, esp>>

-----------------------------------------------------------------------------
(* locker.ino *)

EspOn == Esp \in Client

\* client.connect() in setup and in loop; a failed attempt is repeated.
EspConnect ==
    /\ EspOn
    /\ esp \in {"setup", "connect"}
    /\ Connect(Esp)
    /\ esp' = IF esp = "setup" THEN "setupPrint" ELSE "print"
    /\ UNCHANGED <<at, py, cc>>

\* client.print("ESP32-LOCKER"); its result is not looked at.
EspPrint ==
    /\ esp \in {"setupPrint", "print"}
    /\ IF pc = "down" THEN UNCHANGED serverVars ELSE Send(Esp, Locker, TRUE)
    /\ esp' = IF esp = "setupPrint" THEN "setupWait" ELSE "wait"
    /\ UNCHANGED <<at, py, cc>>

\* setup ends after five seconds without reading; the local WiFiClient closes.
EspSetupDone ==
    /\ esp = "setupWait"
    /\ HangUp(Esp)
    /\ esp' = "connect"
    /\ UNCHANGED <<at, py, cc>>

\* readResponse: the five seconds are over and available() is still zero.
EspTimeout ==
    /\ esp = "wait"
    /\ inbox[Esp] = {}
    /\ HangUp(Esp)
    /\ esp' = "connect"
    /\ UNCHANGED <<at, py, cc>>

\* readResponse: an answer has come; "cmd" blinks the LEDs.
EspRead ==
    /\ esp = "wait"
    /\ inbox[Esp] # {}
    /\ esp' = IF inbox[Esp] = {"cmd"} THEN "blink" ELSE "connect"
    /\ HangUp(Esp)
    /\ UNCHANGED <<at, py, cc>>

EspBlinked ==
    /\ esp = "blink"
    /\ esp' = "connect"
    /\ UNCHANGED <<serverVars, at, py, cc>>

-----------------------------------------------------------------------------
PyStep(p) == PyConnect(p) \/ PySend(p) \/ PyFail(p)
CStep(c) == CConnect(c) \/ CSend(c) \/ CReturn(c) \/ CFail(c)
EspStep == EspConnect \/ EspPrint \/ EspSetupDone \/ EspTimeout \/ EspRead
             \/ EspBlinked

Serve == ServerStep /\ UNCHANGED <<at, py, cc, esp>>

SystemNext ==
    \/ Serve
    \/ \E p \in Python : PyStep(p)
    \/ \E c \in CClients : CStep(c)
    \/ EspStep

SystemSpec == SystemInit /\ [][SystemNext]_vars
=============================================================================
