------------------------------- MODULE WiFiRadio -------------------------------
(***************************************************************************)
(* The radio's mode: WiFi.mode() and what calls it (enableSTA, enableAP,   *)
(* begin, softAP, softAPdisconnect), the flags lowLevelInitDone and        *)
(* _esp_wifi_started, and the started bits.  Two tasks make the calls: the *)
(* sketch, and the event task, which begins again when a connection is     *)
(* lost.  No lock orders them: each test or write of a flag and each call  *)
(* of the driver is a step of its own, but a call of the driver and the    *)
(* write of a flag behind it are one, and so is getMode().                 *)
(*                                                                         *)
(* The driver is external: it is none, initialised or started, reports     *)
(* which interfaces came up and went, and may refuse any call.             *)
(***************************************************************************)
EXTENDS Naturals, Sequences, FiniteSets

CONSTANTS
    Config,         \* access point configurations of the sketch
    Persistent,     \* WiFi.persistent(): the driver's storage is left alone
    MaxQueue        \* events the queue keeps before the sketch's next call

ASSUME RadioAssumption == Persistent \in BOOLEAN /\ MaxQueue \in Nat /\ "blank" \notin Config

Iface == {"sta", "ap"}
Task == {"sketch", "event"}

VARIABLES
    low,            \* lowLevelInitDone
    started,        \* _esp_wifi_started
    drv,            \* of the driver: its state, its mode, its access point configuration
    queue,          \* events for the event task
    bits,           \* STA_STARTED_BIT, AP_STARTED_BIT
    call,           \* of each task: the call it makes and where it is in it
    raced,          \* calls of the two tasks have overlapped
    refused         \* set_storage was refused: the driver is initialised and low is FALSE

vars == <<low, started, drv, queue, bits, call, raced, refused>>

NoCall == [at |-> "idle", op |-> "mode", i |-> "sta", goal |-> {}, conf |-> "blank",
           was |-> {}, answer |-> FALSE]
Busy(t) == call[t].at # "idle"
Radio == IF drv.state = "started" THEN drv.mode ELSE {}

TypeOK ==
    /\ {low, started, raced, refused} \subseteq BOOLEAN
    /\ drv \in [state : {"none", "init", "started"}, mode : SUBSET Iface,
                conf : Config \cup {"blank"}]
    /\ queue \in Seq([what : {"start", "stop", "lost"}, i : Iface])
    /\ bits \subseteq Iface
    /\ call \in [Task -> [
            at : {"idle", "enable", "mode", "init", "initset", "initdrv", "storage", "ready",
                  "set", "start", "startset", "startdrv", "stop", "stopset", "stopdrv",
                  "deinit", "config", "blank", "done"},
            op : {"mode", "on", "off", "softap", "apoff", "blank"}, i : Iface,
            goal : SUBSET Iface, conf : Config \cup {"blank"}, was : SUBSET Iface,
            answer : BOOLEAN]]

Init ==
    /\ low = FALSE /\ started = FALSE /\ queue = <<>> /\ bits = {}
    /\ drv = [state |-> "none", mode |-> {}, conf |-> "blank"]
    /\ call = [t \in Task |-> NoCall] /\ raced = FALSE /\ refused = FALSE

(***************************************************************************)
(* Moves of a call.                                                        *)
(***************************************************************************)
At(t, a) == call[t].at = a
Goto(t, a) == call' = [call EXCEPT ![t].at = a]

Done(t, b) == call' = [call EXCEPT ![t].at = "done", ![t].answer = b]

\* mode() or enable answers b: softAP() goes on, softAPdisconnect() compares
\* the answer with ESP_OK, which is 0.
Answer(t, b) ==
    LET op == call[t].op IN
    IF op = "softap" /\ b THEN Goto(t, "config") ELSE Done(t, b # (op = "apoff"))

\* The events of interfaces that go and come up.
EventOf(i, S, w) == IF i \in S THEN << [what |-> w, i |-> i] >> ELSE <<>>
EventsOf(S, w) == EventOf("sta", S, w) \o EventOf("ap", S, w)
Report(from, to) == queue' = queue \o EventsOf(from \ to, "stop") \o EventsOf(to \ from, "start")

\* getMode(), whose two flags and driver are read in one step.
Mode == IF low /\ started /\ drv.state # "none" THEN drv.mode ELSE {}

Begin(t, c) ==
    /\ ~Busy(t)
    /\ call' = [call EXCEPT ![t] = c]
    /\ raced' = (raced \/ \E u \in Task : Busy(u))

Ask(c) ==           \* the sketch calls
    /\ Len(queue) <= MaxQueue /\ Begin("sketch", [c EXCEPT !.was = Radio])
    /\ UNCHANGED <<low, started, drv, queue, bits, refused>>

\* mode(m), enableSTA, enableAP, softAP and softAPdisconnect (wifioff or not).
Request ==
    \/ \E m \in SUBSET Iface : Ask([NoCall EXCEPT !.at = "mode", !.goal = m])
    \/ \E i \in Iface, op \in {"on", "off"} : Ask([NoCall EXCEPT !.at = "enable", !.op = op, !.i = i])
    \/ \E c \in Config : Ask([NoCall EXCEPT !.at = "enable", !.op = "softap", !.i = "ap", !.conf = c])
    \/ \E op \in {"apoff", "blank"} : Ask([NoCall EXCEPT !.at = "blank", !.op = op, !.i = "ap"])

\* Wrong: enabling an interface forgets the other one.
Want_Only(i, on, m) == IF on THEN {i} ELSE m \ {i}

Want(i, on, m) == IF on THEN m \cup {i} ELSE m \ {i}

Enable(t) ==
    LET want == Want(call[t].i, call[t].op \in {"on", "softap"}, Mode) IN
    /\ At(t, "enable")
    /\ IF want = Mode THEN Answer(t, TRUE)
       ELSE call' = [call EXCEPT ![t].at = "mode", ![t].goal = want]
    /\ UNCHANGED <<low, started, drv, queue, bits, raced, refused>>

ModeCall(t) ==
    LET m == call[t].goal IN
    /\ At(t, "mode")
    /\ IF Mode = m THEN Answer(t, TRUE)
       ELSE Goto(t, IF Mode = {} THEN "init" ELSE IF m = {} THEN "stop" ELSE "set")
    /\ UNCHANGED <<low, started, drv, queue, bits, raced, refused>>

(***************************************************************************)
(* wifiLowLevelInit(), with tcpipInit().                                   *)
(***************************************************************************)
InitCheck(t) ==
    /\ At(t, "init") /\ Goto(t, IF low THEN "ready" ELSE "initset")
    /\ UNCHANGED <<low, started, drv, queue, bits, raced, refused>>

InitSet(t) ==
    /\ At(t, "initset") /\ low' = TRUE /\ Goto(t, "initdrv")
    /\ UNCHANGED <<started, drv, queue, bits, raced, refused>>

InitDriver(t) ==
    /\ At(t, "initdrv")
    /\ \/ low' = FALSE /\ Answer(t, FALSE) /\ UNCHANGED drv
       \/ /\ drv' = [drv EXCEPT !.state = IF @ = "none" THEN "init" ELSE @]
          /\ Goto(t, IF Persistent THEN "ready" ELSE "storage") /\ UNCHANGED low
    /\ UNCHANGED <<started, queue, bits, raced, refused>>

SetStorage(t) ==
    /\ At(t, "storage") /\ Goto(t, "ready")
    /\ \E b \in BOOLEAN : low' = b /\ refused' = (refused \/ ~b)
    /\ UNCHANGED <<started, drv, queue, bits, raced>>

InitAnswer(t) ==
    /\ At(t, "ready") /\ IF low THEN Goto(t, "set") ELSE Answer(t, FALSE)
    /\ UNCHANGED <<low, started, drv, queue, bits, raced, refused>>

(***************************************************************************)
(* mode(): set the mode, then espWiFiStart().  It may have been set when   *)
(* FALSE is answered: long range is asked for behind it.                   *)
(***************************************************************************)
SetMode(t) ==
    /\ At(t, "set")
    /\ \/ Answer(t, FALSE) /\ UNCHANGED <<drv, queue>>
       \/ /\ drv.state # "none" /\ drv' = [drv EXCEPT !.mode = call[t].goal]
          /\ Report(Radio, Radio')
          /\ Goto(t, "start") \/ Answer(t, FALSE)
    /\ UNCHANGED <<low, started, bits, raced, refused>>

StartCheck(t) ==
    /\ At(t, "start") /\ IF started THEN Answer(t, TRUE) ELSE Goto(t, "startset")
    /\ UNCHANGED <<low, started, drv, queue, bits, raced, refused>>

StartSet(t) ==
    /\ At(t, "startset") /\ started' = TRUE /\ Goto(t, "startdrv")
    /\ UNCHANGED <<low, drv, queue, bits, raced, refused>>

\* Wrong: a start that failed leaves the flag set.
AfterStart_Set(ok) == TRUE

AfterStart(ok) == started /\ ok

StartDriver(t) ==
    /\ At(t, "startdrv")
    /\ \E ok \in BOOLEAN :
        /\ ok => drv.state # "none"
        /\ drv' = IF ok THEN [drv EXCEPT !.state = "started"] ELSE drv
        /\ Report(Radio, Radio') /\ started' = AfterStart(ok) /\ Answer(t, ok /\ started)
    /\ UNCHANGED <<low, bits, raced, refused>>

(***************************************************************************)
(* espWiFiStop() and wifiLowLevelDeinit().                                 *)
(***************************************************************************)
StopCheck(t) ==
    /\ At(t, "stop") /\ IF started THEN Goto(t, "stopset") ELSE Answer(t, TRUE)
    /\ UNCHANGED <<low, started, drv, queue, bits, raced, refused>>

StopSet(t) ==
    /\ At(t, "stopset") /\ started' = FALSE /\ Goto(t, "stopdrv")
    /\ UNCHANGED <<low, drv, queue, bits, raced, refused>>

StopDriver(t) ==
    /\ At(t, "stopdrv")
    /\ \/ started' = TRUE /\ Answer(t, FALSE) /\ UNCHANGED <<drv, queue>>
       \/ /\ drv.state # "none" /\ drv' = [drv EXCEPT !.state = "init"]
          /\ Report(Radio, {}) /\ Goto(t, "deinit") /\ UNCHANGED started
    /\ UNCHANGED <<low, bits, raced, refused>>

Deinit(t) ==        \* refused while the driver is started
    /\ At(t, "deinit")
    /\ \/ ~low /\ Answer(t, TRUE) /\ UNCHANGED <<low, drv>>
       \/ low /\ Answer(t, FALSE) /\ UNCHANGED <<low, drv>>
       \/ /\ low /\ drv.state = "init" /\ drv' = [drv EXCEPT !.state = "none"]
          /\ low' = FALSE /\ Answer(t, TRUE)
    /\ UNCHANGED <<started, queue, bits, raced, refused>>

(***************************************************************************)
(* The access point: softAP() behind enableAP(true), softAPdisconnect()    *)
(* before enableAP(false).                                                 *)
(***************************************************************************)
SetConfig(t) ==
    /\ At(t, "config")
    /\ \/ Done(t, FALSE) /\ UNCHANGED drv
       \/ /\ drv.state # "none" /\ drv' = [drv EXCEPT !.conf = call[t].conf] /\ Done(t, TRUE)
    /\ UNCHANGED <<low, started, queue, bits, raced, refused>>

BlankConfig(t) ==
    /\ At(t, "blank")
    /\ \/ Done(t, FALSE) /\ UNCHANGED drv
       \/ /\ Mode # {} /\ drv' = [drv EXCEPT !.conf = "blank"]
          /\ IF call[t].op = "apoff" THEN Goto(t, "enable") ELSE Done(t, TRUE)
    /\ UNCHANGED <<low, started, queue, bits, raced, refused>>

Return(t) ==
    /\ At(t, "done") /\ call' = [call EXCEPT ![t] = NoCall]
    /\ UNCHANGED <<low, started, drv, queue, bits, raced, refused>>

(***************************************************************************)
(* The event task, and the driver that loses the connection.               *)
(***************************************************************************)
\* Wrong: an interface that went leaves its bit.
BitsAfter_Keeps(e, b) == IF e.what = "start" THEN b \cup {e.i} ELSE b

BitsAfter(e, b) ==
    IF e.what = "start" THEN b \cup {e.i} ELSE IF e.what = "stop" THEN b \ {e.i} ELSE b

HandleEvent ==      \* begin() again, or not
    /\ queue # <<>> /\ ~Busy("event")
    /\ queue' = Tail(queue) /\ bits' = BitsAfter(Head(queue), bits)
    /\ \/ UNCHANGED <<call, raced>>
       \/ /\ Head(queue).what = "lost"
          /\ Begin("event", [NoCall EXCEPT !.at = "enable", !.op = "on", !.was = Radio])
    /\ UNCHANGED <<low, started, drv, refused>>

Lost ==
    /\ "sta" \in Radio /\ Len(queue) <= MaxQueue
    /\ queue' = Append(queue, [what |-> "lost", i |-> "sta"])
    /\ UNCHANGED <<low, started, drv, bits, call, raced, refused>>

Step(t) ==
    \/ Enable(t) \/ ModeCall(t) \/ InitCheck(t) \/ InitSet(t) \/ InitDriver(t)
    \/ SetStorage(t) \/ InitAnswer(t) \/ SetMode(t) \/ StartCheck(t) \/ StartSet(t)
    \/ StartDriver(t) \/ StopCheck(t) \/ StopSet(t) \/ StopDriver(t) \/ Deinit(t) \/ SetConfig(t) \/ BlankConfig(t) \/ Return(t)
Next == Request \/ HandleEvent \/ Lost \/ \E t \in Task : Step(t)

Spec == Init /\ [][Next]_vars
===============================================================================
