---------------------------- MODULE WiFiRadioProofs ----------------------------
(***************************************************************************)
(* The radio, whatever the driver refuses: the started bits follow it in   *)
(* whatever order the two tasks switch it, and as long as their calls do   *)
(* not overlap the flags are right and a call that answers TRUE has done   *)
(* what it was asked for.                                                  *)
(***************************************************************************)
EXTENDS WiFiRadioProperties, SequenceTheorems, TLAPS

States == {"none", "init", "started"}
Places == {"idle", "enable", "mode", "init", "initset", "initdrv", "storage", "ready", "set",
           "start", "startset", "startdrv", "stop", "stopset", "stopdrv", "deinit", "config",
           "blank", "done"}
Ops == {"mode", "on", "off", "softap", "apoff", "blank"}
Modes == SUBSET Iface
Confs == Config \cup {"blank"}
Event == [what : {"start", "stop", "lost"}, i : Iface]
DriverType == [state : States, mode : Modes, conf : Confs]
CallType == [at : Places, op : Ops, i : Iface, goal : Modes, conf : Confs, was : Modes,
             answer : BOOLEAN]

(***************************************************************************)
(* The inductive invariant.                                                *)
(***************************************************************************)
\* Where a call has not touched the driver's mode, and where it has a mode to set.
Untouched == {"enable", "mode", "init", "initset", "initdrv", "storage", "ready", "set", "stop",
              "stopset", "stopdrv", "blank"}
Switching == {"mode", "init", "initset", "initdrv", "storage", "ready", "set", "start",
              "startset", "startdrv", "stop", "stopset", "stopdrv", "deinit"}

\* _esp_wifi_started says what the driver is, except that espWiFiStart() and
\* espWiFiStop() write it ahead of the driver.
Flags(a) ==
    /\ a = "startset" => ~started
    /\ a = "stopset" => started
    /\ a = "startdrv" => started /\ drv.state # "started"
    /\ a = "stopdrv" => ~started /\ drv.state = "started"
    /\ a \notin {"startdrv", "stopdrv"} => (started <=> drv.state = "started")

\* lowLevelInitDone says what the driver is, except that wifiLowLevelInit()
\* writes it ahead of the driver; a driver that is started was initialised.
Levels(a) ==
    /\ drv.state = "started" => low /\ drv.mode # {}
    /\ low /\ a # "initdrv" => drv.state # "none"
    /\ a = "initset" => ~low
    /\ a \in {"init", "initset", "initdrv", "storage"} => drv.state # "started"
    /\ a \in {"initdrv", "storage", "set", "start", "startset", "startdrv"} => low
    /\ (a = "initdrv" \/ ~low) /\ ~refused => drv.state = "none"

\* The mode a call is after, of the one it found.
Goal(c) ==
    IF c.op = "mode" THEN c.goal
    ELSE IF c.op \in {"on", "softap"} THEN c.was \cup {c.i}
    ELSE c.was \ {c.i}

\* What the answer TRUE promises.
Promise(c) ==
    /\ c.op \in {"mode", "on", "off", "softap"} => Radio = Goal(c)
    /\ c.op = "softap" => drv.conf = c.conf
    /\ c.op \in {"apoff", "blank"} => drv.conf = "blank"
    /\ c.op = "apoff" => Radio \ {"ap"} = c.was \ {"ap"}
    /\ c.op = "blank" => Radio = c.was

\* How far a call has come.
Progress(c) ==
    LET a == c.at IN
    /\ c.op \in {"softap", "apoff", "blank"} => c.i = "ap"
    /\ c.op = "mode" => a \notin {"enable", "config", "blank"}
    /\ c.op = "blank" => a \in {"blank", "done"}
    /\ a = "blank" => c.op \in {"apoff", "blank"}
    /\ a = "config" => c.op = "softap" /\ Radio = Goal(c)
    /\ a \in Untouched => Radio = c.was
    /\ a \in Switching => c.goal = Goal(c)
    /\ a \in {"start", "startset", "startdrv"} =>
        drv.mode = c.goal /\ (drv.state = "started" \/ c.was = {})
    /\ a \in {"init", "initset", "initdrv", "storage", "ready", "set", "start", "startset",
              "startdrv"} => c.goal # {}
    /\ a \in {"stop", "stopset", "stopdrv", "deinit"} => c.goal = {}
    /\ a = "deinit" => Radio = {}
    /\ c.op = "apoff" /\ a \in Switching \cup {"enable"} => drv.conf = "blank"
    /\ a = "done" /\ c.answer => Promise(c)

Running(t) == Flags(call[t].at) /\ Levels(call[t].at) /\ Progress(call[t])

\* As long as calls have not overlapped.
Alone ==
    /\ \A t, u \in Task : Busy(t) /\ Busy(u) => t = u
    /\ \A t \in Task : Busy(t) => Running(t)
    /\ Quiet => Flags("idle") /\ Levels("idle")

Inv == TypeOK /\ (~raced => Alone)

(***************************************************************************)
(* Types.                                                                  *)
(***************************************************************************)
LEMMA TypeParts ==
    TypeOK <=> /\ low \in BOOLEAN /\ started \in BOOLEAN /\ raced \in BOOLEAN
               /\ refused \in BOOLEAN /\ drv \in DriverType /\ queue \in Seq(Event)
               /\ bits \subseteq Iface /\ call \in [Task -> CallType]
<1>1. {low, started, raced, refused} \subseteq BOOLEAN <=>
         low \in BOOLEAN /\ started \in BOOLEAN /\ raced \in BOOLEAN /\ refused \in BOOLEAN
  OBVIOUS
<1> QED
  BY <1>1 DEF TypeOK, DriverType, States, Modes, Confs, Event, CallType, Places, Ops

\* What stays the same of a call while it goes on.
Same(c, d) == d.op = c.op /\ d.i = c.i /\ d.goal = c.goal /\ d.conf = c.conf /\ d.was = c.was

\* A call moves on.
LEMMA GotoEffect ==
    ASSUME TypeOK, NEW t \in Task, NEW a \in Places, Goto(t, a)
    PROVE  /\ call' \in [Task -> CallType]
           /\ call'[t].at = a /\ Same(call[t], call'[t])
           /\ \A u \in Task : u # t => call'[u] = call[u]
<1>1. call \in [Task -> CallType] /\ call[t] \in CallType
  BY TypeParts
<1> DEFINE d == [call[t] EXCEPT !.at = a]
<1>2. d \in CallType /\ d.at = a /\ Same(call[t], d)
  BY <1>1 DEF CallType, Same
<1>3. call' = [call EXCEPT ![t] = d]
  BY DEF Goto
<1> HIDE DEF d
<1> QED
  BY <1>1, <1>2, <1>3

\* Enabling an interface gives the call a mode to set.
LEMMA AskedEffect ==
    ASSUME TypeOK, NEW t \in Task, NEW m \in Modes,
           call' = [call EXCEPT ![t].at = "mode", ![t].goal = m]
    PROVE  /\ call' \in [Task -> CallType]
           /\ call'[t].at = "mode" /\ call'[t].goal = m /\ call'[t].op = call[t].op
           /\ call'[t].i = call[t].i /\ call'[t].was = call[t].was
           /\ \A u \in Task : u # t => call'[u] = call[u]
<1>1. call \in [Task -> CallType] /\ call[t] \in CallType /\ "mode" \in Places
  BY TypeParts DEF Places
<1> DEFINE d == [call[t] EXCEPT !.at = "mode", !.goal = m]
<1>2. /\ d \in CallType /\ d.at = "mode" /\ d.goal = m /\ d.op = call[t].op
      /\ d.i = call[t].i /\ d.was = call[t].was
  BY <1>1 DEF CallType
<1>3. call' = [call EXCEPT ![t] = d]
  BY <1>1
<1> HIDE DEF d
<1> QED
  BY <1>1, <1>2, <1>3

\* A call ends with an answer.
LEMMA DoneEffect ==
    ASSUME TypeOK, NEW t \in Task, NEW b \in BOOLEAN, Done(t, b)
    PROVE  /\ call' \in [Task -> CallType]
           /\ call'[t].at = "done" /\ call'[t].answer = b /\ Same(call[t], call'[t])
           /\ \A u \in Task : u # t => call'[u] = call[u]
<1>1. call \in [Task -> CallType] /\ call[t] \in CallType /\ "done" \in Places
  BY TypeParts DEF Places
<1> DEFINE d == [call[t] EXCEPT !.at = "done", !.answer = b]
<1>2. d \in CallType /\ d.at = "done" /\ d.answer = b /\ Same(call[t], d)
  BY <1>1 DEF CallType, Same
<1>3. call' = [call EXCEPT ![t] = d]
  BY <1>1 DEF Done
<1> HIDE DEF d
<1> QED
  BY <1>1, <1>2, <1>3

\* An answer ends the call, or lets softAP() go on.
Ends(c, d, b) ==
    /\ Same(c, d)
    /\ \/ d.at = "config" /\ c.op = "softap" /\ b
       \/ /\ d.at = "done" /\ (c.op = "softap" => ~b)
          /\ d.answer <=> (IF c.op = "apoff" THEN ~b ELSE b)

\* An answer ends the call, except that softAP goes on once the mode is set.
LEMMA AnswerEffect ==
    ASSUME TypeOK, NEW t \in Task, NEW b \in BOOLEAN, Answer(t, b)
    PROVE  /\ call' \in [Task -> CallType] /\ Ends(call[t], call'[t], b)
           /\ \A u \in Task : u # t => call'[u] = call[u]
<1> DEFINE op == call[t].op
<1>1. CASE op = "softap" /\ b
  BY <1>1, GotoEffect DEF Answer, Places, Ends
<1>2. CASE ~(op = "softap" /\ b)
  <2> DEFINE ans == b # (op = "apoff")
  <2>1. Done(t, ans) /\ ans \in BOOLEAN /\ (ans <=> (IF op = "apoff" THEN ~b ELSE b))
    BY <1>2 DEF Answer
  <2> HIDE DEF ans
  <2>2. /\ call' \in [Task -> CallType]
        /\ call'[t].at = "done" /\ call'[t].answer = ans /\ Same(call[t], call'[t])
        /\ \A u \in Task : u # t => call'[u] = call[u]
    BY <2>1, DoneEffect
  <2> QED
    BY <1>2, <2>1, <2>2 DEF Ends
<1> QED
  BY <1>1, <1>2

(***************************************************************************)
(* One call on its own.                                                    *)
(***************************************************************************)
LEMMA CallParts ==
    ASSUME TypeOK, NEW t \in Task
    PROVE  LET c == call[t] IN
           /\ c.at \in Places /\ c.op \in Ops /\ c.i \in Iface /\ c.goal \in Modes
           /\ c.conf \in Confs /\ c.was \in Modes /\ c.answer \in BOOLEAN
           /\ drv.state \in States /\ drv.mode \in Modes /\ drv.conf \in Confs
           /\ low \in BOOLEAN /\ started \in BOOLEAN /\ refused \in BOOLEAN
BY TypeParts DEF CallType, DriverType

\* Between two steps of the driver getMode() knows the driver's mode.
LEMMA ModeIsRadio ==
    ASSUME TypeOK, NEW a \in {"enable", "mode", "blank"}, Flags(a), Levels(a)
    PROVE  Mode = Radio
BY TypeParts DEF Mode, Radio, Flags, Levels, DriverType, States

\* The goal of a call stays, as long as it is the same call.
LEMMA GoalStays ==
    ASSUME NEW c, NEW d, Same(c, d)
    PROVE  Goal(d) = Goal(c)
BY DEF Same, Goal

(***************************************************************************)
(* Each step of a call keeps what its task has made true.                  *)
(***************************************************************************)
LEMMA InitCheckRuns ==
    ASSUME TypeOK, NEW t \in Task, Running(t), InitCheck(t)
    PROVE  Running(t)'
<1>1. PICK c \in CallType : c = call[t]
  BY TypeParts
<1>2. /\ c.at \in Places /\ c.op \in Ops /\ started \in BOOLEAN /\ low \in BOOLEAN
      /\ Flags(c.at) /\ Levels(c.at) /\ Progress(c)
  BY <1>1, CallParts DEF Running
<1>3. PICK d \in CallType : d = call'[t]
  BY <1>1, GotoEffect DEF InitCheck, Places
<1>4. /\ c.at = "init" /\ d.at = (IF low THEN "ready" ELSE "initset") /\ Same(c, d)
      /\ UNCHANGED <<low, started, drv, refused>>
  BY <1>1, <1>3, TypeParts, GotoEffect DEF InitCheck, At, Places, DriverType
<1>5. Goal(d) = Goal(c)
  BY <1>4, GoalStays DEF Ends
<1>6. Flags(d.at)'
  BY <1>2, <1>4 DEF Flags, Ends
<1>7. Levels(d.at)'
  BY <1>2, <1>4 DEF Levels, Ends
<1>8. Progress(d)'
  BY <1>2, <1>4, <1>5 DEF Progress, Goal, Promise, Radio, Same, Ends, Untouched, Switching
<1> QED
  BY <1>3, <1>6, <1>7, <1>8
     DEF Running, Flags, Levels, Progress, Goal, Promise, Radio

\* InitSet goes on with a call that is Running.
LEMMA InitSetRuns ==
    ASSUME TypeOK, NEW t \in Task, Running(t), InitSet(t)
    PROVE  Running(t)'
<1>1. PICK c \in CallType : c = call[t]
  BY TypeParts
<1>2. /\ c.at \in Places /\ c.op \in Ops /\ started \in BOOLEAN /\ low \in BOOLEAN
      /\ Flags(c.at) /\ Levels(c.at) /\ Progress(c)
  BY <1>1, CallParts DEF Running
<1>3. PICK d \in CallType : d = call'[t]
  BY <1>1, GotoEffect DEF InitSet, Places
<1>4. /\ c.at = "initset" /\ d.at = "initdrv" /\ Same(c, d) /\ low' = TRUE
      /\ UNCHANGED <<started, drv, refused>>
  BY <1>1, <1>3, TypeParts, GotoEffect DEF InitSet, At, Places, DriverType
<1>5. Goal(d) = Goal(c)
  BY <1>4, GoalStays
<1>6. Flags(d.at)'
  BY <1>2, <1>4 DEF Flags
<1>7. Levels(d.at)'
  BY <1>2, <1>4 DEF Levels
<1>8. Progress(d)'
  BY <1>2, <1>4, <1>5 DEF Progress, Goal, Promise, Radio, Same, Untouched, Switching, Flags
<1> QED
  BY <1>3, <1>6, <1>7, <1>8
     DEF Running, Flags, Levels, Progress, Goal, Promise, Radio

\* InitDriver goes on with a call that is Running, or answers it.
LEMMA InitDriverRuns ==
    ASSUME TypeOK, NEW t \in Task, Running(t), InitDriver(t)
    PROVE  Running(t)'
<1>1. PICK c \in CallType : c = call[t]
  BY TypeParts
<1>2. /\ c.at \in Places /\ c.op \in Ops /\ started \in BOOLEAN /\ low \in BOOLEAN
      /\ Flags(c.at) /\ Levels(c.at) /\ Progress(c)
  BY <1>1, CallParts DEF Running
<1>3. PICK d \in CallType : d = call'[t]
  BY <1>1, GotoEffect, AnswerEffect DEF InitDriver, Places
<1>4. /\ c.at = "initdrv" /\ UNCHANGED <<started, refused>>
      /\ \/ low' = FALSE /\ Ends(c, d, FALSE) /\ UNCHANGED drv
         \/ /\ low' = low /\ Same(c, d) /\ d.at \in {"ready", "storage"}
            /\ drv'.state = (IF drv.state = "none" THEN "init" ELSE drv.state)
            /\ drv'.mode = drv.mode /\ drv'.conf = drv.conf
  BY <1>1, <1>3, TypeParts, GotoEffect, AnswerEffect DEF InitDriver, At, Places, DriverType
<1>5. Goal(d) = Goal(c)
  BY <1>4, GoalStays DEF Ends
<1>6. Flags(d.at)'
  BY <1>2, <1>4 DEF Flags, Ends
<1>7. Levels(d.at)'
  BY <1>2, <1>4 DEF Levels, Ends
<1>8. Progress(d)'
  BY <1>2, <1>4, <1>5 DEF Progress, Goal, Promise, Radio, Same, Ends, Untouched, Switching
<1> QED
  BY <1>3, <1>6, <1>7, <1>8
     DEF Running, Flags, Levels, Progress, Goal, Promise, Radio

\* SetStorage goes on with a call that is Running, or answers it.
LEMMA SetStorageRuns ==
    ASSUME TypeOK, NEW t \in Task, Running(t), SetStorage(t)
    PROVE  Running(t)'
<1>1. PICK c \in CallType : c = call[t]
  BY TypeParts
<1>2. /\ c.at \in Places /\ c.op \in Ops /\ started \in BOOLEAN /\ low \in BOOLEAN
      /\ Flags(c.at) /\ Levels(c.at) /\ Progress(c)
  BY <1>1, CallParts DEF Running
<1>3. PICK d \in CallType : d = call'[t]
  BY <1>1, GotoEffect DEF SetStorage, Places
<1>4. /\ c.at = "storage" /\ d.at = "ready" /\ Same(c, d) /\ UNCHANGED <<started, drv>>
      /\ low' \in BOOLEAN /\ refused' = (refused \/ ~low')
  BY <1>1, <1>3, TypeParts, GotoEffect DEF SetStorage, At, Places, DriverType
<1>5. Goal(d) = Goal(c)
  BY <1>4, GoalStays DEF Ends
<1>6. Flags(d.at)'
  BY <1>2, <1>4 DEF Flags, Ends
<1>7. Levels(d.at)'
  BY <1>2, <1>4 DEF Levels, Ends
<1>8. Progress(d)'
  BY <1>2, <1>4, <1>5 DEF Progress, Goal, Promise, Radio, Same, Ends, Untouched, Switching
<1> QED
  BY <1>3, <1>6, <1>7, <1>8
     DEF Running, Flags, Levels, Progress, Goal, Promise, Radio

\* InitAnswer goes on with a call that is Running, or answers it.
LEMMA InitAnswerRuns ==
    ASSUME TypeOK, NEW t \in Task, Running(t), InitAnswer(t)
    PROVE  Running(t)'
<1>1. PICK c \in CallType : c = call[t]
  BY TypeParts
<1>2. /\ c.at \in Places /\ c.op \in Ops /\ started \in BOOLEAN /\ low \in BOOLEAN
      /\ Flags(c.at) /\ Levels(c.at) /\ Progress(c)
  BY <1>1, CallParts DEF Running
<1>3. PICK d \in CallType : d = call'[t]
  BY <1>1, GotoEffect, AnswerEffect DEF InitAnswer, Places
<1>4. /\ c.at = "ready" /\ UNCHANGED <<low, started, drv, refused>>
      /\ \/ low /\ d.at = "set" /\ Same(c, d)
         \/ ~low /\ Ends(c, d, FALSE)
  BY <1>1, <1>3, TypeParts, GotoEffect, AnswerEffect DEF InitAnswer, At, Places, DriverType
<1>5. Goal(d) = Goal(c)
  BY <1>4, GoalStays DEF Ends
<1>6. Flags(d.at)'
  BY <1>2, <1>4 DEF Flags, Ends
<1>7. Levels(d.at)'
  BY <1>2, <1>4 DEF Levels, Ends
<1>8. Progress(d)'
  BY <1>2, <1>4, <1>5 DEF Progress, Goal, Promise, Radio, Same, Ends, Untouched, Switching
<1> QED
  BY <1>3, <1>6, <1>7, <1>8
     DEF Running, Flags, Levels, Progress, Goal, Promise, Radio

\* StartCheck goes on with a call that is Running, or answers it.
LEMMA StartCheckRuns ==
    ASSUME TypeOK, NEW t \in Task, Running(t), StartCheck(t)
    PROVE  Running(t)'
<1>1. PICK c \in CallType : c = call[t]
  BY TypeParts
<1>2. /\ c.at \in Places /\ c.op \in Ops /\ started \in BOOLEAN /\ low \in BOOLEAN
      /\ Flags(c.at) /\ Levels(c.at) /\ Progress(c)
  BY <1>1, CallParts DEF Running
<1>3. PICK d \in CallType : d = call'[t]
  BY <1>1, GotoEffect, AnswerEffect DEF StartCheck, Places
<1>4. /\ c.at = "start" /\ UNCHANGED <<low, started, drv, refused>>
      /\ \/ started /\ Ends(c, d, TRUE)
         \/ ~started /\ d.at = "startset" /\ Same(c, d)
  BY <1>1, <1>3, TypeParts, GotoEffect, AnswerEffect DEF StartCheck, At, Places, DriverType
<1>5. Goal(d) = Goal(c)
  BY <1>4, GoalStays DEF Ends
<1>6. Flags(d.at)'
  BY <1>2, <1>4 DEF Flags, Ends
<1>7. Levels(d.at)'
  BY <1>2, <1>4 DEF Levels, Ends
<1>8. Progress(d)'
  BY <1>2, <1>4, <1>5 DEF Progress, Goal, Promise, Radio, Same, Ends, Untouched, Switching, Flags
<1> QED
  BY <1>3, <1>6, <1>7, <1>8
     DEF Running, Flags, Levels, Progress, Goal, Promise, Radio

\* StartSet goes on with a call that is Running.
LEMMA StartSetRuns ==
    ASSUME TypeOK, NEW t \in Task, Running(t), StartSet(t)
    PROVE  Running(t)'
<1>1. PICK c \in CallType : c = call[t]
  BY TypeParts
<1>2. /\ c.at \in Places /\ c.op \in Ops /\ started \in BOOLEAN /\ low \in BOOLEAN
      /\ Flags(c.at) /\ Levels(c.at) /\ Progress(c)
  BY <1>1, CallParts DEF Running
<1>3. PICK d \in CallType : d = call'[t]
  BY <1>1, GotoEffect DEF StartSet, Places
<1>4. /\ c.at = "startset" /\ d.at = "startdrv" /\ Same(c, d) /\ started' = TRUE
      /\ UNCHANGED <<low, drv, refused>>
  BY <1>1, <1>3, TypeParts, GotoEffect DEF StartSet, At, Places, DriverType
<1>5. Goal(d) = Goal(c)
  BY <1>4, GoalStays
<1>6. Flags(d.at)'
  BY <1>2, <1>4 DEF Flags
<1>7. Levels(d.at)'
  BY <1>2, <1>4 DEF Levels
<1>8. Progress(d)'
  BY <1>2, <1>4, <1>5 DEF Progress, Goal, Promise, Radio, Same, Untouched, Switching, Flags
<1> QED
  BY <1>3, <1>6, <1>7, <1>8
     DEF Running, Flags, Levels, Progress, Goal, Promise, Radio

\* StopSet goes on with a call that is Running.
LEMMA StopSetRuns ==
    ASSUME TypeOK, NEW t \in Task, Running(t), StopSet(t)
    PROVE  Running(t)'
<1>1. PICK c \in CallType : c = call[t]
  BY TypeParts
<1>2. /\ c.at \in Places /\ c.op \in Ops /\ started \in BOOLEAN /\ low \in BOOLEAN
      /\ Flags(c.at) /\ Levels(c.at) /\ Progress(c)
  BY <1>1, CallParts DEF Running
<1>3. PICK d \in CallType : d = call'[t]
  BY <1>1, GotoEffect DEF StopSet, Places
<1>4. /\ c.at = "stopset" /\ d.at = "stopdrv" /\ Same(c, d) /\ started' = FALSE
      /\ UNCHANGED <<low, drv, refused>>
  BY <1>1, <1>3, TypeParts, GotoEffect DEF StopSet, At, Places, DriverType
<1>5. Goal(d) = Goal(c)
  BY <1>4, GoalStays
<1>6. Flags(d.at)'
  BY <1>2, <1>4 DEF Flags
<1>7. Levels(d.at)'
  BY <1>2, <1>4 DEF Levels
<1>8. Progress(d)'
  BY <1>2, <1>4, <1>5 DEF Progress, Goal, Promise, Radio, Same, Untouched, Switching, Flags
<1> QED
  BY <1>3, <1>6, <1>7, <1>8
     DEF Running, Flags, Levels, Progress, Goal, Promise, Radio

\* StopCheck goes on with a call that is Running, or answers it.
LEMMA StopCheckRuns ==
    ASSUME TypeOK, NEW t \in Task, Running(t), StopCheck(t)
    PROVE  Running(t)'
<1>1. PICK c \in CallType : c = call[t]
  BY TypeParts
<1>2. /\ c.at \in Places /\ c.op \in Ops /\ started \in BOOLEAN /\ low \in BOOLEAN
      /\ Flags(c.at) /\ Levels(c.at) /\ Progress(c)
  BY <1>1, CallParts DEF Running
<1>3. PICK d \in CallType : d = call'[t]
  BY <1>1, GotoEffect, AnswerEffect DEF StopCheck, Places
<1>4. /\ c.at = "stop" /\ UNCHANGED <<low, started, drv, refused>>
      /\ \/ started /\ d.at = "stopset" /\ Same(c, d)
         \/ ~started /\ Ends(c, d, TRUE)
  BY <1>1, <1>3, TypeParts, GotoEffect, AnswerEffect DEF StopCheck, At, Places, DriverType
<1>5. Goal(d) = Goal(c)
  BY <1>4, GoalStays DEF Ends
<1>6. Flags(d.at)'
  BY <1>2, <1>4 DEF Flags, Ends
<1>7. Levels(d.at)'
  BY <1>2, <1>4 DEF Levels, Ends
<1>8. Progress(d)'
  BY <1>2, <1>4, <1>5 DEF Progress, Goal, Promise, Radio, Same, Ends, Untouched, Switching, Flags
<1> QED
  BY <1>3, <1>6, <1>7, <1>8
     DEF Running, Flags, Levels, Progress, Goal, Promise, Radio

\* StopDriver goes on with a call that is Running, or answers it.
LEMMA StopDriverRuns ==
    ASSUME TypeOK, NEW t \in Task, Running(t), StopDriver(t)
    PROVE  Running(t)'
<1>1. PICK c \in CallType : c = call[t]
  BY TypeParts
<1>2. /\ c.at \in Places /\ c.op \in Ops /\ started \in BOOLEAN /\ low \in BOOLEAN
      /\ Flags(c.at) /\ Levels(c.at) /\ Progress(c)
  BY <1>1, CallParts DEF Running
<1>3. PICK d \in CallType : d = call'[t]
  BY <1>1, GotoEffect, AnswerEffect DEF StopDriver, Places
<1>4. /\ c.at = "stopdrv" /\ UNCHANGED <<low, refused>>
      /\ \/ started' = TRUE /\ Ends(c, d, FALSE) /\ UNCHANGED drv
         \/ /\ drv.state # "none" /\ drv'.state = "init" /\ drv'.mode = drv.mode
            /\ drv'.conf = drv.conf /\ d.at = "deinit" /\ Same(c, d) /\ UNCHANGED started
  BY <1>1, <1>3, TypeParts, GotoEffect, AnswerEffect DEF StopDriver, At, Places, DriverType
<1>5. Goal(d) = Goal(c)
  BY <1>4, GoalStays DEF Ends
<1>6. Flags(d.at)'
  BY <1>2, <1>4 DEF Flags, Ends
<1>7. Levels(d.at)'
  BY <1>2, <1>4 DEF Levels, Ends
<1>8. Progress(d)'
  BY <1>2, <1>4, <1>5 DEF Progress, Goal, Promise, Radio, Same, Ends, Untouched, Switching
<1> QED
  BY <1>3, <1>6, <1>7, <1>8
     DEF Running, Flags, Levels, Progress, Goal, Promise, Radio

\* Deinit goes on with a call that is Running, or answers it.
LEMMA DeinitRuns ==
    ASSUME TypeOK, NEW t \in Task, Running(t), Deinit(t)
    PROVE  Running(t)'
<1>1. PICK c \in CallType : c = call[t]
  BY TypeParts
<1>2. /\ c.at \in Places /\ c.op \in Ops /\ started \in BOOLEAN /\ low \in BOOLEAN
      /\ Flags(c.at) /\ Levels(c.at) /\ Progress(c)
  BY <1>1, CallParts DEF Running
<1>3. PICK d \in CallType : d = call'[t]
  BY <1>1, GotoEffect, AnswerEffect DEF Deinit, Places
<1>4. /\ c.at = "deinit" /\ UNCHANGED <<started, refused>>
      /\ \/ ~low /\ Ends(c, d, TRUE) /\ UNCHANGED <<low, drv>>
         \/ low /\ Ends(c, d, FALSE) /\ UNCHANGED <<low, drv>>
         \/ /\ low /\ drv.state = "init" /\ drv'.state = "none" /\ drv'.mode = drv.mode
            /\ drv'.conf = drv.conf /\ low' = FALSE /\ Ends(c, d, TRUE)
  BY <1>1, <1>3, TypeParts, GotoEffect, AnswerEffect DEF Deinit, At, Places, DriverType
<1>5. Goal(d) = Goal(c)
  BY <1>4, GoalStays DEF Ends
<1>6. Flags(d.at)'
  BY <1>2, <1>4 DEF Flags, Ends
<1>7. Levels(d.at)'
  BY <1>2, <1>4 DEF Levels, Ends
<1>8. Progress(d)'
  BY <1>2, <1>4, <1>5 DEF Progress, Goal, Promise, Radio, Same, Ends, Untouched, Switching
<1> QED
  BY <1>3, <1>6, <1>7, <1>8
     DEF Running, Flags, Levels, Progress, Goal, Promise, Radio

\* SetConfig goes on with a call that is Running, or answers it.
LEMMA SetConfigRuns ==
    ASSUME TypeOK, NEW t \in Task, Running(t), SetConfig(t)
    PROVE  Running(t)'
<1>1. PICK c \in CallType : c = call[t]
  BY TypeParts
<1>2. /\ c.at \in Places /\ c.op \in Ops /\ started \in BOOLEAN /\ low \in BOOLEAN
      /\ Flags(c.at) /\ Levels(c.at) /\ Progress(c)
  BY <1>1, CallParts DEF Running
<1>3. PICK d \in CallType : d = call'[t]
  BY <1>1, DoneEffect DEF SetConfig, Places
<1>4. /\ c.at = "config" /\ d.at = "done" /\ Same(c, d) /\ UNCHANGED <<low, started, refused>>
      /\ \/ d.answer = FALSE /\ UNCHANGED drv
         \/ /\ drv'.state = drv.state /\ drv'.mode = drv.mode /\ drv'.conf = c.conf
  BY <1>1, <1>3, TypeParts, DoneEffect DEF SetConfig, At, Places, DriverType
<1>5. Goal(d) = Goal(c)
  BY <1>4, GoalStays DEF Ends
<1>6. Flags(d.at)'
  BY <1>2, <1>4 DEF Flags, Ends
<1>7. Levels(d.at)'
  BY <1>2, <1>4 DEF Levels, Ends
<1>8. Progress(d)'
  BY <1>2, <1>4, <1>5 DEF Progress, Goal, Promise, Radio, Same, Ends, Untouched, Switching
<1> QED
  BY <1>3, <1>6, <1>7, <1>8
     DEF Running, Flags, Levels, Progress, Goal, Promise, Radio

\* SetMode goes on with a call that is Running, or answers it.
LEMMA SetModeRuns ==
    ASSUME TypeOK, NEW t \in Task, Running(t), SetMode(t)
    PROVE  Running(t)'
<1>1. PICK c \in CallType : c = call[t]
  BY TypeParts
<1>2. /\ c.at \in Places /\ c.op \in Ops /\ started \in BOOLEAN /\ low \in BOOLEAN
      /\ Flags(c.at) /\ Levels(c.at) /\ Progress(c)
  BY <1>1, CallParts DEF Running
<1>3. PICK d \in CallType : d = call'[t]
  BY <1>1, GotoEffect, AnswerEffect DEF SetMode, Places
<1>4. /\ c.at = "set" /\ UNCHANGED <<low, started, refused>>
      /\ \/ Ends(c, d, FALSE) /\ UNCHANGED drv
         \/ /\ drv.state # "none" /\ drv'.state = drv.state /\ drv'.mode = c.goal
            /\ drv'.conf = drv.conf /\ (Ends(c, d, FALSE) \/ (d.at = "start" /\ Same(c, d)))
  BY <1>1, <1>3, TypeParts, GotoEffect, AnswerEffect DEF SetMode, At, Places, DriverType
<1>5. Goal(d) = Goal(c)
  BY <1>4, GoalStays DEF Ends
<1>6. Flags(d.at)'
  BY <1>2, <1>4 DEF Flags, Ends
<1>7. Levels(d.at)'
  BY <1>2, <1>4 DEF Levels, Ends, Progress
<1>8. Progress(d)'
  BY <1>2, <1>4, <1>5 DEF Progress, Goal, Promise, Radio, Same, Ends, Untouched, Switching
<1> QED
  BY <1>3, <1>6, <1>7, <1>8
     DEF Running, Flags, Levels, Progress, Goal, Promise, Radio

\* StartDriver goes on with a call that is Running, or answers it.
LEMMA StartDriverRuns ==
    ASSUME TypeOK, NEW t \in Task, Running(t), StartDriver(t)
    PROVE  Running(t)'
<1>1. PICK c \in CallType : c = call[t]
  BY TypeParts
<1>2. /\ c.at \in Places /\ c.op \in Ops /\ started \in BOOLEAN /\ low \in BOOLEAN
      /\ Flags(c.at) /\ Levels(c.at) /\ Progress(c)
  BY <1>1, CallParts DEF Running
<1>3. PICK d \in CallType : d = call'[t]
  BY <1>1, GotoEffect, AnswerEffect DEF StartDriver, Places
<1>4. /\ c.at = "startdrv" /\ UNCHANGED <<low, refused>>
      /\ \E ok \in BOOLEAN :
            /\ ok => drv.state # "none"
            /\ drv'.state = (IF ok THEN "started" ELSE drv.state)
            /\ drv'.mode = drv.mode /\ drv'.conf = drv.conf
            /\ started' = (started /\ ok) /\ Ends(c, d, ok /\ started)
  BY <1>1, <1>3, TypeParts, GotoEffect, AnswerEffect DEF StartDriver, At, Places, DriverType, AfterStart
<1>5. Goal(d) = Goal(c)
  BY <1>4, GoalStays DEF Ends
<1>6. Flags(d.at)'
  BY <1>2, <1>4 DEF Flags, Ends
<1>7. Levels(d.at)'
  BY <1>2, <1>4 DEF Levels, Ends, Progress
<1>8. Progress(d)'
  BY <1>2, <1>4, <1>5 DEF Progress, Goal, Promise, Radio, Same, Ends, Untouched, Switching, Flags
<1> QED
  BY <1>3, <1>6, <1>7, <1>8
     DEF Running, Flags, Levels, Progress, Goal, Promise, Radio

\* ModeCall goes on with a call that is Running, or answers it.
LEMMA ModeCallRuns ==
    ASSUME TypeOK, NEW t \in Task, Running(t), ModeCall(t)
    PROVE  Running(t)'
<1>1. PICK c \in CallType : c = call[t]
  BY TypeParts
<1>2. /\ c.at \in Places /\ c.op \in Ops /\ started \in BOOLEAN /\ low \in BOOLEAN
      /\ Flags(c.at) /\ Levels(c.at) /\ Progress(c)
  BY <1>1, CallParts DEF Running
<1>3. PICK d \in CallType : d = call'[t]
  BY <1>1, GotoEffect, AnswerEffect DEF ModeCall, Places
<1>4. c.at = "mode" /\ Mode = Radio
  BY <1>1, <1>2, ModeIsRadio DEF ModeCall, At
<1>5. /\ UNCHANGED <<low, started, drv, refused>>
      /\ \/ Radio = c.goal /\ Ends(c, d, TRUE)
         \/ /\ Radio # c.goal /\ Same(c, d)
            /\ d.at = (IF Radio = {} THEN "init" ELSE IF c.goal = {} THEN "stop" ELSE "set")
  BY <1>1, <1>3, <1>4, GotoEffect, AnswerEffect DEF ModeCall, Places
<1>6. Goal(d) = Goal(c)
  BY <1>5, GoalStays DEF Ends
<1>7. Flags(d.at)'
  BY <1>2, <1>4, <1>5 DEF Flags, Ends
<1>8. Levels(d.at)'
  BY <1>2, <1>4, <1>5, CallParts DEF Levels, Ends, Radio, Mode, States
<1>9. Progress(d)'
  BY <1>2, <1>4, <1>5, <1>6
     DEF Progress, Goal, Promise, Radio, Same, Ends, Untouched, Switching
<1> QED
  BY <1>3, <1>7, <1>8, <1>9
     DEF Running, Flags, Levels, Progress, Goal, Promise, Radio

\* Enable goes on with a call that is Running, or answers it.
LEMMA EnableRuns ==
    ASSUME TypeOK, NEW t \in Task, Running(t), Enable(t)
    PROVE  Running(t)'
<1>1. PICK c \in CallType : c = call[t]
  BY TypeParts
<1>2. /\ c.at \in Places /\ c.op \in Ops /\ started \in BOOLEAN /\ low \in BOOLEAN
      /\ Flags(c.at) /\ Levels(c.at) /\ Progress(c)
  BY <1>1, CallParts DEF Running
<1>3. c.at = "enable" /\ Mode = Radio
  BY <1>1, <1>2, ModeIsRadio DEF Enable, At
<1> DEFINE want == Want(c.i, c.op \in {"on", "softap"}, Mode)
<1>4. want = Goal(c)
  BY <1>2, <1>3 DEF Want, Goal, Progress, Ops, Untouched
<1>5. CASE want = Mode
  <2>1. PICK d \in CallType : d = call'[t]
    BY <1>1, <1>5, AnswerEffect DEF Enable
  <2>2. UNCHANGED <<low, started, drv, refused>> /\ Radio = Goal(c) /\ Ends(c, d, TRUE)
    BY <1>1, <1>3, <1>4, <1>5, <2>1, AnswerEffect DEF Enable
  <2>3. Goal(d) = Goal(c)
    BY <2>2, GoalStays DEF Ends
  <2>4. Flags(d.at)' /\ Levels(d.at)'
    BY <1>2, <1>3, <2>2 DEF Flags, Levels, Ends
  <2>5. Progress(d)'
    BY <1>2, <1>3, <2>2, <2>3
       DEF Progress, Goal, Promise, Radio, Same, Ends, Untouched, Switching
  <2> QED
    BY <2>1, <2>4, <2>5 DEF Running, Flags, Levels, Progress, Goal, Promise, Radio
<1>6. CASE want # Mode
  <2>1. want \in Modes
    BY <1>1, CallParts DEF Want, Mode, Modes, Iface
  <2>2. PICK d \in CallType : d = call'[t]
    BY <1>1, <1>6, <2>1, AskedEffect DEF Enable
  <2>3. /\ UNCHANGED <<low, started, drv, refused>> /\ d.at = "mode" /\ d.goal = Goal(c)
        /\ d.op = c.op /\ d.i = c.i /\ d.was = c.was
    BY <1>1, <1>4, <1>6, <2>1, <2>2, AskedEffect DEF Enable
  <2>4. Goal(d) = Goal(c)
    BY <1>2, <1>3, <2>3 DEF Goal, Progress
  <2>5. Flags(d.at)' /\ Levels(d.at)'
    BY <1>2, <1>3, <2>3 DEF Flags, Levels
  <2>6. Progress(d)'
    BY <1>2, <1>3, <2>3, <2>4 DEF Progress, Goal, Radio, Untouched, Switching
  <2> QED
    BY <2>2, <2>5, <2>6 DEF Running, Flags, Levels, Progress, Goal, Promise, Radio
<1> QED
  BY <1>5, <1>6

\* BlankConfig goes on with a call that is Running, or answers it.
LEMMA BlankConfigRuns ==
    ASSUME TypeOK, NEW t \in Task, Running(t), BlankConfig(t)
    PROVE  Running(t)'
<1>1. PICK c \in CallType : c = call[t]
  BY TypeParts
<1>2. /\ c.at \in Places /\ c.op \in Ops /\ started \in BOOLEAN /\ low \in BOOLEAN
      /\ Flags(c.at) /\ Levels(c.at) /\ Progress(c)
  BY <1>1, CallParts DEF Running
<1>3. PICK d \in CallType : d = call'[t]
  BY <1>1, GotoEffect, DoneEffect DEF BlankConfig, Places
<1>4. /\ c.at = "blank" /\ UNCHANGED <<low, started, refused>> /\ Same(c, d)
      /\ \/ d.at = "done" /\ d.answer = FALSE /\ UNCHANGED drv
         \/ /\ drv'.state = drv.state /\ drv'.mode = drv.mode /\ drv'.conf = "blank"
            /\ d.at = (IF c.op = "apoff" THEN "enable" ELSE "done")
  BY <1>1, <1>3, TypeParts, GotoEffect, DoneEffect DEF BlankConfig, At, Places, DriverType
<1>5. Goal(d) = Goal(c)
  BY <1>4, GoalStays
<1>6. Flags(d.at)' /\ Levels(d.at)'
  BY <1>2, <1>4 DEF Flags, Levels
<1>7. Progress(d)'
  BY <1>2, <1>4, <1>5 DEF Progress, Goal, Promise, Radio, Same, Untouched, Switching
<1> QED
  BY <1>3, <1>6, <1>7 DEF Running, Flags, Levels, Progress, Goal, Promise, Radio

\* A call begins where no other is under way.
LEMMA BeginRuns ==
    ASSUME TypeOK, NEW t \in Task, NEW c \in CallType, Flags("idle"), Levels("idle"),
           c.at \in {"mode", "enable", "blank"}, Progress(c),
           call' = [call EXCEPT ![t] = c], UNCHANGED <<low, started, drv, refused>>
    PROVE  Running(t)'
<1>1. call'[t] = c
  BY TypeParts
<1>2. Flags(c.at)' /\ Levels(c.at)'
  BY DEF Flags, Levels
<1>3. Progress(c)'
  BY DEF Progress, Goal, Promise, Radio
<1> QED
  BY <1>1, <1>2, <1>3 DEF Running, Flags, Levels, Progress, Goal, Promise, Radio

(***************************************************************************)
(* Types, after a step.                                                    *)
(***************************************************************************)
LEMMA TypePartsNext ==
    ASSUME low' \in BOOLEAN, started' \in BOOLEAN, raced' \in BOOLEAN, refused' \in BOOLEAN,
           drv' \in DriverType, queue' \in Seq(Event), bits' \subseteq Iface,
           call' \in [Task -> CallType]
    PROVE  TypeOK'
<1>1. {low, started, raced, refused}' \subseteq BOOLEAN
  OBVIOUS
<1> QED
  BY <1>1 DEF TypeOK, DriverType, States, Modes, Confs, Event, CallType, Places, Ops

\* Reports are events.
LEMMA EventsType ==
    ASSUME NEW S \in Modes, NEW w \in {"start", "stop"}
    PROVE  EventsOf(S, w) \in Seq(Event)
<1>1. ASSUME NEW i \in Iface
      PROVE  EventOf(i, S, w) \in Seq(Event)
  <2>1. [what |-> w, i |-> i] \in Event
    BY <1>1 DEF Event
  <2> QED
    BY <2>1 DEF EventOf
<1>2. EventOf("sta", S, w) \in Seq(Event) /\ EventOf("ap", S, w) \in Seq(Event)
  BY <1>1 DEF Iface
<1> QED
  BY <1>2 DEF EventsOf

\* Events of a change of mode are events.
LEMMA ReportType ==
    ASSUME TypeOK, NEW from \in Modes, NEW to \in Modes, Report(from, to)
    PROVE  queue' \in Seq(Event)
<1> DEFINE a == EventsOf(from \ to, "stop")
           b == EventsOf(to \ from, "start")
<1>1. from \ to \in Modes /\ to \ from \in Modes
  BY DEF Modes
<1>2. a \in Seq(Event) /\ b \in Seq(Event) /\ queue \in Seq(Event)
  BY <1>1, EventsType, TypeParts
<1>3. queue' = queue \o a \o b
  BY DEF Report
<1> HIDE DEF a, b
<1> QED
  BY <1>2, <1>3

\* The radio has a mode.
LEMMA RadioType ==
    ASSUME TypeOK
    PROVE  Radio \in Modes
BY TypeParts DEF Radio, DriverType, Modes

\* RadioType after a step.
LEMMA RadioTypeNext ==
    ASSUME TypeOK'
    PROVE  Radio' \in Modes
<1>1. drv' \in DriverType
  BY DEF TypeOK, DriverType, States, Modes, Confs
<1> QED
  BY <1>1 DEF Radio, DriverType, Modes

\* A driver that changes state or mode is a driver.
LEMMA DriverTypes ==
    ASSUME TypeOK
    PROVE  /\ \A s \in States : [drv EXCEPT !.state = s] \in DriverType
           /\ \A m \in Modes : [drv EXCEPT !.mode = m] \in DriverType
           /\ \A c \in Confs : [drv EXCEPT !.conf = c] \in DriverType
BY TypeParts DEF DriverType

\* A task's step is its own.
LEMMA StepTypes ==
    ASSUME TypeOK, NEW t \in Task, Step(t)
    PROVE  TypeOK' /\ raced' = raced /\ Busy(t) /\ \A u \in Task : u # t => call'[u] = call[u]
<1> DEFINE Fine == /\ call' \in [Task -> CallType]
                   /\ \A u \in Task : u # t => call'[u] = call[u]
           Rest == /\ low' \in BOOLEAN /\ started' \in BOOLEAN /\ raced' = raced
                   /\ refused' \in BOOLEAN /\ drv' \in DriverType /\ bits' \subseteq Iface
                   /\ queue' \in Seq(Event)
<1>1. call \in [Task -> CallType] /\ call[t] \in CallType
  BY TypeParts
<1>2. ASSUME Fine, Rest, Busy(t)
      PROVE  TypeOK' /\ raced' = raced /\ Busy(t) /\ \A u \in Task : u # t => call'[u] = call[u]
  BY <1>2, TypeParts, TypePartsNext
<1>3. CASE Enable(t)
  <2> DEFINE want == Want(call[t].i, call[t].op \in {"on", "softap"}, Mode)
  <2>1. want \in Modes
    BY CallParts DEF Want, Mode, Modes, Iface
  <2>2. Fine
    BY <1>3, <2>1, AskedEffect, AnswerEffect DEF Enable
  <2> QED
    BY <1>2, <1>3, <2>2, TypeParts DEF Enable, At, Busy
<1>4. CASE ModeCall(t)
  <2>1. Fine
    BY <1>4, GotoEffect, AnswerEffect, DoneEffect DEF ModeCall, Places
  <2>2. drv' \in DriverType
    BY <1>4, CallParts, DriverTypes, TypeParts DEF ModeCall, States, Confs
  <2>3. Rest /\ Busy(t)
    BY <1>4, <2>2, TypeParts DEF ModeCall, At, Busy
  <2> QED
    BY <1>2, <2>1, <2>3
<1>5. CASE InitCheck(t)
  <2>1. Fine
    BY <1>5, GotoEffect, AnswerEffect, DoneEffect DEF InitCheck, Places
  <2>2. drv' \in DriverType
    BY <1>5, CallParts, DriverTypes, TypeParts DEF InitCheck, States, Confs
  <2>3. Rest /\ Busy(t)
    BY <1>5, <2>2, TypeParts DEF InitCheck, At, Busy
  <2> QED
    BY <1>2, <2>1, <2>3
<1>6. CASE InitDriver(t)
  <2>1. Fine
    BY <1>6, GotoEffect, AnswerEffect, DoneEffect DEF InitDriver, Places
  <2>2. drv' \in DriverType
    BY <1>6, CallParts, DriverTypes, TypeParts DEF InitDriver, States, Confs
  <2>3. Rest /\ Busy(t)
    BY <1>6, <2>2, TypeParts DEF InitDriver, At, Busy
  <2> QED
    BY <1>2, <2>1, <2>3
<1>7. CASE SetStorage(t)
  <2>1. Fine
    BY <1>7, GotoEffect, AnswerEffect, DoneEffect DEF SetStorage, Places
  <2>2. drv' \in DriverType
    BY <1>7, CallParts, DriverTypes, TypeParts DEF SetStorage, States, Confs
  <2>3. Rest /\ Busy(t)
    BY <1>7, <2>2, TypeParts DEF SetStorage, At, Busy
  <2> QED
    BY <1>2, <2>1, <2>3
<1>8. CASE InitAnswer(t)
  <2>1. Fine
    BY <1>8, GotoEffect, AnswerEffect, DoneEffect DEF InitAnswer, Places
  <2>2. drv' \in DriverType
    BY <1>8, CallParts, DriverTypes, TypeParts DEF InitAnswer, States, Confs
  <2>3. Rest /\ Busy(t)
    BY <1>8, <2>2, TypeParts DEF InitAnswer, At, Busy
  <2> QED
    BY <1>2, <2>1, <2>3
<1>9. CASE StartCheck(t)
  <2>1. Fine
    BY <1>9, GotoEffect, AnswerEffect, DoneEffect DEF StartCheck, Places
  <2>2. drv' \in DriverType
    BY <1>9, CallParts, DriverTypes, TypeParts DEF StartCheck, States, Confs
  <2>3. Rest /\ Busy(t)
    BY <1>9, <2>2, TypeParts DEF StartCheck, At, Busy
  <2> QED
    BY <1>2, <2>1, <2>3
<1>10. CASE Deinit(t)
  <2>1. Fine
    BY <1>10, GotoEffect, AnswerEffect, DoneEffect DEF Deinit, Places
  <2>2. drv' \in DriverType
    BY <1>10, CallParts, DriverTypes, TypeParts DEF Deinit, States, Confs
  <2>3. Rest /\ Busy(t)
    BY <1>10, <2>2, TypeParts DEF Deinit, At, Busy
  <2> QED
    BY <1>2, <2>1, <2>3
<1>11. CASE SetConfig(t)
  <2>1. Fine
    BY <1>11, GotoEffect, AnswerEffect, DoneEffect DEF SetConfig, Places, CallType, Confs
  <2>2. drv' \in DriverType
    BY <1>11, CallParts, DriverTypes, TypeParts DEF SetConfig, States, Confs
  <2>3. Rest /\ Busy(t)
    BY <1>11, <2>2, TypeParts DEF SetConfig, At, Busy
  <2> QED
    BY <1>2, <2>1, <2>3
<1>12. CASE BlankConfig(t)
  <2>1. Fine
    BY <1>12, GotoEffect, AnswerEffect, DoneEffect DEF BlankConfig, Places, CallType, Confs
  <2>2. drv' \in DriverType
    BY <1>12, CallParts, DriverTypes, TypeParts DEF BlankConfig, States, Confs
  <2>3. Rest /\ Busy(t)
    BY <1>12, <2>2, TypeParts DEF BlankConfig, At, Busy
  <2> QED
    BY <1>2, <2>1, <2>3
<1>13. CASE SetMode(t)
  <2>1. Fine
    BY <1>13, GotoEffect, AnswerEffect, DoneEffect DEF SetMode, Places
  <2>2. drv' \in DriverType
    BY <1>13, CallParts, DriverTypes, TypeParts DEF SetMode, States
  <2>3. Radio' \in Modes /\ Radio \in Modes /\ {} \in Modes
    BY <2>2, RadioType DEF Radio, DriverType, Modes
  <2>4. queue' \in Seq(Event)
    BY <1>13, <2>3, ReportType, TypeParts DEF SetMode
  <2>5. Rest /\ Busy(t)
    BY <1>13, <2>2, <2>4, TypeParts DEF SetMode, At, Busy, AfterStart
  <2> QED
    BY <1>2, <2>1, <2>5
<1>14. CASE StartDriver(t)
  <2>1. Fine
    BY <1>14, GotoEffect, AnswerEffect, DoneEffect DEF StartDriver, Places
  <2>2. drv' \in DriverType
    BY <1>14, CallParts, DriverTypes, TypeParts DEF StartDriver, States
  <2>3. Radio' \in Modes /\ Radio \in Modes /\ {} \in Modes
    BY <2>2, RadioType DEF Radio, DriverType, Modes
  <2>4. queue' \in Seq(Event)
    BY <1>14, <2>3, ReportType, TypeParts DEF StartDriver
  <2>5. Rest /\ Busy(t)
    BY <1>14, <2>2, <2>4, TypeParts DEF StartDriver, At, Busy, AfterStart
  <2> QED
    BY <1>2, <2>1, <2>5
<1>15. CASE StopDriver(t)
  <2>1. Fine
    BY <1>15, GotoEffect, AnswerEffect, DoneEffect DEF StopDriver, Places
  <2>2. drv' \in DriverType
    BY <1>15, CallParts, DriverTypes, TypeParts DEF StopDriver, States
  <2>3. Radio' \in Modes /\ Radio \in Modes /\ {} \in Modes
    BY <2>2, RadioType DEF Radio, DriverType, Modes
  <2>4. queue' \in Seq(Event)
    BY <1>15, <2>3, ReportType, TypeParts DEF StopDriver
  <2>5. Rest /\ Busy(t)
    BY <1>15, <2>2, <2>4, TypeParts DEF StopDriver, At, Busy, AfterStart
  <2> QED
    BY <1>2, <2>1, <2>5
<1>16. CASE StopCheck(t)
  <2>1. Fine
    BY <1>16, GotoEffect, AnswerEffect, DoneEffect DEF StopCheck, Places
  <2>2. drv' \in DriverType
    BY <1>16, CallParts, DriverTypes, TypeParts DEF StopCheck, States, Confs
  <2>3. Rest /\ Busy(t)
    BY <1>16, <2>2, TypeParts DEF StopCheck, At, Busy
  <2> QED
    BY <1>2, <2>1, <2>3
<1>17. CASE Return(t)
  <2>1. NoCall \in CallType
    BY DEF NoCall, CallType, Places, Ops, Iface, Modes, Confs
  <2>2. Fine
    BY <1>1, <1>17, <2>1 DEF Return
  <2> QED
    BY <1>2, <1>17, <2>2, TypeParts DEF Return, At, Busy
<1>18. CASE InitSet(t)
  <2>1. Fine
    BY <1>18, GotoEffect DEF InitSet, Places
  <2>2. drv' \in DriverType
    BY <1>18, TypeParts DEF InitSet
  <2>3. Rest /\ Busy(t)
    BY <1>18, <2>2, TypeParts DEF InitSet, At, Busy
  <2> QED
    BY <1>2, <2>1, <2>3
<1>19. CASE StartSet(t)
  <2>1. Fine
    BY <1>19, GotoEffect DEF StartSet, Places
  <2>2. drv' \in DriverType
    BY <1>19, TypeParts DEF StartSet
  <2>3. Rest /\ Busy(t)
    BY <1>19, <2>2, TypeParts DEF StartSet, At, Busy
  <2> QED
    BY <1>2, <2>1, <2>3
<1>20. CASE StopSet(t)
  <2>1. Fine
    BY <1>20, GotoEffect DEF StopSet, Places
  <2>2. drv' \in DriverType
    BY <1>20, TypeParts DEF StopSet
  <2>3. Rest /\ Busy(t)
    BY <1>20, <2>2, TypeParts DEF StopSet, At, Busy
  <2> QED
    BY <1>2, <2>1, <2>3
<1> QED
  BY <1>3, <1>4, <1>5, <1>6, <1>7, <1>8, <1>9, <1>10, <1>11, <1>12, <1>13, <1>14, <1>15, <1>16,
     <1>17, <1>18, <1>19, <1>20
     DEF Step

(***************************************************************************)
(* The invariant.                                                          *)
(***************************************************************************)
LEMMA ReturnRests ==
    ASSUME TypeOK, NEW t \in Task, Running(t), Return(t)
    PROVE  call'[t].at = "idle" /\ Flags("idle")' /\ Levels("idle")'
<1>1. call[t].at = "done" /\ UNCHANGED <<low, started, drv, refused>>
  BY DEF Return, At
<1>2. call'[t].at = "idle"
  BY TypeParts DEF Return, NoCall
<1> QED
  BY <1>1, <1>2 DEF Running, Flags, Levels

\* Every step of a call keeps Running, or ends the call.
LEMMA StepRuns ==
    ASSUME TypeOK, NEW t \in Task, Running(t), Step(t)
    PROVE  Running(t)' \/ (call'[t].at = "idle" /\ Flags("idle")' /\ Levels("idle")')
BY EnableRuns, ModeCallRuns, InitCheckRuns, InitSetRuns, InitDriverRuns, SetStorageRuns,
   InitAnswerRuns, SetModeRuns, StartCheckRuns, StartSetRuns, StopSetRuns,
   StartDriverRuns, StopCheckRuns, StopDriverRuns, DeinitRuns,
   SetConfigRuns, BlankConfigRuns, ReturnRests
   DEF Step

\* A step of the only busy task keeps Alone.
LEMMA StepAlone ==
    ASSUME TypeOK, Alone, NEW t \in Task, Step(t)
    PROVE  Alone'
<1>1. Busy(t) /\ \A u \in Task : u # t => call'[u] = call[u]
  BY StepTypes
<1>2. \A u \in Task : u # t => ~Busy(u) /\ ~Busy(u)'
  BY <1>1 DEF Alone, Busy
<1>3. Running(t)' \/ (~Busy(t)' /\ Flags("idle")' /\ Levels("idle")')
  BY <1>1, StepRuns DEF Alone, Busy
<1>4. \A u, v \in Task : Busy(u)' /\ Busy(v)' => u = v
  BY <1>2
<1>5. \A u \in Task : Busy(u)' => Running(u)'
  BY <1>2, <1>3
<1>6. CASE Busy(t)'
  BY <1>4, <1>5, <1>6 DEF Alone, Quiet
<1>7. CASE ~Busy(t)'
  <2>1. Flags("idle")' /\ Levels("idle")'
    <3>1. CASE Running(t)'
      BY <3>1, <1>7 DEF Running, Busy, Flags, Levels
    <3> QED
      BY <1>3, <3>1
  <2> QED
    BY <1>4, <1>5, <2>1 DEF Alone
<1> QED
  BY <1>6, <1>7

\* So does a call that begins while no task is busy.
LEMMA BeginAlone ==
    ASSUME TypeOK, Alone, NEW t \in Task, NEW c \in CallType, Begin(t, c), ~raced',
           c.at \in {"mode", "enable", "blank"}, Progress(c),
           UNCHANGED <<low, started, drv, refused>>
    PROVE  Alone'
<1>1. Quiet /\ call' = [call EXCEPT ![t] = c]
  BY DEF Begin, Quiet
<1>2. Running(t)'
  BY <1>1, BeginRuns DEF Alone
<1>3. \A u \in Task : u # t => ~Busy(u)'
  BY <1>1, TypeParts DEF Quiet, Busy
<1>4. Busy(t)'
  BY <1>1, TypeParts DEF Busy
<1> QED
  BY <1>2, <1>3, <1>4 DEF Alone, Quiet

\* A call that begins is a call.
LEMMA BeginTypes ==
    ASSUME TypeOK, NEW t \in Task, NEW c \in CallType, Begin(t, c)
    PROVE  call' \in [Task -> CallType] /\ raced' \in BOOLEAN
BY TypeParts DEF Begin

\* What a sketch asks for.
LEMMA AskedType ==
    ASSUME TypeOK, NEW c \in CallType, c.op \in {"softap", "apoff", "blank"} => c.i = "ap",
           \/ c.at = "mode" /\ c.op = "mode"
           \/ c.at = "enable" /\ c.op \in {"on", "off", "softap"}
           \/ c.at = "blank" /\ c.op \in {"apoff", "blank"},
           c.was = Radio
    PROVE  c.at \in {"mode", "enable", "blank"} /\ Progress(c)
BY DEF Progress, Goal, Untouched, Switching

\* Every call of the sketch begins well.
LEMMA AskKeeps ==
    ASSUME Inv, NEW c \in CallType, c.op \in {"softap", "apoff", "blank"} => c.i = "ap",
           \/ c.at = "mode" /\ c.op = "mode"
           \/ c.at = "enable" /\ c.op \in {"on", "off", "softap"}
           \/ c.at = "blank" /\ c.op \in {"apoff", "blank"},
           Ask(c)
    PROVE  Inv'
<1>1. PICK d \in CallType : d = [c EXCEPT !.was = Radio]
  BY RadioType DEF CallType, Inv
<1>2. d.at = c.at /\ d.op = c.op /\ d.i = c.i /\ d.was = Radio
  BY <1>1 DEF CallType
<1>3. Begin("sketch", d) /\ "sketch" \in Task
  BY <1>1 DEF Ask, Task
<1>4. UNCHANGED <<low, started, drv, queue, bits, refused>>
  BY DEF Ask
<1>5. TypeOK'
  BY <1>3, <1>4, BeginTypes, TypeParts, TypePartsNext DEF Inv
<1>6. d.at \in {"mode", "enable", "blank"} /\ Progress(d)
  BY <1>2, AskedType DEF Inv
<1>7. ~raced' => ~raced
  BY <1>3 DEF Begin
<1> QED
  BY <1>3, <1>4, <1>5, <1>6, <1>7, BeginAlone DEF Inv

\* A call that begins alone starts from flags that are right.
LEMMA RequestKeeps ==
    ASSUME Inv, Request
    PROVE  Inv'
<1>1. ASSUME NEW m \in Modes, Ask([NoCall EXCEPT !.at = "mode", !.goal = m])
      PROVE  Inv'
  <2>1. PICK c \in CallType : c = [NoCall EXCEPT !.at = "mode", !.goal = m]
    BY DEF NoCall, CallType, Places, Ops, Iface, Modes, Confs
  <2>2. c.at = "mode" /\ c.op = "mode"
    BY <2>1 DEF NoCall
  <2> QED
    BY <1>1, <2>1, <2>2, AskKeeps
<1>2. ASSUME NEW i \in Iface, NEW op \in {"on", "off"},
             Ask([NoCall EXCEPT !.at = "enable", !.op = op, !.i = i])
      PROVE  Inv'
  <2>1. PICK c \in CallType : c = [NoCall EXCEPT !.at = "enable", !.op = op, !.i = i]
    BY DEF NoCall, CallType, Places, Ops, Modes, Confs
  <2>2. c.at = "enable" /\ c.op \in {"on", "off"}
    BY <2>1 DEF NoCall
  <2> QED
    BY <1>2, <2>1, <2>2, AskKeeps
<1>3. ASSUME NEW k \in Config,
             Ask([NoCall EXCEPT !.at = "enable", !.op = "softap", !.i = "ap", !.conf = k])
      PROVE  Inv'
  <2>1. PICK c \in CallType :
            c = [NoCall EXCEPT !.at = "enable", !.op = "softap", !.i = "ap", !.conf = k]
    BY DEF NoCall, CallType, Places, Ops, Iface, Modes, Confs
  <2>2. c.at = "enable" /\ c.op = "softap" /\ c.i = "ap"
    BY <2>1 DEF NoCall
  <2> QED
    BY <1>3, <2>1, <2>2, AskKeeps
<1>4. ASSUME NEW op \in {"apoff", "blank"},
             Ask([NoCall EXCEPT !.at = "blank", !.op = op, !.i = "ap"])
      PROVE  Inv'
  <2>1. PICK c \in CallType : c = [NoCall EXCEPT !.at = "blank", !.op = op, !.i = "ap"]
    BY DEF NoCall, CallType, Places, Ops, Iface, Modes, Confs
  <2>2. c.at = "blank" /\ c.op \in {"apoff", "blank"} /\ c.i = "ap"
    BY <2>1 DEF NoCall
  <2> QED
    BY <1>4, <2>1, <2>2, AskKeeps
<1> QED
  BY <1>1, <1>2, <1>3, <1>4 DEF Request, Modes

\* Handling an event leaves a set of interfaces.
LEMMA BitsType ==
    ASSUME TypeOK, NEW e \in Event
    PROVE  BitsAfter(e, bits) \subseteq Iface
BY TypeParts DEF BitsAfter, Event

\* A step that leaves calls, flags and driver alone keeps Alone.
LEMMA NothingMoves ==
    ASSUME Alone, UNCHANGED <<low, started, drv, call, refused>>
    PROVE  Alone'
<1>1. \A t \in Task : Busy(t)' <=> Busy(t)
  BY DEF Busy
<1>2. ASSUME NEW t \in Task, Running(t)
      PROVE  Running(t)'
  <2>1. Flags(call[t].at)' /\ Levels(call[t].at)'
    BY <1>2 DEF Running, Flags, Levels
  <2>2. Progress(call[t])'
    BY <1>2 DEF Running, Progress, Goal, Promise, Radio
  <2> QED
    BY <2>1, <2>2 DEF Running
<1>3. Quiet' <=> Quiet
  BY <1>1 DEF Quiet
<1>4. Flags("idle") /\ Levels("idle") => Flags("idle")' /\ Levels("idle")'
  BY DEF Flags, Levels
<1> QED
  BY <1>1, <1>2, <1>3, <1>4 DEF Alone

\* The event task handles an event, and may begin again.
LEMMA HandleEventKeeps ==
    ASSUME Inv, HandleEvent
    PROVE  Inv'
<1>1. queue \in Seq(Event) /\ queue # <<>>
  BY TypeParts DEF Inv, HandleEvent
<1>2. Head(queue) \in Event /\ queue' \in Seq(Event)
  BY <1>1 DEF HandleEvent
<1>3. bits' \subseteq Iface /\ UNCHANGED <<low, started, drv, refused>>
  BY <1>2, BitsType DEF Inv, HandleEvent
<1>4. CASE UNCHANGED <<call, raced>>
  <2>1. TypeOK'
    BY <1>2, <1>3, <1>4, TypeParts, TypePartsNext DEF Inv
  <2>2. Alone => Alone'
    BY <1>3, <1>4, NothingMoves
  <2> QED
    BY <1>4, <2>1, <2>2 DEF Inv
<1> DEFINE new == [NoCall EXCEPT !.at = "enable", !.op = "on", !.was = Radio]
<1>5. CASE Begin("event", new)
  <2>1. PICK c \in CallType : c = new
    BY RadioType DEF NoCall, CallType, Places, Ops, Iface, Modes, Confs, Inv
  <2>2. c.at = "enable" /\ c.op = "on" /\ c.was = Radio
    BY <2>1 DEF NoCall
  <2>3. Begin("event", c) /\ "event" \in Task /\ (~raced' => ~raced)
    BY <1>5, <2>1 DEF Begin, Task
  <2>4. TypeOK'
    BY <1>2, <1>3, <2>3, BeginTypes, TypeParts, TypePartsNext DEF Inv
  <2>5. Progress(c)
    BY <2>2, AskedType DEF Inv
  <2> QED
    BY <1>3, <2>2, <2>3, <2>4, <2>5, BeginAlone DEF Inv
<1> QED
  BY <1>4, <1>5 DEF HandleEvent

\* A lost link changes neither flags nor mode.
LEMMA LostKeeps ==
    ASSUME Inv, Lost
    PROVE  Inv'
<1>1. [what |-> "lost", i |-> "sta"] \in Event
  BY DEF Event, Iface
<1>2. queue' \in Seq(Event)
  BY <1>1, TypeParts DEF Inv, Lost
<1>3. UNCHANGED <<low, started, drv, bits, call, raced, refused>>
  BY DEF Lost
<1>4. TypeOK'
  BY <1>2, <1>3, TypeParts, TypePartsNext DEF Inv
<1>5. Alone => Alone'
  BY <1>3, NothingMoves
<1> QED
  BY <1>3, <1>4, <1>5 DEF Inv

\* The invariant only speaks of the variables.
LEMMA InvStays ==
    ASSUME Inv, UNCHANGED vars
    PROVE  Inv'
<1>1. TypeOK'
  BY TypeParts, TypePartsNext DEF Inv, vars
<1>2. Alone => Alone'
  BY NothingMoves DEF vars
<1> QED
  BY <1>1, <1>2 DEF Inv, vars

\* The invariant holds before the first call.
LEMMA InitHolds ==
    ASSUME Init
    PROVE  Inv
<1>1. NoCall \in CallType
  BY DEF NoCall, CallType, Places, Ops, Iface, Modes, Confs
<1>2. call \in [Task -> CallType]
  BY <1>1 DEF Init
<1>3. drv \in DriverType
  BY DEF Init, DriverType, States, Modes, Confs
<1>4. TypeOK
  <2>1. low \in BOOLEAN /\ started \in BOOLEAN /\ raced \in BOOLEAN /\ refused \in BOOLEAN
    BY DEF Init
  <2>2. queue \in Seq(Event) /\ bits \subseteq Iface
    BY DEF Init
  <2> QED
    BY <1>2, <1>3, <2>1, <2>2, TypeParts
<1>5. Quiet /\ Flags("idle") /\ Levels("idle")
  BY DEF Init, Quiet, Busy, NoCall, Flags, Levels
<1> QED
  BY <1>4, <1>5 DEF Inv, Alone, Quiet

\* Types hold in every state, and the flags and the call under way are as Alone
\* says in every state before calls of the two tasks overlap.
THEOREM RadioInvariant == Spec => []Inv
<1>1. Init => Inv
  BY InitHolds
<1>2. Inv /\ [Next]_vars => Inv'
  <2> SUFFICES ASSUME Inv, [Next]_vars PROVE Inv'
    OBVIOUS
  <2>1. ASSUME NEW t \in Task, Step(t) PROVE Inv'
    <3>1. TypeOK' /\ raced' = raced
      BY <2>1, StepTypes DEF Inv
    <3> QED
      BY <2>1, <3>1, StepAlone DEF Inv
  <2> QED
    BY <2>1, RequestKeeps, HandleEventKeeps, LostKeeps, InvStays DEF Next
<1> QED
  BY <1>1, <1>2, PTL DEF Spec

\* Between calls that never overlapped, lowLevelInitDone and _esp_wifi_started
\* say what the driver is, whatever it refused.
THEOREM FlagsAreRight == Spec => []FlagsMatchDriver
<1>1. Inv => FlagsMatchDriver
  BY TypeParts DEF Inv, Alone, FlagsMatchDriver, Flags, Levels, DriverType
<1> QED
  BY <1>1, RadioInvariant, PTL

\* A call that answers TRUE has done what it was asked for, and only that.
THEOREM AnswersAreTrue == Spec => []TrueMeansDone
<1>1. Inv => TrueMeansDone
  <2> SUFFICES ASSUME Inv, NEW t \in Task, At(t, "done"), call[t].answer, ~raced
               PROVE  LET c == call[t] IN
                      CASE c.op = "mode" -> Radio = c.goal
                        [] c.op = "on" -> Radio = c.was \cup {c.i}
                        [] c.op = "off" -> Radio = c.was \ {c.i}
                        [] c.op = "softap" -> Radio = c.was \cup {"ap"} /\ drv.conf = c.conf
                        [] c.op = "apoff" -> Radio \ {"ap"} = c.was \ {"ap"} /\ drv.conf = "blank"
                        [] c.op = "blank" -> Radio = c.was /\ drv.conf = "blank"
    BY DEF TrueMeansDone
  <2>1. call[t].op \in Ops
    BY CallParts DEF Inv
  <2>2. Progress(call[t]) /\ call[t].at = "done"
    BY DEF Inv, Alone, Running, Busy, At
  <2>3. Promise(call[t]) /\ (call[t].op = "softap" => call[t].i = "ap")
    BY <2>2 DEF Progress
  <2> HIDE DEF Radio
  <2> QED
    BY <2>1, <2>3 DEF Promise, Goal, Ops
<1> QED
  BY <1>1, RadioInvariant, PTL

(***************************************************************************)
(* The started bits, whatever the tasks interleave.                        *)
(***************************************************************************)
\* The last event of q that tells of i says, at k, that it started.
Starts(i, q, k) ==
    /\ Tells(q[k], i) /\ q[k].what = "start"
    /\ \A j \in k + 1..Len(q) : ~Tells(q[j], i)
Silent(i, q) == \A k \in 1..Len(q) : ~Tells(q[k], i)

\* The two ways a bit is set once the queue is handled.
LEMMA BitIs ==
    ASSUME NEW i, NEW q
    PROVE  BitAfter(i, q) <=> (\E k \in 1..Len(q) : Starts(i, q, k)) \/ (i \in bits /\ Silent(i, q))
BY DEF BitAfter, Starts, Silent

\* One more event is the last to tell.
LEMMA BitOfLonger ==
    ASSUME NEW i \in Iface, NEW q \in Seq(Event), NEW e \in Event
    PROVE  BitAfter(i, Append(q, e)) <=> IF Tells(e, i) THEN e.what = "start" ELSE BitAfter(i, q)
<1> DEFINE n == Len(q)
<1>1. PICK r \in Seq(Event) : r = Append(q, e)
  BY AppendProperties
<1>2. n \in Nat /\ Len(r) = n + 1 /\ r[n + 1] = e /\ \A k \in 1..n : r[k] = q[k]
  BY <1>1
<1>3. CASE Tells(e, i)
  <2>1. ~Silent(i, r)
    BY <1>2, <1>3 DEF Silent
  <2>2. ASSUME NEW k \in 1..Len(r), Starts(i, r, k)
        PROVE  e.what = "start"
    BY <1>2, <1>3, <2>2 DEF Starts
  <2>3. e.what = "start" => Starts(i, r, n + 1) /\ n + 1 \in 1..Len(r)
    BY <1>2, <1>3 DEF Starts
  <2> QED
    BY <1>1, <1>3, <2>1, <2>2, <2>3, BitIs
<1>4. CASE ~Tells(e, i)
  <2>1. Silent(i, r) <=> Silent(i, q)
    BY <1>2, <1>4 DEF Silent
  <2>2. ASSUME NEW k \in 1..Len(r), Starts(i, r, k)
        PROVE  k \in 1..n /\ Starts(i, q, k)
    BY <1>2, <1>4, <2>2 DEF Starts
  <2>3. ASSUME NEW k \in 1..n, Starts(i, q, k)
        PROVE  k \in 1..Len(r) /\ Starts(i, r, k)
    BY <1>2, <1>4, <2>3 DEF Starts
  <2>4. BitAfter(i, r) <=> BitAfter(i, q)
    BY <2>1, <2>2, <2>3, BitIs
  <2> QED
    BY <1>1, <1>4, <2>4
<1> QED
  BY <1>3, <1>4

\* The events of the interfaces S make their bits what they tell.
LEMMA BitOfEvents ==
    ASSUME NEW i \in Iface, NEW q \in Seq(Event), NEW S \in Modes, NEW w \in {"start", "stop"}
    PROVE  /\ q \o EventsOf(S, w) \in Seq(Event)
           /\ BitAfter(i, q \o EventsOf(S, w)) <=> IF i \in S THEN w = "start" ELSE BitAfter(i, q)
<1>1. ASSUME NEW x \in Iface, NEW p \in Seq(Event)
      PROVE  /\ EventOf(x, S, w) \in Seq(Event) /\ p \o EventOf(x, S, w) \in Seq(Event)
             /\ BitAfter(i, p \o EventOf(x, S, w)) <=>
                    IF i = x /\ x \in S THEN w = "start" ELSE BitAfter(i, p)
  <2> DEFINE e == [what |-> w, i |-> x]
  <2>1. e \in Event /\ e.what = w /\ e.i = x /\ (Tells(e, i) <=> i = x)
    BY DEF Event, Tells
  <2>2. CASE x \in S
    <3>1. EventOf(x, S, w) = << e >>
      BY <2>2 DEF EventOf
    <3> HIDE DEF e
    <3>2. << e >> \in Seq(Event) /\ p \o << e >> = Append(p, e) /\ Append(p, e) \in Seq(Event)
      BY <2>1, AppendIsConcat, AppendProperties
    <3>3. EventOf(x, S, w) \in Seq(Event) /\ p \o EventOf(x, S, w) = Append(p, e)
      BY <3>1, <3>2
    <3>4. BitAfter(i, Append(p, e)) <=> IF Tells(e, i) THEN e.what = "start" ELSE BitAfter(i, p)
      BY <2>1, BitOfLonger
    <3> QED
      BY <2>1, <2>2, <3>2, <3>3, <3>4
  <2>3. CASE x \notin S
    <3>1. EventOf(x, S, w) = << >> /\ p \o << >> = p
      BY <2>3 DEF EventOf
    <3> QED
      BY <2>3, <3>1
  <2> QED
    BY <2>2, <2>3
<1> DEFINE a == EventOf("sta", S, w)
           b == EventOf("ap", S, w)
<1>2. "sta" \in Iface /\ "ap" \in Iface
  BY DEF Iface
<1>3. a \in Seq(Event) /\ b \in Seq(Event) /\ q \o a \in Seq(Event) /\ q \o a \o b \in Seq(Event)
  BY <1>1, <1>2
<1>4. BitAfter(i, q \o a \o b) <=>
          IF i = "ap" /\ "ap" \in S THEN w = "start" ELSE BitAfter(i, q \o a)
  BY <1>1, <1>2, <1>3
<1>5. BitAfter(i, q \o a) <=> IF i = "sta" /\ "sta" \in S THEN w = "start" ELSE BitAfter(i, q)
  BY <1>1, <1>2
<1>6. EventsOf(S, w) = a \o b
  BY DEF EventsOf
<1> HIDE DEF a, b
<1>7. q \o EventsOf(S, w) = q \o a \o b
  BY <1>3, <1>6
<1> QED
  BY <1>3, <1>4, <1>5, <1>7 DEF Iface

\* What a change of the mode reports is what changed.
LEMMA BitOfReport ==
    ASSUME TypeOK, NEW i \in Iface, NEW from \in Modes, NEW to \in Modes,
           BitAfter(i, queue) <=> i \in from, Report(from, to), UNCHANGED bits
    PROVE  BitAfter(i, queue)' <=> i \in to
<1>1. queue \in Seq(Event) /\ from \ to \in Modes /\ to \ from \in Modes
  BY TypeParts DEF Modes
<1>2. PICK p \in Seq(Event) : p = queue \o EventsOf(from \ to, "stop")
  BY <1>1, BitOfEvents
<1>3. BitAfter(i, p) <=> IF i \in from \ to THEN FALSE ELSE BitAfter(i, queue)
  BY <1>1, <1>2, BitOfEvents
<1>4. PICK r \in Seq(Event) : r = p \o EventsOf(to \ from, "start")
  BY <1>1, BitOfEvents
<1>5. BitAfter(i, r) <=> IF i \in to \ from THEN TRUE ELSE BitAfter(i, p)
  BY <1>1, <1>4, BitOfEvents
<1>6. queue' = r
  BY <1>2, <1>4 DEF Report
<1>7. BitAfter(i, queue)' <=> BitAfter(i, r)
  BY <1>6 DEF BitAfter
<1> QED
  BY <1>3, <1>5, <1>7

\* The event task handles the first event.
LEMMA BitOfShorter ==
    ASSUME TypeOK, NEW i \in Iface, queue # <<>>,
           queue' = Tail(queue), bits' = BitsAfter(Head(queue), bits)
    PROVE  BitAfter(i, queue)' <=> BitAfter(i, queue)
<1>1. PICK q \in Seq(Event) : q = queue
  BY TypeParts
<1>2. PICK r \in Seq(Event) : r = Tail(q)
  BY <1>1
<1> DEFINE n == Len(q)
<1>3. /\ n \in Nat /\ n > 0 /\ Len(r) = n - 1 /\ q[1] = Head(q) /\ q[1] \in Event
      /\ \A k \in 1..n - 1 : r[k] = q[k + 1]
  BY <1>1, <1>2
<1>4. i \in bits' <=> IF Tells(q[1], i) THEN q[1].what = "start" ELSE i \in bits
  BY <1>1, <1>3 DEF BitsAfter, Tells, Event
<1>5. BitAfter(i, queue)' <=>
         (\E k \in 1..Len(r) : Starts(i, r, k)) \/ (i \in bits' /\ Silent(i, r))
  BY <1>1, <1>2 DEF BitAfter, Starts, Silent
<1>6. Silent(i, r) <=> \A k \in 2..n : ~Tells(q[k], i)
  <2>1. ASSUME Silent(i, r), NEW k \in 2..n
        PROVE  ~Tells(q[k], i)
    <3>1. k - 1 \in 1..n - 1 /\ r[k - 1] = q[k - 1 + 1] /\ k - 1 + 1 = k
      BY <1>3
    <3> QED
      BY <1>3, <2>1, <3>1 DEF Silent
  <2>2. ASSUME \A k \in 2..n : ~Tells(q[k], i)
        PROVE  Silent(i, r)
    BY <1>3, <2>2 DEF Silent
  <2> QED
    BY <2>1, <2>2
<1>7. ASSUME NEW k \in 1..n - 1
      PROVE  Starts(i, r, k) <=> Starts(i, q, k + 1)
  <2>1. ASSUME Starts(i, r, k), NEW j \in k + 2..n
        PROVE  ~Tells(q[j], i)
    <3>1. j - 1 \in k + 1..n - 1 /\ j - 1 \in 1..n - 1 /\ j - 1 + 1 = j
      BY <1>3
    <3> QED
      BY <1>3, <2>1, <3>1 DEF Starts
  <2>2. ASSUME Starts(i, q, k + 1), NEW j \in k + 1..n - 1
        PROVE  ~Tells(r[j], i)
    BY <1>3, <2>2 DEF Starts
  <2> QED
    BY <1>3, <2>1, <2>2 DEF Starts
<1>8. Starts(i, q, 1) <=> q[1].what = "start" /\ Tells(q[1], i) /\ Silent(i, r)
  BY <1>3, <1>6 DEF Starts
<1>9. (\E k \in 1..n : Starts(i, q, k)) <=>
          Starts(i, q, 1) \/ \E k \in 1..n - 1 : Starts(i, r, k)
  <2>1. ASSUME NEW k \in 2..n, Starts(i, q, k)
        PROVE  \E j \in 1..n - 1 : Starts(i, r, j)
    <3>1. k - 1 \in 1..n - 1 /\ k - 1 + 1 = k
      BY <1>3
    <3> QED
      BY <1>7, <2>1, <3>1
  <2> QED
    BY <1>3, <1>7, <2>1
<1>10. Silent(i, q) <=> ~Tells(q[1], i) /\ Silent(i, r)
  BY <1>3, <1>6 DEF Silent
<1>11. BitAfter(i, queue) <=>
          (\E k \in 1..n : Starts(i, q, k)) \/ (i \in bits /\ Silent(i, q))
  BY <1>1, BitIs
<1> QED
  BY <1>3, <1>4, <1>5, <1>8, <1>9, <1>10, <1>11

\* A step that leaves mode, queue and bits alone keeps what the bits tell.
LEMMA RadioStays ==
    ASSUME UNCHANGED <<drv, queue, bits>>, BitsFollowRadio
    PROVE  BitsFollowRadio'
BY DEF BitsFollowRadio, BitAfter, Radio

\* A change of mode queues the events that make the bits follow it.
LEMMA ReportFollows ==
    ASSUME TypeOK, TypeOK', BitsFollowRadio, Report(Radio, Radio'), UNCHANGED bits
    PROVE  BitsFollowRadio'
<1>1. Radio \in Modes /\ Radio' \in Modes
  BY TypeParts, RadioType, RadioTypeNext
<1> SUFFICES ASSUME NEW i \in Iface PROVE BitAfter(i, queue)' <=> i \in Radio'
  BY DEF BitsFollowRadio
<1> QED
  BY <1>1, BitOfReport DEF BitsFollowRadio

\* Only three steps change the radio, and each reports what it changed.
LEMMA StepFollows ==
    ASSUME TypeOK, NEW t \in Task, Step(t), BitsFollowRadio
    PROVE  BitsFollowRadio'
<1>1. TypeOK'
  BY StepTypes
<1>2. CASE UNCHANGED <<drv, queue, bits>>
  BY <1>2, RadioStays
<1>3. CASE Report(Radio, Radio') /\ UNCHANGED bits
  BY <1>1, <1>3, ReportFollows
<1>4. CASE Radio' = Radio /\ UNCHANGED <<queue, bits>>
  BY <1>4 DEF BitsFollowRadio, BitAfter
<1>5. CASE SetMode(t) \/ StartDriver(t)
  BY <1>2, <1>3, <1>5 DEF SetMode, StartDriver
<1>6. CASE StopDriver(t)
  <2>1. CASE drv' = [drv EXCEPT !.state = "init"] /\ Report(Radio, {}) /\ UNCHANGED bits
    <3>1. Radio' = {}
      BY <2>1, TypeParts DEF Radio, DriverType
    <3> QED
      BY <1>3, <2>1, <3>1
  <2> QED
    BY <1>2, <1>6, <2>1 DEF StopDriver
<1>7. CASE InitDriver(t) \/ Deinit(t)
  <2>1. ASSUME drv' = [drv EXCEPT !.state = IF @ = "none" THEN "init" ELSE @]
        PROVE  Radio' = Radio
    BY <2>1, TypeParts DEF Radio, DriverType
  <2>2. ASSUME drv.state = "init", drv' = [drv EXCEPT !.state = "none"]
        PROVE  Radio' = Radio
    BY <2>2, TypeParts DEF Radio, DriverType
  <2> QED
    BY <1>2, <1>4, <1>7, <2>1, <2>2 DEF InitDriver, Deinit
<1>8. CASE SetConfig(t) \/ BlankConfig(t)
  <2>1. ASSUME NEW c, drv' = [drv EXCEPT !.conf = c]
        PROVE  Radio' = Radio
    BY <2>1, TypeParts DEF Radio, DriverType
  <2> QED
    BY <1>2, <1>4, <1>8, <2>1 DEF SetConfig, BlankConfig
<1>9. CASE Enable(t) \/ ModeCall(t) \/ InitCheck(t) \/ SetStorage(t) \/ InitAnswer(t)
           \/ StartCheck(t) \/ StopCheck(t) \/ InitSet(t) \/ StartSet(t) \/ StopSet(t) \/ Return(t)
  BY <1>2, <1>9
     DEF Enable, ModeCall, InitCheck, InitSet, SetStorage, InitAnswer, StartCheck, StartSet,
         StopCheck, StopSet, Return
<1> QED
  BY <1>5, <1>6, <1>7, <1>8, <1>9 DEF Step

\* In whatever order the two tasks switch the radio, the started bits are what
\* the radio is once the events that wait are handled.
THEOREM BitsAreRight == Spec => []BitsFollowRadio
<1>1. Init => BitsFollowRadio
  BY DEF Init, BitsFollowRadio, BitAfter, Radio
<1>2. TypeOK /\ TypeOK' /\ BitsFollowRadio /\ [Next]_vars => BitsFollowRadio'
  <2> SUFFICES ASSUME TypeOK, TypeOK', BitsFollowRadio, [Next]_vars PROVE BitsFollowRadio'
    OBVIOUS
  <2>1. CASE UNCHANGED vars \/ Request
    BY <2>1, RadioStays DEF vars, Request, Ask
  <2>2. CASE HandleEvent
    <3>1. \A i \in Iface : BitAfter(i, queue)' <=> BitAfter(i, queue)
      BY <2>2, BitOfShorter DEF HandleEvent
    <3>2. Radio' = Radio
      BY <2>2 DEF HandleEvent, Radio
    <3> QED
      BY <3>1, <3>2 DEF BitsFollowRadio
  <2>3. CASE Lost
    <3> DEFINE e == [what |-> "lost", i |-> "sta"]
    <3>1. e \in Event /\ \A i \in Iface : ~Tells(e, i)
      BY DEF Event, Iface, Tells
    <3>2. queue' = Append(queue, e) /\ UNCHANGED <<drv, bits>>
      BY <2>3 DEF Lost
    <3> HIDE DEF e
    <3>3. PICK r \in Seq(Event) : r = Append(queue, e)
      BY <3>1, TypeParts, AppendProperties
    <3>4. ASSUME NEW i \in Iface
          PROVE  BitAfter(i, queue)' <=> BitAfter(i, queue)
      <4>1. BitAfter(i, r) <=> BitAfter(i, queue)
        BY <3>1, <3>3, BitOfLonger, TypeParts
      <4>2. BitAfter(i, queue)' <=> BitAfter(i, r)
        BY <3>2, <3>3 DEF BitAfter
      <4> QED
        BY <4>1, <4>2
    <3> QED
      BY <3>2, <3>4 DEF BitsFollowRadio, Radio
  <2>4. CASE \E t \in Task : Step(t)
    BY <2>4, StepFollows
  <2> QED
    BY <2>1, <2>2, <2>3, <2>4 DEF Next
<1>3. Inv => TypeOK
  BY DEF Inv
<1> QED
  BY <1>1, <1>2, <1>3, RadioInvariant, PTL DEF Spec

================================================================================
