------------------------------ MODULE WiFiStation ------------------------------
(***************************************************************************)
(* The station side of the WiFi library the locker is built with.          *)
(*                                                                         *)
(* Three actors share the state: the driver, which makes and loses the     *)
(* link and posts events; the arduino event task, which takes one event at *)
(* a time, publishes a status and may call WiFi.disconnect(), WiFi.begin() *)
(* itself; and the sketch, which calls begin(ssid), waits in setup() for   *)
(* WL_CONNECTED and may later use the other calls of WiFiSTA.              *)
(*                                                                         *)
(* The queue of the IDF event loop and the arduino queue of 32 behind it   *)
(* are one FIFO here.  The driver is modelled from how the library calls   *)
(* it: esp_wifi_connect acts on an idle link only, esp_wifi_disconnect     *)
(* reports ASSOC_LEAVE when it breaks a link or an attempt.                *)
(***************************************************************************)
EXTENDS Naturals, Sequences

CONSTANTS
    Reason,         \* what the driver may give as the reason of a loss
    Calls,          \* what the sketch calls after setup()
    MaxEvents       \* events in flight

Reasons == {"NO_AP_FOUND", "AUTH_FAIL", "BEACON_TIMEOUT", "HANDSHAKE_TIMEOUT",
            "AUTH_EXPIRE", "ASSOC_FAIL", "ASSOC_LEAVE", "UNSPECIFIED", "OTHER"}

ASSUME StationAssumption ==
    /\ Reason \subseteq Reasons \ {"ASSOC_LEAVE"}
    /\ Calls \subseteq {"begin", "reconnect", "disconnect", "setAutoReconnect"}
    /\ MaxEvents \in Nat \ {0}

VARIABLES
    link,           \* the driver: off, idle, connecting, associated, online
    lease,          \* the netif still holds, or is about to give up, an address
    events,         \* posted and not yet taken
    status,         \* the bits of _sta_status_group, as a wl_status_t
    bits,           \* the STA bits of the network event group
    firstConnect,   \* first_connect of _eventCallback
    task,           \* where the event task is, and with which event
    sketch,         \* where the sketch is
    autoReconnect,  \* _autoReconnect
    staleBy,        \* a handled loss left the status alone
    refused         \* the last begin() or reconnect() ended with an error

vars == <<link, lease, events, status, bits, firstConnect, task, sketch, autoReconnect,
          staleBy, refused>>

Loss(r) == [id |-> "STA_DISCONNECTED", reason |-> r]
Event(id) == [id |-> id, reason |-> "UNSPECIFIED"]
Nothing == Event("NONE")
EventId == {"STA_START", "STA_CONNECTED", "STA_DISCONNECTED",
            "STA_GOT_IP", "STA_LOST_IP", "NONE"}
Status == {"NO_SHIELD", "IDLE", "NO_SSID_AVAIL", "CONNECTED", "CONNECT_FAILED",
           "CONNECTION_LOST", "DISCONNECTED"}

TypeOK ==
    /\ link \in {"off", "idle", "connecting", "associated", "online"}
    /\ lease \in BOOLEAN
    /\ events \in Seq([id : EventId, reason : Reasons])
    /\ Len(events) <= MaxEvents + 2
    /\ status \in Status
    /\ bits \subseteq {"STARTED", "CONNECTED", "HAS_IP"}
    /\ firstConnect \in BOOLEAN
    /\ task \in [pc : {"wait", "set", "bits", "failed", "disconnect", "begin"},
                 event : [id : EventId, reason : Reasons]]
    /\ task.pc \in {"disconnect", "begin", "failed"} => ~firstConnect
    /\ sketch \in {"start", "setup", "run", "reconnecting", "left"}
    /\ autoReconnect \in BOOLEAN
    /\ staleBy \subseteq {"AUTH_EXPIRE"}
    /\ refused \in BOOLEAN

Init ==
    /\ link = "off" /\ lease = FALSE /\ events = <<>>
    /\ status = "NO_SHIELD" /\ bits = {} /\ firstConnect = TRUE
    /\ task = [pc |-> "wait", event |-> Nothing]
    /\ sketch = "start" /\ autoReconnect = TRUE /\ staleBy = {}
    /\ refused = FALSE

Room == Len(events) < MaxEvents

Post(e) == events' = Append(events, e)

(***************************************************************************)
(* The driver.                                                             *)
(***************************************************************************)
driver == <<link, lease, events>>
published == <<status, bits, firstConnect, autoReconnect, staleBy>>
library == <<published, task, refused>>

Associate ==
    /\ link = "connecting" /\ Room
    /\ link' = "associated" /\ Post(Event("STA_CONNECTED"))
    /\ UNCHANGED <<lease, sketch, library>>

GetIP ==
    /\ link = "associated" /\ Room
    /\ link' = "online" /\ lease' = TRUE /\ Post(Event("STA_GOT_IP"))
    /\ UNCHANGED <<sketch, library>>

Lose(r) ==
    /\ link \in {"connecting", "associated", "online"} /\ Room
    /\ r = "NO_AP_FOUND" => link = "connecting"
    /\ r = "BEACON_TIMEOUT" => link # "connecting"
    /\ link' = "idle" /\ Post(Loss(r))
    /\ UNCHANGED <<lease, sketch, library>>

LeaseExpires ==     \* no event until the lost-address timer fires
    /\ link = "online" /\ link' = "associated"
    /\ UNCHANGED <<lease, events, sketch, library>>

LoseIP ==
    /\ lease /\ link # "online" /\ Room
    /\ lease' = FALSE /\ Post(Event("STA_LOST_IP"))
    /\ UNCHANGED <<link, sketch, library>>

Start ==            \* enableSTA(true), with the network event task of tcpipInit
    /\ link = "off"
    /\ link' = "idle" /\ Post(Event("STA_START"))

Connect == link' = IF link = "idle" THEN "connecting" ELSE link

Disconnect ==
    IF link \in {"connecting", "associated", "online"}
    THEN link' = "idle" /\ Post(Loss("ASSOC_LEAVE"))
    ELSE UNCHANGED <<link, events>>

\* disconnect() answers FALSE when the mode cannot be read or the driver refuses.
DisconnectFails == UNCHANGED <<link, events>>

(***************************************************************************)
(* The event task.  _setStatus clears the group and then sets the value,   *)
(* so a reader in between finds 0, which is WL_IDLE_STATUS.                *)
(***************************************************************************)
\* Wrong: a lost beacon is not worth a retry.
Reconnectable_NoBeacon ==
    Reasons \ {"AUTH_FAIL", "ASSOC_LEAVE", "OTHER", "BEACON_TIMEOUT"}

\* OTHER stands for the reasons that get no status and no retry of their own.
Reconnectable == Reasons \ {"AUTH_FAIL", "ASSOC_LEAVE", "OTHER"}

LossStatus(r) ==
    CASE r = "NO_AP_FOUND" -> {"NO_SSID_AVAIL"}
      [] r = "AUTH_FAIL" /\ ~firstConnect -> {"CONNECT_FAILED"}
      [] r \in {"BEACON_TIMEOUT", "HANDSHAKE_TIMEOUT"} -> {"CONNECTION_LOST"}
      [] r = "AUTH_EXPIRE" -> {}
      [] OTHER -> {"DISCONNECTED"}

\* Wrong: a lost address leaves the status alone.
NewStatus_KeepsOnLostIp(e) ==
    CASE e.id = "STA_START" -> {"DISCONNECTED"}
      [] e.id = "STA_CONNECTED" -> {"IDLE"}
      [] e.id = "STA_GOT_IP" -> {"CONNECTED"}
      [] e.id = "STA_LOST_IP" -> {}
      [] OTHER -> LossStatus(e.reason)

\* The status an event sets: none or one.
NewStatus(e) ==
    CASE e.id = "STA_START" -> {"DISCONNECTED"}
      [] e.id \in {"STA_CONNECTED", "STA_LOST_IP"} -> {"IDLE"}
      [] e.id = "STA_GOT_IP" -> {"CONNECTED"}
      [] OTHER -> LossStatus(e.reason)

NewBits(e) ==
    CASE e.id = "STA_START" -> bits \cup {"STARTED"}
      [] e.id = "STA_CONNECTED" -> bits \cup {"CONNECTED"}
      [] e.id = "STA_GOT_IP" -> bits \cup {"CONNECTED", "HAS_IP"}
      [] e.id = "STA_LOST_IP" -> bits \ {"HAS_IP"}
      [] OTHER -> bits \ {"CONNECTED", "HAS_IP"}

\* Wrong: the first loss is retried even when it was asked for.
AfterLoss_RetriesLeave(r) ==
    IF firstConnect \/ (autoReconnect /\ r \in Reconnectable) THEN "disconnect"
    ELSE IF r = "ASSOC_FAIL" THEN "failed" ELSE "wait"

AfterLoss(r) ==
    IF r # "ASSOC_LEAVE" /\ (firstConnect \/ (autoReconnect /\ r \in Reconnectable))
    THEN "disconnect"
    ELSE IF r = "ASSOC_FAIL" THEN "failed" ELSE "wait"

TakeEvent ==
    /\ task.pc = "wait" /\ events # <<>>
    /\ LET e == Head(events)
           keeps == NewStatus(e) = {} IN
       /\ events' = Tail(events)
       /\ status' = IF keeps THEN status ELSE "IDLE"
       /\ task' = [pc |-> IF keeps THEN "bits" ELSE "set", event |-> e]
       /\ staleBy' = IF keeps THEN {e.reason} ELSE {}
    /\ UNCHANGED <<link, lease, bits, firstConnect, sketch, autoReconnect, refused>>

SetStatus ==
    /\ task.pc = "set"
    /\ status' \in NewStatus(task.event)
    /\ task' = [task EXCEPT !.pc = "bits"]
    /\ UNCHANGED <<driver, bits, firstConnect, sketch, autoReconnect, staleBy, refused>>

SetBits ==
    LET e == task.event
        loss == e.id = "STA_DISCONNECTED" IN
    /\ task.pc = "bits"
    /\ bits' = NewBits(e)
    /\ firstConnect' = (firstConnect /\ ~(loss /\ e.reason # "ASSOC_LEAVE"))
    /\ task' = [task EXCEPT !.pc = IF loss THEN AfterLoss(e.reason) ELSE "wait"]
    /\ UNCHANGED <<driver, status, sketch, autoReconnect, staleBy, refused>>

SetFailed ==        \* the second _setStatus of a loss, in one step
    /\ task.pc = "failed"
    /\ status' = "CONNECT_FAILED"
    /\ task' = [task EXCEPT !.pc = "wait"]
    /\ UNCHANGED <<driver, bits, firstConnect, sketch, autoReconnect, staleBy, refused>>

TaskDisconnect ==   \* its answer is not looked at
    /\ task.pc = "disconnect"
    /\ Disconnect \/ DisconnectFails
    /\ task' = [task EXCEPT !.pc = "begin"]
    /\ UNCHANGED <<lease, published, sketch, refused>>

\* esp_wifi_connect, or what has to succeed before it.
Attempt ==
    \/ Connect /\ refused' = FALSE
    \/ UNCHANGED link /\ refused' = TRUE

\* begin(): the station is enabled, the stored configuration written back and the
\* address set, each of which may fail, and then the driver connects if the
\* published status is not WL_CONNECTED.
BeginConnects ==
    \/ status # "CONNECTED" /\ Attempt
    \/ status = "CONNECTED" /\ refused' \in BOOLEAN /\ UNCHANGED link

\* Wrong: the event task leaves the reconnection to the driver.
TaskBegin_Forgets ==
    /\ task.pc = "begin"
    /\ task' = [task EXCEPT !.pc = "wait"]
    /\ UNCHANGED <<driver, published, sketch, refused>>

TaskBegin ==
    /\ task.pc = "begin"
    /\ BeginConnects
    /\ task' = [task EXCEPT !.pc = "wait"]
    /\ UNCHANGED <<lease, events, published, sketch>>

EventTask ==
    \/ TakeEvent \/ SetStatus \/ SetBits \/ SetFailed
    \/ TaskDisconnect \/ TaskBegin

(***************************************************************************)
(* The sketch.                                                             *)
(***************************************************************************)
SketchStart ==      \* begin(ssid), part one: the station is enabled
    /\ sketch = "start" /\ Start
    /\ UNCHANGED <<lease, sketch, library>>

SketchConnect ==    \* begin(ssid), part two: configured and connecting
    /\ sketch = "start" /\ link = "idle"
    /\ Connect /\ sketch' = "setup"
    /\ UNCHANGED <<lease, events, library>>

SketchBeginFails == \* begin(ssid) returns WL_CONNECT_FAILED, which setup() ignores
    /\ sketch = "start" /\ link \in {"off", "idle"}
    /\ sketch' = "setup" /\ refused' = TRUE
    /\ UNCHANGED <<driver, published, task>>

Poll ==
    /\ sketch = "setup" /\ status = "CONNECTED"
    /\ sketch' = "run"
    /\ UNCHANGED <<driver, library>>

CallDisconnect ==
    /\ "disconnect" \in Calls /\ sketch = "run" /\ Room
    /\ Disconnect \/ DisconnectFails
    /\ sketch' = "left"
    /\ UNCHANGED <<lease, library>>

CallBegin ==
    /\ "begin" \in Calls /\ sketch = "left"
    /\ BeginConnects /\ sketch' = "run"
    /\ UNCHANGED <<lease, events, published, task>>

CallReconnect ==    \* a disconnect that fails ends it and changes nothing
    /\ "reconnect" \in Calls /\ sketch = "run" /\ Room
    /\ Disconnect /\ sketch' = "reconnecting"
    /\ UNCHANGED <<lease, library>>

ReconnectConnects ==
    /\ sketch = "reconnecting"
    /\ Attempt /\ sketch' = "run"
    /\ UNCHANGED <<lease, events, published, task>>

SetAutoReconnect ==
    /\ "setAutoReconnect" \in Calls /\ sketch \in {"start", "run"}
    /\ autoReconnect' \in BOOLEAN
    /\ UNCHANGED <<driver, status, bits, firstConnect, task, sketch, staleBy, refused>>

Driver ==
    \/ Associate \/ GetIP \/ LeaseExpires \/ LoseIP
    \/ \E r \in Reason : Lose(r)

Sketch ==
    \/ SketchStart \/ SketchConnect \/ SketchBeginFails \/ Poll
    \/ CallDisconnect \/ CallBegin \/ CallReconnect \/ ReconnectConnects
    \/ SetAutoReconnect

Next == Driver \/ EventTask \/ Sketch

Spec == Init /\ [][Next]_vars

(***************************************************************************)
(* The event task is a FreeRTOS task that runs whenever its queue is not   *)
(* empty.  Of the access point it is assumed that an attempt repeated for  *)
(* ever succeeds in the end.                                               *)
(***************************************************************************)
FairSpec ==
    /\ Spec
    /\ WF_vars(EventTask) /\ WF_vars(SketchConnect) /\ WF_vars(ReconnectConnects)
    /\ SF_vars(Associate) /\ SF_vars(GetIP)
===============================================================================
