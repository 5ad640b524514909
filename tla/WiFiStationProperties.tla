------------------------ MODULE WiFiStationProperties ------------------------
(***************************************************************************)
(* What a sketch may rely on of WiFi.status(), of the automatic reconnect  *)
(* and of its own calls.                                                   *)
(***************************************************************************)
EXTENDS WiFiStation

Quiet == events = <<>> /\ task.pc = "wait"

\* Once every event is handled, a station that is online is WL_CONNECTED,
\* WL_CONNECTED means that the station has its link and an address not yet given
\* up (unless the last loss was an AUTH_EXPIRE, for which _eventCallback sets no
\* status), and the bits of the network event group agree with the link and the
\* address: no order of losses, retries and late events ends otherwise.
StatusIsTrue ==
    Quiet =>
        /\ link = "online" => status = "CONNECTED"
        /\ status = "CONNECTED" =>
              \/ link = "online"
              \/ link = "associated" /\ lease
              \/ "AUTH_EXPIRE" \in staleBy
        /\ "CONNECTED" \in bits <=> link \in {"associated", "online"}
        /\ "HAS_IP" \in bits => lease

\* A retry of the event task is an attempt to connect, or begin() has answered
\* with an error, whatever the sketch and the driver do between its disconnect(),
\* which may fail, and its begin(); AUTH_EXPIRE apart.
RetryConnects ==
    [][task.pc = "begin" /\ task'.pc = "wait" /\ task.event.reason # "AUTH_EXPIRE"
          => link' # "idle" \/ refused']_vars

Unwanted(e) == e.id = "STA_DISCONNECTED" /\ e.reason # "ASSOC_LEAVE"
RetryDue ==
    \/ task.pc # "wait" /\ Unwanted(task.event)
    \/ \E i \in 1..Len(events) : Unwanted(events[i])

\* After WiFi.disconnect() the library does not connect on its own, unless a
\* loss the sketch did not ask for was still to be handled.
LeaveHolds ==
    [][sketch = "left" /\ sketch' = "left" /\ ~RetryDue =>
          ~(link = "idle" /\ link' = "connecting")]_vars

\* An attempt to connect ends with WL_CONNECTED, however often the link fails
\* for a reason the library retries, if the sketch leaves it alone.  AUTH_FAIL
\* and OTHER are not retried; the retry of AUTH_EXPIRE may do nothing; a retry
\* that begin() answers with an error is not repeated.
Unretried == {"AUTH_FAIL", "AUTH_EXPIRE", "OTHER"}
GivenUp ==
    \/ ~autoReconnect \/ refused \/ sketch \in {"left", "reconnecting"}
    \/ task.event.reason \in Unretried
    \/ \E i \in 1..Len(events) : events[i].reason \in Unretried

Reconnects == (link = "connecting") ~> (status = "CONNECTED" \/ GivenUp)
===============================================================================
