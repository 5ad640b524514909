--------------------------- MODULE WiFiStationProofs ---------------------------
(***************************************************************************)
(* The station, for every set of reasons the driver may give, every choice *)
(* of calls and any number of events in flight: what is published is true  *)
(* once every event is handled, a retry is an attempt, and a station the   *)
(* sketch has left stays left.                                             *)
(***************************************************************************)
EXTENDS WiFiStationProperties, SequenceTheorems, TLAPS

Ev == [id : EventId \ {"NONE"}, reason : Reasons]
Links == {"off", "idle", "connecting", "associated", "online"}
Pcs == {"wait", "set", "bits", "failed", "disconnect", "begin"}
TaskType == [pc : Pcs, event : Ev \cup {Nothing}]

(***************************************************************************)
(* The inductive invariant.                                                *)
(***************************************************************************)
Types ==
    /\ link \in Links /\ lease \in BOOLEAN
    /\ events \in Seq(Ev) /\ status \in Status
    /\ bits \subseteq {"STARTED", "CONNECTED", "HAS_IP"}
    /\ firstConnect \in BOOLEAN /\ task \in TaskType /\ (task.pc # "wait" => task.event \in Ev)
    /\ autoReconnect \in BOOLEAN /\ staleBy \subseteq {"AUTH_EXPIRE"}

Expired(e) == e.id = "STA_DISCONNECTED" /\ e.reason = "AUTH_EXPIRE"

\* The address an event of GOT_IP, or a published WL_CONNECTED, speaks of.
Addressed == link = "online" \/ (link = "associated" /\ lease)

\* Where the event task is with its event: its status is published before its
\* bits, and what follows the bits is the retry of a loss nobody asked for.
Handling ==
    /\ task.pc = "set" => ~Expired(task.event)
    /\ task.pc = "bits" =>
        IF Expired(task.event) THEN "AUTH_EXPIRE" \in staleBy
        ELSE status \in NewStatus(task.event)
    /\ task.pc \in {"failed", "disconnect", "begin"} =>
        /\ Unwanted(task.event)
        /\ IF Expired(task.event) THEN "AUTH_EXPIRE" \in staleBy ELSE status # "CONNECTED"

\* The youngest event, or what is published if there is none, is what the
\* link is; GOT_IP is the youngest event of a station that is online.
Youngest ==
    /\ events # <<>> =>
        LET e == events[Len(events)] IN
        /\ e.id = "STA_GOT_IP" => Addressed
        /\ link = "online" => e.id = "STA_GOT_IP"
    /\ events = <<>> /\ task.pc \in {"set", "bits"} =>
        /\ task.event.id = "STA_GOT_IP" => Addressed
        /\ link = "online" => task.event.id = "STA_GOT_IP"
    /\ events = <<>> /\ task.pc \notin {"set", "bits"} =>
        /\ status = "CONNECTED" => Addressed \/ "AUTH_EXPIRE" \in staleBy
        /\ link = "online" => status = "CONNECTED" /\ task.pc = "wait"

\* The bits once the event that is being handled has set them.
BitsOf(e, b) ==
    CASE e.id = "STA_START" -> b \cup {"STARTED"}
      [] e.id = "STA_CONNECTED" -> b \cup {"CONNECTED"}
      [] e.id = "STA_GOT_IP" -> b \cup {"CONNECTED", "HAS_IP"}
      [] e.id = "STA_LOST_IP" -> b \ {"HAS_IP"}
      [] OTHER -> b \ {"CONNECTED", "HAS_IP"}
Now == IF task.pc \in {"set", "bits"} THEN BitsOf(task.event, bits) ELSE bits

\* Bit x of b once the events of q are handled: what the last event that tells
\* of it says, or what it is now.
Tells(x, e) ==
    \/ x = "CONNECTED" /\ e.id \in {"STA_CONNECTED", "STA_GOT_IP", "STA_DISCONNECTED"}
    \/ x = "HAS_IP" /\ e.id \in {"STA_GOT_IP", "STA_LOST_IP", "STA_DISCONNECTED"}
Raises(x, e) ==
    \/ e.id = "STA_GOT_IP"
    \/ x = "CONNECTED" /\ e.id = "STA_CONNECTED"
RaisedAt(x, q, k) ==
    /\ Tells(x, q[k]) /\ Raises(x, q[k])
    /\ \A j \in k + 1..Len(q) : ~Tells(x, q[j])
Silent(x, q) == \A k \in 1..Len(q) : ~Tells(x, q[k])
After(x, q, b) == (\E k \in 1..Len(q) : RaisedAt(x, q, k)) \/ (x \in b /\ Silent(x, q))

\* The driver posts whatever changes the link or the address.
Posted ==
    /\ After("CONNECTED", events, Now) <=> link \in {"associated", "online"}
    /\ After("HAS_IP", events, Now) => lease
    /\ link = "online" => lease

Inv == Types /\ Handling /\ Youngest /\ Posted

(***************************************************************************)
(* Bits after events.                                                      *)
(***************************************************************************)
Bit == {"CONNECTED", "HAS_IP"}

\* Handling an event changes the bits it tells of.
LEMMA BitsOfTells ==
    ASSUME NEW x \in Bit, NEW e \in Ev, NEW b
    PROVE  x \in BitsOf(e, b) <=> IF Tells(x, e) THEN Raises(x, e) ELSE x \in b
BY DEF Bit, Ev, EventId, BitsOf, Tells, Raises

\* One more event is the last to tell.
LEMMA AfterLonger ==
    ASSUME NEW x \in Bit, NEW q \in Seq(Ev), NEW e \in Ev, NEW b
    PROVE  After(x, Append(q, e), b) <=> IF Tells(x, e) THEN Raises(x, e) ELSE After(x, q, b)
<1> DEFINE n == Len(q)
<1>1. PICK r \in Seq(Ev) : r = Append(q, e)
  BY AppendProperties
<1>2. n \in Nat /\ Len(r) = n + 1 /\ r[n + 1] = e /\ \A k \in 1..n : r[k] = q[k]
  BY <1>1
<1>3. CASE Tells(x, e)
  <2>1. ~Silent(x, r)
    BY <1>2, <1>3 DEF Silent
  <2>2. ASSUME NEW k \in 1..Len(r), RaisedAt(x, r, k)
        PROVE  Raises(x, e)
    BY <1>2, <1>3, <2>2 DEF RaisedAt
  <2>3. Raises(x, e) => RaisedAt(x, r, n + 1) /\ n + 1 \in 1..Len(r)
    BY <1>2, <1>3 DEF RaisedAt
  <2>4. After(x, r, b) <=> Raises(x, e)
    BY <2>1, <2>2, <2>3 DEF After
  <2> QED
    BY <1>1, <1>3, <2>4
<1>4. CASE ~Tells(x, e)
  <2>1. Silent(x, r) <=> Silent(x, q)
    BY <1>2, <1>4 DEF Silent
  <2>2. ASSUME NEW k \in 1..Len(r), RaisedAt(x, r, k)
        PROVE  k \in 1..n /\ RaisedAt(x, q, k)
    BY <1>2, <1>4, <2>2 DEF RaisedAt
  <2>3. ASSUME NEW k \in 1..n, RaisedAt(x, q, k)
        PROVE  k \in 1..Len(r) /\ RaisedAt(x, r, k)
    BY <1>2, <1>4, <2>3 DEF RaisedAt
  <2>4. After(x, r, b) <=> After(x, q, b)
    BY <2>1, <2>2, <2>3 DEF After
  <2> QED
    BY <1>1, <1>4, <2>4
<1> QED
  BY <1>3, <1>4

\* Handling the first event is what the rest of the queue starts from.
LEMMA AfterShorter ==
    ASSUME NEW x \in Bit, NEW q \in Seq(Ev), q # <<>>, NEW b
    PROVE  After(x, Tail(q), BitsOf(Head(q), b)) <=> After(x, q, b)
<1>1. PICK r \in Seq(Ev) : r = Tail(q)
  BY HeadTailProperties
<1> DEFINE n == Len(q)
<1>2. PICK c : c = BitsOf(Head(q), b)
  OBVIOUS
<1>3. /\ n \in Nat /\ n > 0 /\ Len(r) = n - 1 /\ q[1] = Head(q) /\ q[1] \in Ev
      /\ \A k \in 1..n - 1 : r[k] = q[k + 1]
  BY <1>1
<1>4. x \in c <=> IF Tells(x, q[1]) THEN Raises(x, q[1]) ELSE x \in b
  BY <1>2, <1>3, BitsOfTells
<1>5. Silent(x, r) <=> \A k \in 2..n : ~Tells(x, q[k])
  <2>1. ASSUME Silent(x, r), NEW k \in 2..n
        PROVE  ~Tells(x, q[k])
    <3>1. k - 1 \in 1..n - 1 /\ k - 1 + 1 = k
      BY <1>3
    <3> QED
      BY <1>3, <2>1, <3>1 DEF Silent
  <2>2. ASSUME \A k \in 2..n : ~Tells(x, q[k])
        PROVE  Silent(x, r)
    BY <1>3, <2>2 DEF Silent
  <2> QED
    BY <2>1, <2>2
<1>6. ASSUME NEW k \in 1..n - 1
      PROVE  RaisedAt(x, r, k) <=> RaisedAt(x, q, k + 1)
  <2>1. ASSUME RaisedAt(x, r, k), NEW j \in k + 2..n
        PROVE  ~Tells(x, q[j])
    <3>1. j - 1 \in k + 1..n - 1 /\ j - 1 \in 1..n - 1 /\ j - 1 + 1 = j
      BY <1>3
    <3> QED
      BY <1>3, <2>1, <3>1 DEF RaisedAt
  <2>2. ASSUME RaisedAt(x, q, k + 1), NEW j \in k + 1..n - 1
        PROVE  ~Tells(x, r[j])
    BY <1>3, <2>2 DEF RaisedAt
  <2> QED
    BY <1>3, <2>1, <2>2 DEF RaisedAt
<1>7. RaisedAt(x, q, 1) <=> Raises(x, q[1]) /\ Tells(x, q[1]) /\ Silent(x, r)
  BY <1>3, <1>5 DEF RaisedAt
<1>8. (\E k \in 1..n : RaisedAt(x, q, k)) <=>
          RaisedAt(x, q, 1) \/ \E k \in 1..n - 1 : RaisedAt(x, r, k)
  <2>1. ASSUME NEW k \in 2..n, RaisedAt(x, q, k)
        PROVE  \E j \in 1..n - 1 : RaisedAt(x, r, j)
    <3>1. k - 1 \in 1..n - 1 /\ k - 1 + 1 = k
      BY <1>3
    <3> QED
      BY <1>6, <2>1, <3>1
  <2> QED
    BY <1>3, <1>6, <2>1
<1>9. Silent(x, q) <=> ~Tells(x, q[1]) /\ Silent(x, r)
  BY <1>3, <1>5 DEF Silent
<1>10. After(x, r, c) <=> After(x, q, b)
  BY <1>3, <1>4, <1>7, <1>8, <1>9 DEF After
<1> QED
  BY <1>1, <1>2, <1>10

(***************************************************************************)
(* Steps that post an event, and steps that do not.                        *)
(***************************************************************************)
LinkUp == {"associated", "online"}

\* An event that says how the link or the address changed.
LEMMA Posting ==
    ASSUME Types, Posted, NEW e \in Ev, Post(e), Now' = Now,
           IF Tells("CONNECTED", e) THEN Raises("CONNECTED", e) <=> link' \in LinkUp
           ELSE link' \in LinkUp <=> link \in LinkUp,
           IF Tells("HAS_IP", e) THEN Raises("HAS_IP", e) => lease' ELSE lease => lease',
           e.id = "STA_GOT_IP" => Addressed', link' = "online" => e.id = "STA_GOT_IP" /\ lease'
    PROVE  events' \in Seq(Ev) /\ Youngest' /\ Posted'
<1>1. PICK r \in Seq(Ev) : r = Append(events, e)
  BY AppendProperties DEF Types
<1>2. events' = r /\ r # <<>> /\ r[Len(r)] = e
  BY <1>1, AppendProperties DEF Types, Post
<1>3. \A x \in Bit : After(x, r, Now) <=> IF Tells(x, e) THEN Raises(x, e) ELSE After(x, events, Now)
  BY <1>1, AfterLonger DEF Types
<1>4. PICK b : b = Now
  OBVIOUS
<1>5. \A x \in Bit : After(x, events, Now)' <=> After(x, r, Now)
  BY <1>2, <1>4 DEF After, RaisedAt, Silent
<1>6. Posted'
  BY <1>3, <1>5 DEF Posted, Bit, LinkUp
<1>7. Youngest'
  BY <1>2 DEF Youngest, Addressed
<1> QED
  BY <1>2, <1>6, <1>7

\* Nothing is posted.
LEMMA NotPosting ==
    ASSUME Posted, UNCHANGED events, Now' = Now,
           link' \in LinkUp <=> link \in LinkUp, lease => lease', link' = "online" => lease'
    PROVE  Posted'
<1>1. \A x \in Bit : After(x, events, Now)' <=> After(x, events, Now)
  BY DEF After, RaisedAt, Silent
<1> QED
  BY <1>1 DEF Posted, Bit, LinkUp

\* The event task stays where it is, or goes from its disconnect() to its
\* begin() or from there to the next event.
Steps ==
    \/ UNCHANGED task
    \/ /\ task.pc \in {"disconnect", "begin"} /\ task' \in TaskType
       /\ task'.pc \in {"begin", "wait"} /\ task'.event = task.event

\* A step of driver or sketch may only add events and leaves the event task's alone.
LEMMA HandlingStays ==
    ASSUME Types, Handling, Steps, UNCHANGED <<status, bits, firstConnect, staleBy>>
    PROVE  Handling' /\ Now' = Now /\ task' \in TaskType /\ (task'.pc # "wait" => task'.event \in Ev)
<1>1. CASE UNCHANGED task
  BY <1>1 DEF Types, Handling, NewStatus, LossStatus, Expired, Unwanted, Now, BitsOf
<1>2. CASE ~UNCHANGED task
  BY <1>2 DEF Types, Steps, Handling, Expired, Unwanted, Now
<1> QED
  BY <1>1, <1>2

\* The link moves without an event: an attempt begins, or the lease has expired.
LEMMA LinkMoves ==
    ASSUME Inv, Steps, UNCHANGED <<lease, events, status, bits, firstConnect, staleBy>>,
           autoReconnect' \in BOOLEAN,
           \/ link' = link
           \/ link = "idle" /\ link' = "connecting"
           \/ link = "online" /\ link' = "associated"
    PROVE  Inv'
<1>2. Handling' /\ Now' = Now /\ task' \in TaskType /\ (task'.pc # "wait" => task'.event \in Ev)
  BY HandlingStays DEF Inv
<1>1. Types'
  BY <1>2 DEF Inv, Types, Links
<1>3. Youngest'
  BY DEF Inv, Youngest, Addressed, Posted, Steps
<1>4. Posted'
  BY <1>2, NotPosting DEF Inv, LinkUp, Posted
<1> QED
  BY <1>1, <1>2, <1>3, <1>4 DEF Inv

\* The link moves and the driver says so.
LEMMA LinkPosts ==
    ASSUME Inv, NEW e \in Ev, Post(e), Steps, UNCHANGED <<status, bits, firstConnect, staleBy>>,
           autoReconnect' \in BOOLEAN, link' \in Links, lease' \in BOOLEAN,
           IF Tells("CONNECTED", e) THEN Raises("CONNECTED", e) <=> link' \in LinkUp
           ELSE link' \in LinkUp <=> link \in LinkUp,
           IF Tells("HAS_IP", e) THEN Raises("HAS_IP", e) => lease' ELSE lease => lease',
           e.id = "STA_GOT_IP" => Addressed', link' = "online" => e.id = "STA_GOT_IP" /\ lease'
    PROVE  Inv'
<1>1. Handling' /\ Now' = Now /\ task' \in TaskType /\ (task'.pc # "wait" => task'.event \in Ev)
  BY HandlingStays DEF Inv
<1>2. events' \in Seq(Ev) /\ Youngest' /\ Posted'
  BY <1>1, Posting DEF Inv
<1>3. Types'
  BY <1>1, <1>2 DEF Inv, Types
<1> QED
  BY <1>1, <1>2, <1>3 DEF Inv

\* What the driver posts are events.
LEMMA EventsAre ==
    /\ \A id \in EventId \ {"NONE"} : Event(id) \in Ev /\ Event(id).id = id
    /\ \A r \in Reasons : /\ Loss(r) \in Ev /\ Loss(r).id = "STA_DISCONNECTED"
                          /\ Loss(r).reason = r
BY DEF Ev, Event, Loss, Reasons, EventId

\* disconnect() of the event task or the sketch.
LEMMA DisconnectKeeps ==
    ASSUME Inv, Disconnect, Steps, UNCHANGED <<lease, status, bits, firstConnect, staleBy>>,
           autoReconnect' \in BOOLEAN
    PROVE  Inv'
<1>1. CASE link \in {"connecting", "associated", "online"}
  <2>1. link' = "idle" /\ Post(Loss("ASSOC_LEAVE"))
    BY <1>1 DEF Disconnect
  <2>2. Loss("ASSOC_LEAVE") \in Ev /\ Loss("ASSOC_LEAVE").id = "STA_DISCONNECTED"
    BY EventsAre DEF Reasons
  <2> QED
    BY <2>1, <2>2, LinkPosts DEF Inv, Types, Links, LinkUp, Tells, Raises
<1>2. CASE link \notin {"connecting", "associated", "online"}
  BY <1>2, LinkMoves DEF Disconnect
<1> QED
  BY <1>1, <1>2

\* So does one that fails, which changes nothing.
LEMMA DisconnectFailsKeeps ==
    ASSUME Inv, DisconnectFails, Steps, UNCHANGED <<lease, status, bits, firstConnect, staleBy>>,
           autoReconnect' \in BOOLEAN
    PROVE  Inv'
BY LinkMoves DEF DisconnectFails

\* The driver posts an event with whatever it changes.
LEMMA DriverKeeps ==
    ASSUME Inv, Driver
    PROVE  Inv'
<1> USE DEF library, published, Steps
<1>1. /\ Event("STA_CONNECTED") \in Ev /\ Event("STA_CONNECTED").id = "STA_CONNECTED"
      /\ Event("STA_GOT_IP") \in Ev /\ Event("STA_GOT_IP").id = "STA_GOT_IP"
      /\ Event("STA_LOST_IP") \in Ev /\ Event("STA_LOST_IP").id = "STA_LOST_IP"
  BY EventsAre DEF EventId
<1>2. lease \in BOOLEAN /\ link \in Links /\ autoReconnect \in BOOLEAN
  BY DEF Inv, Types
<1>3. CASE Associate
  BY <1>1, <1>2, <1>3, LinkPosts DEF Associate, Links, LinkUp, Tells, Raises
<1>4. CASE GetIP
  BY <1>1, <1>2, <1>4, LinkPosts DEF GetIP, Links, LinkUp, Tells, Raises, Addressed
<1>5. CASE LeaseExpires
  BY <1>2, <1>5, LinkMoves DEF LeaseExpires
<1>6. CASE LoseIP
  BY <1>1, <1>2, <1>6, LinkPosts DEF LoseIP, Links, LinkUp, Tells, Raises
<1>7. ASSUME NEW r \in Reason, Lose(r)
      PROVE  Inv'
  <2>1. Loss(r) \in Ev /\ Loss(r).id = "STA_DISCONNECTED"
    BY EventsAre, StationAssumption
  <2> QED
    BY <1>2, <1>7, <2>1, LinkPosts DEF Lose, Links, LinkUp, Tells, Raises
<1> QED
  BY <1>3, <1>4, <1>5, <1>6, <1>7 DEF Driver

\* The calls of the sketch keep the invariant: the link changes through the driver.
LEMMA SketchKeeps ==
    ASSUME Inv, Sketch
    PROVE  Inv'
<1> USE DEF library, published, driver, Steps
<1>1. Event("STA_START") \in Ev /\ Event("STA_START").id = "STA_START"
  BY EventsAre DEF EventId
<1>2. lease \in BOOLEAN /\ link \in Links /\ autoReconnect \in BOOLEAN
  BY DEF Inv, Types
<1>3. CASE SketchStart
  BY <1>1, <1>2, <1>3, LinkPosts DEF SketchStart, Start, Links, LinkUp, Tells, Raises
<1>4. CASE SketchConnect
  BY <1>2, <1>4, LinkMoves DEF SketchConnect, Connect
<1>5. CASE SketchBeginFails \/ Poll \/ SetAutoReconnect
  BY <1>2, <1>5, LinkMoves DEF SketchBeginFails, Poll, SetAutoReconnect
<1>6. CASE CallDisconnect \/ CallReconnect
  BY <1>2, <1>6, DisconnectKeeps, DisconnectFailsKeeps DEF CallDisconnect, CallReconnect
<1>7. CASE CallBegin
  BY <1>2, <1>7, LinkMoves DEF CallBegin, BeginConnects, Attempt, Connect
<1>8. CASE ReconnectConnects
  BY <1>2, <1>8, LinkMoves DEF ReconnectConnects, Attempt, Connect
<1> QED
  BY <1>3, <1>4, <1>5, <1>6, <1>7, <1>8 DEF Sketch

(***************************************************************************)
(* The event task.                                                         *)
(***************************************************************************)
LEMMA TaskMoves ==
    ASSUME Types, NEW p \in Pcs, task' = [task EXCEPT !.pc = p]
    PROVE  /\ task' \in TaskType /\ task'.pc = p /\ task'.event = task.event
           /\ task.pc # "wait" => task'.event \in Ev
BY DEF Types, TaskType

\* Only an AUTH_EXPIRE publishes no status.
LEMMA NewStatusType ==
    ASSUME NEW e \in Ev
    PROVE  /\ NewStatus(e) \subseteq Status
           /\ NewStatus(e) = {} <=> Expired(e)
           /\ "CONNECTED" \in NewStatus(e) <=> e.id = "STA_GOT_IP"
           /\ e.id = "STA_GOT_IP" => NewStatus(e) = {"CONNECTED"}
BY DEF Ev, EventId, NewStatus, LossStatus, Status, Expired

\* Taking an event withdraws the old status and leaves what the bits will be.
LEMMA TakeEventKeeps ==
    ASSUME Inv, TakeEvent
    PROVE  Inv'
<1>1. PICK e \in Ev : e = Head(events)
  BY HeadTailProperties DEF Inv, Types, TakeEvent
<1>2. PICK q \in Seq(Ev) : q = Tail(events)
  BY HeadTailProperties DEF Inv, Types, TakeEvent
<1>3. /\ task.pc = "wait" /\ events # <<>> /\ events \in Seq(Ev)
      /\ events' = q /\ task' = [pc |-> IF Expired(e) THEN "bits" ELSE "set", event |-> e]
      /\ status' = (IF Expired(e) THEN status ELSE "IDLE")
      /\ staleBy' = (IF Expired(e) THEN {e.reason} ELSE {})
      /\ UNCHANGED <<link, lease, bits, firstConnect, autoReconnect>>
  BY <1>1, <1>2, NewStatusType DEF TakeEvent, Inv, Types
<1>4. task'.event = e /\ task'.pc = (IF Expired(e) THEN "bits" ELSE "set")
  BY <1>3
<1>5. Types'
  <2>1. task' \in TaskType
    BY <1>3 DEF TaskType, Pcs
  <2>2. status' \in Status /\ staleBy' \subseteq {"AUTH_EXPIRE"}
    BY <1>3 DEF Inv, Types, Status, Expired
  <2> QED
    BY <1>3, <1>4, <2>1, <2>2 DEF Inv, Types
<1>6. Handling'
  BY <1>3, <1>4 DEF Handling, Expired
<1>7. Youngest'
  <2>1. Len(q) = Len(events) - 1 /\ e = events[1] /\ \A i \in 1..Len(q) : q[i] = events[i + 1]
    BY <1>1, <1>2, <1>3, HeadTailProperties
  <2>2. CASE q = <<>>
    <3>1. Len(q) = 0 /\ Len(events) \in Nat
      BY <1>3, <2>2
    <3>2. Len(events) = 1
      BY <2>1, <3>1
    <3>3. e = events[Len(events)]
      BY <2>1, <3>2
    <3> QED
      BY <1>3, <1>4, <2>2, <3>3 DEF Inv, Youngest, Addressed
  <2>3. CASE q # <<>>
    <3>1. Len(q) \in 1..Len(q) /\ Len(events) = Len(q) + 1
      BY <1>3, <2>1, <2>3
    <3>2. q[Len(q)] = events[Len(events)]
      BY <2>1, <3>1
    <3> QED
      BY <1>3, <2>3, <3>2 DEF Inv, Youngest, Addressed
  <2> QED
    BY <2>2, <2>3
<1>8. Posted'
  <2>1. Now = bits
    BY <1>3 DEF Now
  <2>2. PICK c : c = BitsOf(e, bits)
    OBVIOUS
  <2>3. Now' = c
    BY <1>3, <1>4, <2>2 DEF Now, BitsOf
  <2>4. \A x \in Bit : After(x, q, c) <=> After(x, events, bits)
    BY <1>1, <1>2, <1>3, <2>2, AfterShorter
  <2>5. \A x \in Bit : After(x, events, Now)' <=> After(x, q, c)
    BY <1>3, <2>3 DEF After, RaisedAt, Silent
  <2> QED
    BY <1>3, <2>1, <2>4, <2>5 DEF Inv, Posted, Bit
<1> QED
  BY <1>5, <1>6, <1>7, <1>8 DEF Inv

\* The status published is the event's.
LEMMA SetStatusKeeps ==
    ASSUME Inv, SetStatus
    PROVE  Inv'
<1>1. /\ task.pc = "set" /\ task.event \in Ev /\ ~Expired(task.event)
      /\ task' = [task EXCEPT !.pc = "bits"] /\ status' \in NewStatus(task.event)
      /\ UNCHANGED <<link, lease, events, bits, firstConnect, autoReconnect, staleBy>>
  BY DEF Inv, Types, Handling, SetStatus, driver
<1>2. task' \in TaskType /\ task'.pc = "bits" /\ task'.event = task.event
  BY <1>1, TaskMoves DEF Inv, Pcs
<1>3. Types'
  BY <1>1, <1>2, NewStatusType DEF Inv, Types
<1>4. Handling'
  BY <1>1, <1>2 DEF Handling, NewStatus, LossStatus
<1>5. Youngest'
  BY <1>1, <1>2 DEF Inv, Youngest, Addressed
<1>6. Posted'
  <2>1. Now' = Now
    BY <1>1, <1>2 DEF Now, BitsOf
  <2> QED
    BY <1>1, <2>1, NotPosting DEF Inv, LinkUp, Posted
<1> QED
  BY <1>3, <1>4, <1>5, <1>6 DEF Inv

\* The bits become what they were counted as since the event was taken.
LEMMA SetBitsKeeps ==
    ASSUME Inv, SetBits
    PROVE  Inv'
<1>1. PICK e \in Ev : e = task.event
  BY DEF Inv, Types, SetBits
<1> DEFINE p == IF e.id = "STA_DISCONNECTED" THEN AfterLoss(e.reason) ELSE "wait"
<1>2. /\ p \in {"wait", "disconnect", "failed"} /\ (p # "wait" => Unwanted(e))
  <2>1. e.reason = "ASSOC_LEAVE" => p = "wait"
    <3>1. AfterLoss("ASSOC_LEAVE") = "wait"
      BY DEF AfterLoss, Inv, Types
    <3> QED
      BY <3>1
  <2>2. p \in {"wait", "disconnect", "failed"}
    BY DEF AfterLoss
  <2> QED
    BY <2>1, <2>2 DEF Unwanted
<1>3. /\ task.pc = "bits" /\ task' = [task EXCEPT !.pc = p] /\ bits' = BitsOf(e, bits)
      /\ firstConnect' \in BOOLEAN /\ UNCHANGED <<link, lease, events, status, autoReconnect, staleBy>>
  BY <1>1 DEF SetBits, driver, NewBits, BitsOf, Inv, Types
<1> HIDE DEF p
<1>4. task' \in TaskType /\ task'.pc = p /\ task'.event = e
  BY <1>1, <1>2, <1>3, TaskMoves DEF Inv, Pcs
<1>5. Types'
  <2>1. bits' \subseteq {"STARTED", "CONNECTED", "HAS_IP"}
    BY <1>3 DEF Inv, Types, BitsOf
  <2> QED
    BY <1>3, <1>4, <2>1 DEF Inv, Types
<1>6. IF Expired(e) THEN "AUTH_EXPIRE" \in staleBy
      ELSE status = "CONNECTED" <=> e.id = "STA_GOT_IP"
  BY <1>1, <1>3, NewStatusType DEF Inv, Handling
<1>7. Handling'
  BY <1>2, <1>3, <1>4, <1>6 DEF Handling, Unwanted, Expired
<1>8. Youngest'
  BY <1>1, <1>2, <1>3, <1>4, <1>6 DEF Inv, Youngest, Addressed, Expired, Unwanted
<1>9. Posted'
  <2>1. Now' = Now
    BY <1>1, <1>2, <1>3, <1>4 DEF Now
  <2> QED
    BY <1>3, <2>1, NotPosting DEF Inv, LinkUp, Posted
<1> QED
  BY <1>5, <1>7, <1>8, <1>9 DEF Inv

\* The second status of a failed association is not WL_CONNECTED either.
LEMMA SetFailedKeeps ==
    ASSUME Inv, SetFailed
    PROVE  Inv'
<1>1. /\ task.pc = "failed" /\ task' = [task EXCEPT !.pc = "wait"] /\ status' = "CONNECT_FAILED"
      /\ UNCHANGED <<link, lease, events, bits, firstConnect, autoReconnect, staleBy>>
  BY DEF SetFailed, driver
<1>2. task' \in TaskType /\ task'.pc = "wait" /\ task'.event = task.event
  BY <1>1, TaskMoves DEF Inv, Pcs
<1>3. Types'
  BY <1>1, <1>2 DEF Inv, Types, Status
<1>4. Handling' /\ Youngest'
  BY <1>1, <1>2 DEF Inv, Handling, Youngest, Addressed
<1>5. Posted'
  <2>1. Now' = Now
    BY <1>1, <1>2 DEF Now
  <2> QED
    BY <1>1, <2>1, NotPosting DEF Inv, LinkUp, Posted
<1> QED
  BY <1>3, <1>4, <1>5 DEF Inv

\* The disconnect() of a retry is one of the driver's.
LEMMA TaskDisconnectKeeps ==
    ASSUME Inv, TaskDisconnect
    PROVE  Inv'
<1>1. Steps
  BY TaskMoves DEF TaskDisconnect, Steps, Inv, Pcs
<1> QED
  BY <1>1, DisconnectKeeps, DisconnectFailsKeeps DEF TaskDisconnect, published, Inv, Types

\* Its begin() starts at most an attempt.
LEMMA TaskBeginKeeps ==
    ASSUME Inv, TaskBegin
    PROVE  Inv'
<1>1. Steps
  BY TaskMoves DEF TaskBegin, Steps, Inv, Pcs
<1> QED
  BY <1>1, LinkMoves DEF TaskBegin, BeginConnects, Attempt, Connect, published, Inv, Types

\* A station that is off has nothing to publish.
LEMMA InitInv ==
    ASSUME Init
    PROVE  Inv
<1>1. /\ link = "off" /\ lease = FALSE /\ events = <<>> /\ status = "NO_SHIELD" /\ bits = {}
      /\ firstConnect = TRUE /\ autoReconnect = TRUE /\ staleBy = {}
      /\ task = [pc |-> "wait", event |-> Nothing]
  BY DEF Init
<1>2. task \in TaskType /\ task.pc = "wait"
  BY <1>1 DEF TaskType, Pcs
<1>3. Types
  <2>1. link \in Links /\ status \in Status /\ lease \in BOOLEAN
    BY <1>1 DEF Links, Status
  <2>2. events \in Seq(Ev) /\ bits \subseteq {"STARTED", "CONNECTED", "HAS_IP"}
    BY <1>1
  <2> QED
    BY <1>1, <1>2, <2>1, <2>2 DEF Types
<1>4. Handling /\ Youngest
  BY <1>1, <1>2 DEF Handling, Youngest
<1>5. Posted
  BY <1>1, <1>2 DEF Posted, Now, After
<1> QED
  BY <1>3, <1>4, <1>5 DEF Inv

\* Every step of driver, event task and sketch keeps the invariant.
LEMMA NextInv ==
    ASSUME Inv, [Next]_vars
    PROVE  Inv'
<1>1. CASE UNCHANGED vars
  BY <1>1, LinkMoves DEF vars, Steps, Inv, Types
<1>2. CASE EventTask
  BY <1>2, TakeEventKeeps, SetStatusKeeps, SetBitsKeeps, SetFailedKeeps, TaskDisconnectKeeps,
     TaskBeginKeeps DEF EventTask
<1> QED
  BY <1>1, <1>2, DriverKeeps, SketchKeeps DEF Next

(***************************************************************************)
(* Theorems.                                                               *)
(***************************************************************************)
\* The queue, the event task and what is published are, in every state, what
\* the driver has done to the link since.
THEOREM StationInvariant == Spec => []Inv
BY InitInv, NextInv, PTL DEF Spec

\* Once every event is handled WiFi.status() and the bits of the event group
\* say what the link is, AUTH_EXPIRE apart.
THEOREM StatusTellsTheTruth == Spec => []StatusIsTrue
<1>1. Inv => StatusIsTrue
  <2> SUFFICES ASSUME Inv, events = <<>>, task.pc = "wait"
               PROVE  /\ link = "online" => status = "CONNECTED"
                      /\ status = "CONNECTED" =>
                            \/ link = "online"
                            \/ link = "associated" /\ lease
                            \/ "AUTH_EXPIRE" \in staleBy
                      /\ "CONNECTED" \in bits <=> link \in {"associated", "online"}
                      /\ "HAS_IP" \in bits => lease
    BY DEF StatusIsTrue, Quiet
  <2>1. Now = bits
    BY DEF Now
  <2>2. \A x \in Bit : After(x, events, Now) <=> x \in bits
    BY <2>1 DEF After, Silent
  <2> QED
    BY <2>2 DEF Inv, Youngest, Posted, Addressed, Bit
<1> QED
  BY <1>1, StationInvariant, PTL

\* The begin() of a retry starts an attempt or answers with an error, unless the
\* loss was an AUTH_EXPIRE: nobody publishes WL_CONNECTED between the loss and
\* the retry, after which begin() would do nothing and answer WL_CONNECTED.
THEOREM RetriesConnect == Spec => RetryConnects
<1>1. Inv /\ [Next]_vars =>
         [task.pc = "begin" /\ task'.pc = "wait" /\ task.event.reason # "AUTH_EXPIRE"
             => link' # "idle" \/ refused']_vars
  <2> SUFFICES ASSUME Inv, Next, task.pc = "begin", task'.pc = "wait",
                      task.event.reason # "AUTH_EXPIRE"
               PROVE  link' # "idle" \/ refused'
    OBVIOUS
  <2>1. TaskBegin
    BY DEF Next, Driver, EventTask, Sketch, Associate, GetIP, LeaseExpires, LoseIP, Lose, library,
           published, driver, TakeEvent, SetStatus, SetBits, SetFailed, TaskDisconnect, SketchStart,
           SketchConnect, SketchBeginFails, Poll, CallDisconnect, CallBegin, CallReconnect,
           ReconnectConnects, SetAutoReconnect
  <2>2. status # "CONNECTED"
    BY DEF Inv, Handling, Expired
  <2> QED
    BY <2>1, <2>2 DEF TaskBegin, BeginConnects, Attempt, Connect
<1> QED
  BY <1>1, StationInvariant, PTL DEF Spec, RetryConnects

\* Between the sketch's disconnect() and its begin() only the retry of a loss
\* the sketch did not ask for connects.
THEOREM LeftIsLeft == Spec => LeaveHolds
<1>1. Inv /\ [Next]_vars =>
         [sketch = "left" /\ sketch' = "left" /\ ~RetryDue =>
             ~(link = "idle" /\ link' = "connecting")]_vars
  <2> SUFFICES ASSUME Inv, Next, sketch = "left", sketch' = "left", ~RetryDue,
                      link = "idle", link' = "connecting"
               PROVE  FALSE
    OBVIOUS
  <2>1. TaskBegin
    BY DEF Next, Driver, EventTask, Sketch, Associate, GetIP, LeaseExpires, LoseIP, Lose,
           driver, TakeEvent, SetStatus, SetBits, SetFailed, TaskDisconnect, Disconnect,
           DisconnectFails, SketchStart, Start, SketchConnect, SketchBeginFails, Poll, CallDisconnect, CallBegin,
           CallReconnect, ReconnectConnects, SetAutoReconnect
  <2>2. Unwanted(task.event) /\ task.pc # "wait"
    BY <2>1 DEF TaskBegin, Inv, Handling
  <2> QED
    BY <2>2 DEF RetryDue
<1> QED
  BY <1>1, StationInvariant, PTL DEF Spec, LeaveHolds
================================================================================
