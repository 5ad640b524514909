------------------------------- MODULE WiFiScan -------------------------------
(***************************************************************************)
(* Scanning for access points.  The sketch calls scanNetworks,             *)
(* scanComplete and scanDelete; the driver scans; the event task runs      *)
(* _scanDone when it takes the SCAN_DONE event.  They share two bits of    *)
(* the network event group and the static members _scanStarted,            *)
(* _scanResult and _scanCount, without a lock: each access is a step.      *)
(*                                                                         *)
(* Of the driver it is used that it runs one scan at a time, that it posts *)
(* SCAN_DONE when the scan ends and that its records can be taken once.    *)
(*                                                                         *)
(* A scan is late if _scanTimeout or waitStatusBits run out before it has  *)
(* ended, and quick if it ends before scanNetworks has set its bits.  The  *)
(* array is freed if it goes before the driver has filled it; the results  *)
(* are deleted if the sketch calls scanDelete at that time.                *)
(***************************************************************************)
EXTENDS Naturals

CONSTANTS
    MaxFound        \* access points in reach

ASSUME ScanAssumption == MaxFound \in Nat \ {0}

VARIABLES
    driver,         \* the driver: idle or scanning
    found,          \* records the driver holds
    events,         \* SCAN_DONE events not yet taken
    bits,           \* SCANNING and DONE of the network event group
    started,        \* _scanStarted # 0
    result,         \* length of the array _scanResult points to, 0 if NULL
    count,          \* _scanCount
    task,           \* where _scanDone is
    sketch,         \* where the sketch is
    back,           \* of scanDelete: where it returns to
    async,          \* _scanAsync
    told,           \* the number of networks the sketch believes it can read
    timing          \* what has gone unlike a usual scan

vars == <<driver, found, events, bits, started, result, count, task, sketch, back,
          async, told, timing>>
scanVars == <<driver, found, events>>

MaxPending == 3             \* bound on events in flight
Untold == MaxFound + 1      \* no result since the last scanNetworks or scanDelete

TypeOK ==
    /\ driver \in {"idle", "scanning"}
    /\ found \in 0..MaxFound
    /\ events \in 0..MaxPending /\ ("late" \notin timing => events <= 1)
    /\ bits \subseteq {"SCANNING", "DONE"}
    /\ started \in BOOLEAN /\ async \in BOOLEAN
    /\ result \in 0..MaxFound /\ count \in 0..MaxFound
    /\ task \in {"wait", "records", "copy", "done", "clear"}
    /\ sketch \in {"idle", "start", "stamp", "clear", "set", "blocked", "complete",
                  "test", "free", "zero"}
    /\ back \in {"idle", "start"}
    /\ told \in 0..Untold
    /\ timing \subseteq {"late", "quick", "deleted", "freed"}

Init ==
    /\ driver = "idle" /\ found = 0 /\ events = 0
    /\ bits = {} /\ started = FALSE /\ result = 0 /\ count = 0
    /\ task = "wait" /\ sketch = "idle" /\ back = "idle" /\ async = FALSE
    /\ told = Untold
    /\ timing = {}

(***************************************************************************)
(* The driver.                                                             *)
(***************************************************************************)
ScanEndsWith(n) ==
    /\ driver = "scanning" /\ events < MaxPending
    /\ driver' = "idle" /\ found' = n /\ events' = events + 1
    /\ timing' = timing \cup IF sketch \in {"stamp", "clear", "set"} THEN {"quick"} ELSE {}
    /\ UNCHANGED <<bits, started, result, count, task, sketch, back, async, told>>

(***************************************************************************)
(* scanNetworks, with scanDelete inside.  That scanDelete frees the array  *)
(* and that it resets the pointer is one step, for only the sketch follows *)
(* the pointer.                                                            *)
(***************************************************************************)
Delete(next) ==
    /\ sketch = "idle" /\ sketch' = "test" /\ back' = next
    /\ bits' = bits \ {"DONE"} /\ told' = Untold
    /\ UNCHANGED <<scanVars, started, result, count, task, timing>>

DeleteTest ==
    /\ sketch = "test" /\ sketch' = IF result = 0 THEN back ELSE "free"
    /\ UNCHANGED <<scanVars, bits, started, result, count, task, back, async, told, timing>>

DeleteFree ==
    /\ sketch = "free" /\ sketch' = "zero" /\ result' = 0
    /\ timing' = timing \cup (IF task = "copy" THEN {"freed"} ELSE {})
                         \cup (IF task = "copy" /\ back = "idle" THEN {"deleted"} ELSE {})
    /\ UNCHANGED <<scanVars, bits, started, count, task, back, async, told>>

DeleteZero ==
    /\ sketch = "zero" /\ sketch' = back /\ count' = 0
    /\ UNCHANGED <<scanVars, bits, started, result, task, back, async, told, timing>>

\* Wrong: the results of the scan before are kept.
ScanNetworks_Keeps(a) ==
    /\ sketch = "idle" /\ "SCANNING" \notin bits
    /\ async' = a /\ sketch' = "start" /\ told' = Untold
    /\ UNCHANGED <<scanVars, started, task, back, result, count, bits, timing>>

ScanNetworks(a) ==
    /\ "SCANNING" \notin bits
    /\ Delete("start") /\ async' = a

ScanStart ==
    /\ sketch = "start"
    /\ \/ driver = "idle" /\ driver' = "scanning" /\ found' = 0 /\ sketch' = "stamp"
       \/ UNCHANGED <<driver, found>> /\ sketch' = "idle"     \* WIFI_SCAN_FAILED
    /\ UNCHANGED <<events, bits, started, result, count, task, back, async, told, timing>>

Stamp ==
    /\ sketch = "stamp" /\ started' = TRUE /\ sketch' = "clear"
    /\ UNCHANGED <<scanVars, bits, result, count, task, back, async, told, timing>>

ClearDone ==
    /\ sketch = "clear" /\ bits' = bits \ {"DONE"} /\ sketch' = "set"
    /\ UNCHANGED <<scanVars, started, result, count, task, back, async, told, timing>>

SetScanning ==
    /\ sketch = "set" /\ bits' = bits \cup {"SCANNING"}
    /\ sketch' = IF async THEN "idle" ELSE "blocked"
    /\ UNCHANGED <<scanVars, started, result, count, task, back, async, told, timing>>

Wake ==
    /\ sketch = "blocked" /\ "DONE" \in bits
    /\ told' = count /\ sketch' = "idle"
    /\ UNCHANGED <<scanVars, bits, started, result, count, task, back, async, timing>>

WaitTimesOut ==
    /\ sketch = "blocked"
    /\ sketch' = "idle" /\ timing' = timing \cup {"late"}
    /\ UNCHANGED <<scanVars, bits, started, result, count, task, back, async, told>>

(***************************************************************************)
(* scanComplete reads the bits twice, first for DONE, then for SCANNING.   *)
(***************************************************************************)
CompleteTimesOut ==
    /\ sketch = "idle" /\ started
    /\ bits' = bits \ {"SCANNING"} /\ timing' = timing \cup {"late"}
    /\ UNCHANGED <<scanVars, started, result, count, task, sketch, back, async, told>>

CompleteDone ==
    /\ sketch = "idle"
    /\ IF "DONE" \in bits THEN told' = count /\ UNCHANGED sketch
                          ELSE sketch' = "complete" /\ UNCHANGED told
    /\ UNCHANGED <<scanVars, bits, started, result, count, task, back, async, timing>>

CompleteRunning ==  \* WIFI_SCAN_RUNNING or WIFI_SCAN_FAILED
    /\ sketch = "complete" /\ sketch' = "idle"
    /\ UNCHANGED <<scanVars, bits, started, result, count, task, back, async, told, timing>>

ScanDelete == Delete("idle") /\ UNCHANGED async

(***************************************************************************)
(* _scanDone on the event task.                                            *)
(***************************************************************************)
TakeScanDone ==
    /\ task = "wait" /\ events > 0
    /\ events' = events - 1 /\ count' = found
    /\ task' = IF found = 0 THEN "done" ELSE "records"
    /\ UNCHANGED <<driver, found, bits, started, result, sketch, back, async, told, timing>>

\* Wrong: without memory for the records _scanDone returns at once.
Allocate_GivesUp ==
    /\ task = "records"
    /\ \/ result' = count /\ task' = "copy" /\ UNCHANGED count
       \/ result' = 0 /\ count' = 0 /\ task' = "wait"
    /\ UNCHANGED <<scanVars, bits, started, sketch, back, async, told, timing>>

\* Wrong: without memory for the records the count stays.
Allocate_KeepsCount ==
    /\ task = "records"
    /\ \/ result' = count /\ task' = "copy"
       \/ result' = 0 /\ task' = "done"
    /\ UNCHANGED <<scanVars, count, bits, started, sketch, back, async, told, timing>>

Allocate ==         \* a new array, if there is memory
    /\ task = "records"
    /\ \/ result' = count /\ task' = "copy" /\ UNCHANGED count
       \/ result' = 0 /\ count' = 0 /\ task' = "done"
    /\ UNCHANGED <<scanVars, bits, started, sketch, back, async, told, timing>>

\* The driver fills it and says how many, or refuses; scanDelete may have freed
\* the array after the driver was given it.
TakeRecords ==
    /\ task = "copy" /\ task' = "done"
    /\ \/ found' = 0 /\ count' \in IF result = 0 THEN {count, found} ELSE {count}
       \/ count' = 0 /\ UNCHANGED found
    /\ UNCHANGED <<driver, events, result, bits, started, sketch, back, async, told, timing>>

SetDone ==
    /\ task = "done" /\ task' = "clear"
    /\ started' = FALSE /\ bits' = bits \cup {"DONE"}
    /\ UNCHANGED <<scanVars, result, count, sketch, back, async, told, timing>>

ClearScanning ==
    /\ task = "clear" /\ task' = "wait"
    /\ bits' = bits \ {"SCANNING"}
    /\ UNCHANGED <<scanVars, started, result, count, sketch, back, async, told, timing>>

Driver == \E n \in 0..MaxFound : ScanEndsWith(n)
EventTask == TakeScanDone \/ Allocate \/ TakeRecords \/ SetDone \/ ClearScanning
Calling ==
    \/ DeleteTest \/ DeleteFree \/ DeleteZero
    \/ ScanStart \/ Stamp \/ ClearDone \/ SetScanning \/ Wake \/ CompleteRunning
Sketch ==
    \/ \E a \in BOOLEAN : ScanNetworks(a)
    \/ WaitTimesOut \/ CompleteTimesOut \/ CompleteDone \/ ScanDelete

Next == Driver \/ EventTask \/ Calling \/ Sketch

Spec == Init /\ [][Next]_vars
FairSpec == Spec /\ WF_vars(Driver) /\ WF_vars(EventTask) /\ WF_vars(Calling)
===============================================================================
