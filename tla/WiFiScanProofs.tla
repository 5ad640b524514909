---------------------------- MODULE WiFiScanProofs ----------------------------
(***************************************************************************)
(* Scans that are not late leave the sketch the records it was told of,    *)
(* however many access points are in reach; and of what a scan shows       *)
(* WiFiMulti takes the strongest network of its list.                      *)
(***************************************************************************)
EXTENDS WiFiScanProperties, WiFiMultiProperties, SequenceTheorems, WellFoundedInduction, TLAPS

\* A scan is somewhere between scanNetworks and the end of _scanDone.
Active == driver = "scanning" \/ events > 0 \/ task # "wait"

\* It has not come to its array yet.
Early == sketch = "start" \/ driver = "scanning" \/ events > 0 \/ task = "records"

\* The sketch is in scanDelete.
Deleting == sketch \in {"test", "free", "zero"}

\* Without late scans only one scan is under way, it is in one place, and the
\* sketch cannot begin another: WIFI_SCANNING_BIT is set, or scanNetworks is
\* still in a call.  The results of the scan before are gone.
OneScan ==
    /\ driver = "scanning" => events = 0 /\ task = "wait"
    /\ events > 0 => task = "wait"
    /\ sketch \in {"idle", "complete", "blocked"} \/ (Deleting /\ back = "idle") =>
          (Active => "SCANNING" \in bits)
    /\ sketch = "start" \/ (Deleting /\ back = "start") =>
          ~Active /\ "DONE" \notin bits /\ told = Untold
    /\ sketch \in {"free", "zero"} => ~Early
    /\ sketch = "zero" => result = 0
    /\ Early => result = 0
    /\ Early \/ task \in {"copy", "done"} => "DONE" \notin bits /\ told = Untold

\* The array that _scanDone fills, and that WIFI_SCAN_DONE_BIT speaks of, is
\* as long as _scanCount says.
Bounded ==
    /\ "freed" \notin timing
    /\ task = "records" => count > 0
    /\ task = "copy" => count = result /\ result > 0
    /\ task \in {"done", "clear"} \/ "DONE" \in bits => count <= result \/ sketch = "zero"
    /\ sketch = "zero" => task # "copy"
    /\ Deleting => told = Untold
    /\ told # Untold => told <= result

Inv ==
    /\ TypeOK
    /\ "late" \notin timing => OneScan
    /\ Usual => Bounded

\* The numbers the model counts with.
LEMMA Numbers == MaxFound \in Nat /\ MaxPending = 3 /\ Untold = MaxFound + 1
BY ScanAssumption DEF MaxPending, Untold

\* Every step keeps the types.
LEMMA TypeStep ==
    ASSUME Inv, [Next]_vars
    PROVE  TypeOK'
<1> USE Numbers
<1> USE DEF TypeOK, Inv, OneScan, scanVars, Active, Early, Deleting
<1>1. CASE \E n \in 0..MaxFound : ScanEndsWith(n)
  BY <1>1 DEF ScanEndsWith
<1>2. CASE \E a \in BOOLEAN : ScanNetworks(a)
  BY <1>2 DEF ScanNetworks, Delete
<1>19. CASE DeleteTest
  BY <1>19 DEF DeleteTest
<1>20. CASE DeleteFree
  BY <1>20 DEF DeleteFree
<1>21. CASE DeleteZero
  BY <1>21 DEF DeleteZero
<1>3. CASE ScanStart
  BY <1>3 DEF ScanStart
<1>4. CASE Stamp
  BY <1>4 DEF Stamp
<1>5. CASE ClearDone
  BY <1>5 DEF ClearDone
<1>6. CASE SetScanning
  BY <1>6 DEF SetScanning
<1>7. CASE Wake
  BY <1>7 DEF Wake
<1>8. CASE WaitTimesOut
  BY <1>8 DEF WaitTimesOut
<1>9. CASE CompleteTimesOut
  BY <1>9 DEF CompleteTimesOut
<1>10. CASE CompleteDone
  BY <1>10 DEF CompleteDone
<1>11. CASE CompleteRunning
  BY <1>11 DEF CompleteRunning
<1>12. CASE ScanDelete
  BY <1>12 DEF ScanDelete, Delete
<1>13. CASE TakeScanDone
  BY <1>13 DEF TakeScanDone
<1>14. CASE Allocate
  BY <1>14 DEF Allocate
<1>15. CASE TakeRecords
  BY <1>15 DEF TakeRecords
<1>16. CASE SetDone
  BY <1>16 DEF SetDone
<1>17. CASE ClearScanning
  BY <1>17 DEF ClearScanning
<1>18. CASE UNCHANGED vars
  BY <1>18 DEF vars
<1> QED
  BY <1>1, <1>2, <1>3, <1>4, <1>5, <1>6, <1>7, <1>8, <1>9, <1>10, <1>11, <1>12, <1>13, <1>14, <1>15, <1>16, <1>17, <1>18, <1>19, <1>20, <1>21
     DEF Next, Driver, EventTask, Calling, Sketch

\* One scan at a time.
LEMMA OneScanStep ==
    ASSUME Inv, "late" \notin timing', [Next]_vars
    PROVE  OneScan'
<1> USE Numbers
<1> USE DEF TypeOK, Inv, OneScan, Active, Early, Deleting, scanVars
<1>1. CASE \E n \in 0..MaxFound : ScanEndsWith(n)
  BY <1>1 DEF ScanEndsWith
<1>2. CASE \E a \in BOOLEAN : ScanNetworks(a)
  BY <1>2 DEF ScanNetworks, Delete
<1>19. CASE DeleteTest
  BY <1>19 DEF DeleteTest
<1>20. CASE DeleteFree
  BY <1>20 DEF DeleteFree
<1>21. CASE DeleteZero
  BY <1>21 DEF DeleteZero
<1>3. CASE ScanStart
  BY <1>3 DEF ScanStart
<1>4. CASE Stamp
  BY <1>4 DEF Stamp
<1>5. CASE ClearDone
  BY <1>5 DEF ClearDone
<1>6. CASE SetScanning
  BY <1>6 DEF SetScanning
<1>7. CASE Wake
  BY <1>7 DEF Wake
<1>8. CASE WaitTimesOut
  BY <1>8 DEF WaitTimesOut
<1>9. CASE CompleteTimesOut
  BY <1>9 DEF CompleteTimesOut
<1>10. CASE CompleteDone
  BY <1>10 DEF CompleteDone
<1>11. CASE CompleteRunning
  BY <1>11 DEF CompleteRunning
<1>12. CASE ScanDelete
  BY <1>12 DEF ScanDelete, Delete
<1>13. CASE TakeScanDone
  BY <1>13 DEF TakeScanDone
<1>14. CASE Allocate
  BY <1>14 DEF Allocate
<1>15. CASE TakeRecords
  BY <1>15 DEF TakeRecords
<1>16. CASE SetDone
  BY <1>16 DEF SetDone
<1>17. CASE ClearScanning
  BY <1>17 DEF ClearScanning
<1>18. CASE UNCHANGED vars
  BY <1>18 DEF vars
<1> QED
  BY <1>1, <1>2, <1>3, <1>4, <1>5, <1>6, <1>7, <1>8, <1>9, <1>10, <1>11, <1>12, <1>13, <1>14, <1>15, <1>16, <1>17, <1>18, <1>19, <1>20, <1>21
     DEF Next, Driver, EventTask, Calling, Sketch

\* The array and the count.
LEMMA BoundedStep ==
    ASSUME Inv, Usual', [Next]_vars
    PROVE  Bounded'
<1> USE Numbers
<1> USE DEF TypeOK, Inv, OneScan, Bounded, Active, Early, Deleting, Usual, scanVars
<1>1. CASE \E n \in 0..MaxFound : ScanEndsWith(n)
  BY <1>1 DEF ScanEndsWith
<1>2. CASE \E a \in BOOLEAN : ScanNetworks(a)
  BY <1>2 DEF ScanNetworks, Delete
<1>19. CASE DeleteTest
  BY <1>19 DEF DeleteTest
<1>20. CASE DeleteFree
  BY <1>20 DEF DeleteFree
<1>21. CASE DeleteZero
  BY <1>21 DEF DeleteZero
<1>3. CASE ScanStart
  BY <1>3 DEF ScanStart
<1>4. CASE Stamp
  BY <1>4 DEF Stamp
<1>5. CASE ClearDone
  BY <1>5 DEF ClearDone
<1>6. CASE SetScanning
  BY <1>6 DEF SetScanning
<1>7. CASE Wake
  BY <1>7 DEF Wake
<1>8. CASE WaitTimesOut
  BY <1>8 DEF WaitTimesOut
<1>9. CASE CompleteTimesOut
  BY <1>9 DEF CompleteTimesOut
<1>10. CASE CompleteDone
  BY <1>10 DEF CompleteDone
<1>11. CASE CompleteRunning
  BY <1>11 DEF CompleteRunning
<1>12. CASE ScanDelete
  BY <1>12 DEF ScanDelete, Delete
<1>13. CASE TakeScanDone
  BY <1>13 DEF TakeScanDone
<1>14. CASE Allocate
  BY <1>14 DEF Allocate
<1>15. CASE TakeRecords
  BY <1>15 DEF TakeRecords
<1>16. CASE SetDone
  BY <1>16 DEF SetDone
<1>17. CASE ClearScanning
  BY <1>17 DEF ClearScanning
<1>18. CASE UNCHANGED vars
  BY <1>18 DEF vars
<1> QED
  BY <1>1, <1>2, <1>3, <1>4, <1>5, <1>6, <1>7, <1>8, <1>9, <1>10, <1>11, <1>12, <1>13, <1>14, <1>15, <1>16, <1>17, <1>18, <1>19, <1>20, <1>21
     DEF Next, Driver, EventTask, Calling, Sketch

\* The invariant holds before the first scan.
LEMMA InitInv == Init => Inv
<1> SUFFICES ASSUME Init PROVE Inv
  OBVIOUS
<1>1. Untold \in 0..Untold /\ 0 \in 0..MaxFound /\ 0 \in 0..MaxPending
  BY Numbers
<1>2. TypeOK
  <2>1. /\ driver = "idle" /\ found = 0 /\ events = 0 /\ bits = {} /\ started = FALSE
        /\ result = 0 /\ count = 0 /\ task = "wait" /\ sketch = "idle" /\ back = "idle" /\ async = FALSE
        /\ told = Untold /\ timing = {}
    BY DEF Init
  <2>2. started \in BOOLEAN /\ async \in BOOLEAN
    BY <2>1
  <2> QED
    BY <1>1, <2>1, <2>2 DEF TypeOK
<1>3. OneScan
  BY DEF Init, OneScan, Active, Early, Deleting
<1>4. Bounded
  BY Numbers DEF Init, Bounded, Deleting
<1> QED
  BY <1>2, <1>3, <1>4 DEF Inv

\* While no scan is late only one is under way, and its array is as long as the
\* count says.
THEOREM ScanInvariant == Spec => []Inv
<1>1. Inv /\ [Next]_vars => Inv'
  BY TypeStep, OneScanStep, BoundedStep DEF Inv
<1> QED
  BY <1>1, InitInv, PTL DEF Spec

\* A record the sketch was told of is inside the array, and scanNetworks never
\* frees the array the driver fills.
THEOREM RecordsStay == Spec => []RecordsInBounds
<1>1. Inv => RecordsInBounds
  BY DEF Inv, RecordsInBounds, Bounded
<1> QED
  BY <1>1, ScanInvariant, PTL

\* _scanDone allocates its array when there is none.
THEOREM ArraysAreKept == Spec => []NoArrayLost
<1>1. Inv => NoArrayLost
  BY DEF Inv, NoArrayLost, OneScan, Early
<1> QED
  BY <1>1, ScanInvariant, PTL

(***************************************************************************)
(* WiFiMulti: which network run() picks and what it answers, for lists and *)
(* scans of any length, any names and any strengths.                       *)
(***************************************************************************)
RunType == [at : {"out", "left", "scan", "picked", "wait", "done"}, status : Status,
            found : Nat, seen : Seq(Network), pick : Network \cup {None},
            link : Ssid \cup {None}, refused : BOOLEAN]
MultiTypes ==
    /\ aps \in Seq(Ap) /\ link \in Ssid \cup {None} /\ config \in Ssid \cup {None}
    /\ tries \in BOOLEAN /\ status \in Status /\ news \in Seq(Status) /\ run \in RunType

\* What pick is of the networks a scan showed.
PickOf(seen, pick) ==
    /\ pick = None => \A i \in DOMAIN seen : ~Usable(seen[i])
    /\ pick # None =>
          /\ \E i \in DOMAIN seen : seen[i] = pick /\ Usable(pick)
          /\ \A i \in DOMAIN seen : Usable(seen[i]) => seen[i].rssi <= pick.rssi

Picked ==
    /\ run.at # "picked" => run.seen = <<>> /\ run.pick = None
    /\ run.at = "picked" => /\ PickOf(run.seen, run.pick)
                            /\ run.found < Half => Len(run.seen) = run.found

\* The driver has no network but the one it is configured for.  Where run() waits
\* for one, it is of the list, unless the driver refused to leave another; and a
\* status that says "connected" was read while the driver had no other.
Waiting ==
    /\ link \in {None, config}
    /\ run.at = "left" /\ ~run.refused => link = None /\ ~tries
    /\ run.at = "wait" /\ ~run.refused =>
          link \in Listed \cup {None} /\ (tries => config \in Listed)
    /\ run.at \in {"out", "left"} => run.status # "connected"
    /\ run.status = "connected" /\ ~run.refused => run.link \in Listed \cup {None}

MultiInv == MultiTypes /\ Picked /\ Waiting

\* A set of natural numbers that is not empty has a least element.
LEMMA NatHasLeast ==
    ASSUME NEW T \in SUBSET Nat, T # {}
    PROVE  \E x \in T : \A y \in T : x <= y
<1>1. PICK x \in T : \A y \in T : ~ (<<y, x>> \in OpToRel(<, Nat))
  BY NatLessThanWellFounded, WFMin
<1>2. \A y \in T : ~(y < x)
  BY <1>1 DEF OpToRel
<1> QED
  BY <1>2

\* The choice goes through the networks one by one.
LEMMA BestUnfold ==
    ASSUME NEW seen \in Seq(Network)
    PROVE  \E c : /\ c[0] = None /\ Best(seen) = c[Len(seen)]
                  /\ \A i \in 1..Len(seen) :
                        c[i] = IF Better(seen[i], c[i - 1]) THEN seen[i] ELSE c[i - 1]
<1> DEFINE G(f, n) == [i \in 0..n |->
                          IF i = 0 THEN None
                          ELSE IF Better(seen[i], f[i - 1]) THEN seen[i] ELSE f[i - 1]]
           T == {n \in 0..Len(seen) : ~\E f : f = G(f, n)}
           c == CHOOSE f : f = G(f, Len(seen))
<1>1. Len(seen) \in Nat
  OBVIOUS
<1>2. ASSUME NEW n \in 0..Len(seen), n # 0, NEW f, f = G(f, n - 1)
      PROVE  \E g : g = G(g, n)
  <2> DEFINE v == IF Better(seen[n], f[n - 1]) THEN seen[n] ELSE f[n - 1]
             g == [i \in 0..n |-> IF i = n THEN v ELSE f[i]]
  <2>1. n \in Nat /\ n - 1 \in Nat
    BY <1>1, <1>2
  <2>2. \A i \in 0..n - 1 :
           f[i] = IF i = 0 THEN None
                  ELSE IF Better(seen[i], f[i - 1]) THEN seen[i] ELSE f[i - 1]
    BY <1>2
  <2> HIDE DEF v
  <2>3. \A i \in 0..n - 1 : g[i] = f[i]
    BY <2>1
  <2>4. ASSUME NEW i \in 0..n
        PROVE  g[i] = IF i = 0 THEN None
                      ELSE IF Better(seen[i], g[i - 1]) THEN seen[i] ELSE g[i - 1]
    <3>1. CASE i = 0
      <4>1. 0 \in 0..n - 1
        BY <1>2, <2>1
      <4> QED
        BY <2>2, <2>3, <3>1, <4>1
    <3>2. CASE i # 0 /\ i # n
      <4>1. i \in 0..n - 1 /\ i - 1 \in 0..n - 1
        BY <2>1, <3>2
      <4>2. g[i] = f[i] /\ g[i - 1] = f[i - 1]
        BY <2>3, <4>1
      <4> QED
        BY <2>2, <3>2, <4>1, <4>2
    <3>3. CASE i = n
      <4>1. g[i] = v /\ n - 1 \in 0..n - 1
        BY <2>1, <3>3
      <4>2. g[n - 1] = f[n - 1]
        BY <2>3, <4>1
      <4> HIDE DEF g
      <4> QED
        BY <1>2, <3>3, <4>1, <4>2 DEF v
    <3> QED
      BY <3>1, <3>2, <3>3
  <2>5. g = [i \in 0..n |-> g[i]]
    OBVIOUS
  <2> HIDE DEF g
  <2>6. g = G(g, n)
    BY <2>4, <2>5
  <2> QED
    BY <2>6
<1> HIDE DEF G
<1>3. T = {}
  <2> SUFFICES ASSUME T # {}
               PROVE  FALSE
    OBVIOUS
  <2>1. T \in SUBSET Nat
    BY <1>1
  <2>2. PICK n \in T : \A y \in T : n <= y
    <3> HIDE DEF T
    <3> QED
      BY <2>1, NatHasLeast
  <2>3. n # 0
    <3>1. [i \in 0..0 |-> None] = G([i \in 0..0 |-> None], 0)
      BY DEF G
    <3> QED
      BY <2>2, <3>1
  <2>4. n - 1 \in 0..Len(seen) /\ n - 1 \notin T
    <3>1. n \in 0..Len(seen)
      BY <2>2
    <3> HIDE DEF T
    <3> QED
      BY <1>1, <2>2, <2>3, <3>1
  <2>5. PICK f : f = G(f, n - 1)
    BY <2>4
  <2> QED
    BY <1>2, <2>2, <2>3, <2>5
<1>4. c = G(c, Len(seen))
  <2>1. Len(seen) \in 0..Len(seen)
    BY <1>1
  <2>2. \E f : f = G(f, Len(seen))
    BY <1>3, <2>1
  <2> QED
    BY <2>2
<1>5. Best(seen) = c[Len(seen)]
  BY DEF Best, G
<1> HIDE DEF c
<1>6. \A i \in 0..Len(seen) :
         c[i] = IF i = 0 THEN None
                ELSE IF Better(seen[i], c[i - 1]) THEN seen[i] ELSE c[i - 1]
  BY <1>4 DEF G
<1>7. 0 \in 0..Len(seen) /\ \A i \in 1..Len(seen) : i \in 0..Len(seen) /\ i # 0
  BY <1>1
<1> QED
  BY <1>5, <1>6, <1>7

\* The choice is usable and the strongest that is; there is none only if no
\* network is.
LEMMA BestIsStrongest ==
    ASSUME NEW seen \in Seq(Network)
    PROVE  Best(seen) \in Network \cup {None} /\ PickOf(seen, Best(seen))
<1>1. PICK c : /\ c[0] = None /\ Best(seen) = c[Len(seen)]
               /\ \A i \in 1..Len(seen) :
                     c[i] = IF Better(seen[i], c[i - 1]) THEN seen[i] ELSE c[i - 1]
  BY BestUnfold
<1>2. /\ Len(seen) \in Nat /\ DOMAIN seen = 1..Len(seen)
      /\ \A i \in 1..Len(seen) : seen[i] \in Network /\ seen[i].rssi \in Int
  <2>1. Len(seen) \in Nat /\ DOMAIN seen = 1..Len(seen) /\ \A i \in 1..Len(seen) : seen[i] \in Network
    OBVIOUS
  <2>2. \A n \in Network : n.rssi \in Int
    BY MultiAssumption DEF Network
  <2> QED
    BY <2>1, <2>2
<1>3. None \notin Network
  BY MultiAssumption
<1> DEFINE Right(n) ==
      /\ c[n] = None => \A i \in 1..n : ~Usable(seen[i])
      /\ c[n] # None =>
            /\ \E i \in 1..n : seen[i] = c[n] /\ Usable(c[n])
            /\ \A i \in 1..n : Usable(seen[i]) => seen[i].rssi <= c[n].rssi
           T == {n \in 0..Len(seen) : ~Right(n)}
<1>4. ASSUME NEW n \in 0..Len(seen), n # 0, Right(n - 1)
      PROVE  Right(n)
  <2>1. /\ n \in 1..Len(seen) /\ n - 1 \in Nat /\ seen[n] \in Network
        /\ \A i \in 1..n : i \in 1..n - 1 \/ i = n
        /\ 1..n - 1 \subseteq 1..Len(seen) /\ 1..n - 1 \subseteq 1..n
    BY <1>2, <1>4
  <2>2. c[n] = IF Better(seen[n], c[n - 1]) THEN seen[n] ELSE c[n - 1]
    BY <1>1, <2>1
  <2>3. CASE Better(seen[n], c[n - 1])
    <3>1. c[n] = seen[n] /\ Usable(c[n]) /\ c[n] # None
      BY <1>3, <2>1, <2>2, <2>3 DEF Better
    <3>2. ASSUME NEW i \in 1..n - 1, Usable(seen[i])
          PROVE  seen[i].rssi <= c[n].rssi
      <4>1. c[n - 1] # None /\ seen[i].rssi <= c[n - 1].rssi
        BY <1>4, <3>2
      <4>2. c[n].rssi > c[n - 1].rssi
        BY <2>3, <3>1, <4>1 DEF Better
      <4>3. PICK j \in 1..n - 1 : seen[j] = c[n - 1]
        BY <1>4, <4>1
      <4>4. seen[i].rssi \in Int /\ c[n].rssi \in Int /\ c[n - 1].rssi \in Int
        BY <1>2, <2>1, <3>1, <4>3
      <4> QED
        BY <4>1, <4>2, <4>4
    <3>3. seen[n].rssi <= c[n].rssi
      BY <1>2, <2>1, <3>1
    <3> QED
      BY <2>1, <3>1, <3>2, <3>3
  <2>4. CASE ~Better(seen[n], c[n - 1])
    <3>1. c[n] = c[n - 1]
      BY <2>2, <2>4
    <3>2. CASE c[n] = None
      <4>1. ~Usable(seen[n])
        BY <2>4, <3>1, <3>2 DEF Better
      <4> QED
        BY <1>4, <2>1, <3>1, <3>2, <4>1
    <3>3. CASE c[n] # None
      <4>1. PICK j \in 1..n - 1 : seen[j] = c[n] /\ Usable(c[n])
        BY <1>4, <3>1, <3>3
      <4>2. seen[n].rssi \in Int /\ c[n].rssi \in Int
        BY <1>2, <2>1, <4>1
      <4>3. Usable(seen[n]) => seen[n].rssi <= c[n].rssi
        BY <2>4, <3>1, <3>3, <4>2 DEF Better
      <4>4. \A i \in 1..n - 1 : Usable(seen[i]) => seen[i].rssi <= c[n].rssi
        BY <1>4, <3>1, <3>3
      <4> QED
        BY <2>1, <3>3, <4>1, <4>3, <4>4
    <3> QED
      BY <3>2, <3>3
  <2> QED
    BY <2>3, <2>4
<1>5. Right(0)
  BY <1>1
<1> HIDE DEF Right
<1>6. T = {}
  <2> SUFFICES ASSUME T # {}
               PROVE  FALSE
    OBVIOUS
  <2>1. T \in SUBSET Nat
    BY <1>2
  <2>2. PICK n \in T : \A y \in T : n <= y
    <3> HIDE DEF T
    <3> QED
      BY <2>1, NatHasLeast
  <2>3. n # 0
    BY <1>5, <2>2
  <2>4. n - 1 \in 0..Len(seen) /\ n - 1 \notin T
    <3>1. n \in 0..Len(seen)
      BY <2>2
    <3> HIDE DEF T
    <3> QED
      BY <1>2, <2>2, <2>3, <3>1
  <2> QED
    BY <1>4, <2>2, <2>3, <2>4
<1>7. Right(Len(seen))
  BY <1>2, <1>6
<1>8. PickOf(seen, Best(seen))
  BY <1>1, <1>2, <1>7 DEF Right, PickOf
<1>9. Best(seen) \in Network \cup {None}
  BY <1>2, <1>8 DEF PickOf
<1> QED
  BY <1>8, <1>9

\* The parts of a state that is typed.
LEMMA RunParts ==
    ASSUME MultiTypes
    PROVE  /\ run \in RunType /\ run.link \in Ssid \cup {None} /\ run.seen \in Seq(Network)
           /\ run.pick \in Network \cup {None} /\ run.status \in Status
           /\ run.found \in Nat /\ run.refused \in BOOLEAN
  BY DEF MultiTypes, RunType

\* What the driver and the event task do leaves the types alone.
LEMMA StaTypes ==
    ASSUME MultiTypes
    PROVE  /\ Drops => link' \in Ssid \cup {None} /\ news' \in Seq(Status)
           /\ \A ok \in BOOLEAN : Leave(ok) => /\ link' \in Ssid \cup {None} /\ news' \in Seq(Status)
                                   /\ tries' \in BOOLEAN /\ config' = config /\ status' = status
           /\ Connects \/ Fails \/ Event => MultiTypes'
<1>1. /\ aps \in Seq(Ap) /\ link \in Ssid \cup {None} /\ config \in Ssid \cup {None}
      /\ tries \in BOOLEAN /\ status \in Status /\ news \in Seq(Status) /\ run \in RunType
  BY DEF MultiTypes
<1>2. \A s \in Status : Append(news, s) \in Seq(Status)
  BY <1>1, AppendProperties
<1>3. "connected" \in Status
  BY DEF Status
<1>4. Drops => link' \in Ssid \cup {None} /\ news' \in Seq(Status)
  BY <1>1, <1>2 DEF Drops
<1>8. ASSUME NEW ok \in BOOLEAN, Leave(ok)
      PROVE  /\ link' \in Ssid \cup {None} /\ news' \in Seq(Status)
             /\ tries' \in BOOLEAN /\ config' = config /\ status' = status
  BY <1>1, <1>4, <1>8 DEF Leave
<1>5. ASSUME Connects
      PROVE  MultiTypes'
  BY <1>1, <1>2, <1>3, <1>5 DEF Connects, MultiTypes
<1>6. ASSUME Fails
      PROVE  MultiTypes'
  BY <1>1, <1>2, <1>6 DEF Fails, MultiTypes
<1>7. ASSUME Event
      PROVE  MultiTypes'
  <2>1. Head(news) \in Status /\ Tail(news) \in Seq(Status)
    BY <1>1, <1>7, HeadTailProperties DEF Event
  <2> QED
    BY <1>1, <1>7, <2>1 DEF Event, MultiTypes
<1> QED
  BY <1>4, <1>5, <1>6, <1>7, <1>8

\* A number of networks that an int8_t counts is read as it is.
LEMMA Countable ==
    ASSUME NEW n \in Nat, n < Half
    PROVE  Signed(n) = n
<1> DEFINE m == 2 * Half
<1>1. m \in Nat /\ m > 0 /\ n + Half \in 0..m - 1 /\ Half \in Nat
  BY MultiAssumption
<1> HIDE DEF m
<1>2. ((n + Half) % m) = n + Half
  BY <1>1
<1> QED
  BY <1>1, <1>2 DEF Signed, m

\* A count that is not read as negative is not.
LEMMA SignedNat ==
    ASSUME NEW n \in -1..MaxSeen, Signed(n) >= 0
    PROVE  Signed(n) \in Nat /\ n \in Nat
<1> DEFINE m == 2 * Half
<1>1. m \in Nat /\ m > 0 /\ Half \in Nat /\ Half > 1 /\ MaxSeen \in Nat
  BY MultiAssumption
<1>2. n \in Int /\ Half - 1 \in 0..m - 1
  BY <1>1
<1> HIDE DEF m
<1>3. ((n + Half) % m) \in Int /\ ((Half - 1) % m) = Half - 1
  BY <1>1, <1>2
<1>4. Signed(n) \in Int
  BY <1>1, <1>3 DEF Signed, m
<1>5. n # -1
  <2>1. n = -1 => Signed(n) = -1
    BY <1>1, <1>3 DEF Signed, m
  <2> QED
    BY <2>1
<1> QED
  BY <1>1, <1>2, <1>4, <1>5

\* Each step of run() keeps the types.
LEMMA MultiTypesStep ==
    ASSUME MultiInv, MultiNext
    PROVE  MultiTypes'
<1>0. /\ MultiTypes
      /\ aps \in Seq(Ap) /\ link \in Ssid \cup {None} /\ config \in Ssid \cup {None}
      /\ tries \in BOOLEAN /\ status \in Status /\ news \in Seq(Status) /\ run \in RunType
  BY DEF MultiInv, MultiTypes
<1>a. ASSUME NEW l \in Ssid \cup {None}, NEW f \in BOOLEAN
      PROVE  /\ [run EXCEPT !.at = "done", !.found = 0, !.seen = <<>>] \in RunType
             /\ [run EXCEPT !.at = "wait", !.status = status, !.found = 0, !.seen = <<>>,
                           !.pick = None, !.link = l, !.refused = f] \in RunType
  <2> DEFINE e == <<>>
  <2>1. e \in Seq(Network)
    BY EmptySeq
  <2> HIDE DEF e
  <2>2. /\ [run EXCEPT !.at = "done", !.found = 0, !.seen = e] \in RunType
        /\ [run EXCEPT !.at = "wait", !.status = status, !.found = 0, !.seen = e,
                      !.pick = None, !.link = l, !.refused = f] \in RunType
    BY <1>0, <1>a, <2>1 DEF RunType
  <2> QED
    BY <2>2 DEF e
<1>1. ASSUME NEW a \in {"out", "left", "scan", "picked", "wait", "done"}
      PROVE  Seen(a, status) \in RunType /\ [run EXCEPT !.at = a] \in RunType
  BY <1>0, <1>1 DEF Seen, RunType
<1>2. Status = {"connected", "nossid", "failed", "other"}
  BY DEF Status
<1>3. CASE AddAP
  <2>1. PICK a \in Ap : aps' = Append(aps, a)
    BY <1>3 DEF AddAP
  <2>2. aps' \in Seq(Ap)
    BY <1>0, <2>1, AppendProperties
  <2> QED
    BY <1>0, <1>3, <2>2 DEF AddAP, sta, MultiTypes
<1>4. CASE Run
  <2>1. run' \in RunType
    BY <1>0, <1>1, <1>4 DEF Run, RunType
  <2>2. UNCHANGED aps /\ ((\E ok \in BOOLEAN : Leave(ok))
                          \/ UNCHANGED <<link, config, tries, status, news>>)
    BY <1>4 DEF Run, sta
  <2> QED
    BY <1>0, <2>1, <2>2, StaTypes DEF MultiTypes
<1>5. CASE Reread \/ Wait \/ TimesOut \/ NoMatch \/ Return
  <2>1. [run EXCEPT !.at = "done", !.found = 0, !.seen = <<>>] \in RunType
    BY <1>0, <1>a
  <2>2. NoRun \in RunType
    BY <1>2, EmptySeq DEF NoRun, RunType
  <2>3. run' \in RunType
    BY <1>1, <1>5, <2>1, <2>2 DEF Reread, Wait, TimesOut, NoMatch, Return
  <2>4. UNCHANGED <<aps, link, config, tries, status, news>>
    BY <1>5 DEF Reread, Wait, TimesOut, NoMatch, Return, sta
  <2> QED
    BY <1>0, <2>3, <2>4 DEF MultiTypes
<1>6. CASE Scan
  <2>1. UNCHANGED <<aps, link, config, tries, status, news>>
    BY <1>6 DEF Scan, sta
  <2>2. ASSUME NEW n \in -1..MaxSeen, Signed(n) >= 0, NEW seen \in [1..Signed(n) -> Network],
               run' = [run EXCEPT !.at = "picked", !.found = n, !.seen = seen, !.pick = Best(seen)]
        PROVE  run' \in RunType
    <3>1. Signed(n) \in Nat /\ n \in Nat
      BY <2>2, SignedNat
    <3>2. seen \in Seq(Network)
      BY <3>1
    <3>3. Best(seen) \in Network \cup {None}
      BY <3>2, BestIsStrongest
    <3> QED
      BY <1>0, <2>2, <3>1, <3>2, <3>3 DEF RunType
  <2>3. [run EXCEPT !.at = "done", !.status = "nossid"] \in RunType
    BY <1>0, <1>2 DEF RunType
  <2>4. run' \in RunType
    BY <1>1, <1>6, <2>2, <2>3 DEF Scan
  <2> QED
    BY <1>0, <2>1, <2>4 DEF MultiTypes
<1>7. CASE ScanFails
  <2>1. run' \in RunType
    BY <1>1, <1>7 DEF ScanFails
  <2> QED
    BY <1>0, <1>7, <2>1, StaTypes DEF ScanFails, MultiTypes
<1>8. CASE Begin
  <2>1. run.pick.ssid \in Ssid
    BY <1>0, <1>8 DEF Begin, RunType, Network
  <2>2. /\ link' \in Ssid \cup {None} /\ config' \in Ssid \cup {None} /\ tries' \in BOOLEAN
        /\ news' \in Seq(Status) /\ UNCHANGED <<aps, status>>
    BY <1>0, <1>8, <2>1, StaTypes DEF Begin, BeginSame, BeginOther, sta
  <2>3. PICK f \in BOOLEAN :
           run' = [run EXCEPT !.at = "wait", !.status = status, !.found = 0, !.seen = <<>>,
                              !.pick = None, !.link = link', !.refused = f]
    BY <1>8 DEF Begin
  <2>4. run' \in RunType
    BY <1>a, <2>2, <2>3
  <2> QED
    BY <1>0, <2>2, <2>4 DEF MultiTypes
<1>9. CASE Connects \/ Fails \/ Event
  BY <1>0, <1>9, StaTypes
<1> QED
  BY <1>3, <1>4, <1>5, <1>6, <1>7, <1>8, <1>9 DEF MultiNext, Running

\* Only a scan picks; the list does not change while its pick is there.
LEMMA PickedStep ==
    ASSUME MultiInv, MultiNext
    PROVE  Picked'
<1>0. /\ run \in RunType
      /\ run.at # "picked" => run.seen = <<>> /\ run.pick = None
      /\ run.at = "picked" => /\ PickOf(run.seen, run.pick)
                              /\ run.found < Half => Len(run.seen) = run.found
  BY DEF MultiInv, MultiTypes, Picked
<1>1. ASSUME UNCHANGED aps, NEW s, NEW p, PickOf(s, p)
      PROVE  PickOf(s, p)'
  BY <1>1 DEF PickOf, Usable, Known
<1>2. ASSUME run'.at # "picked", run'.seen = <<>>, run'.pick = None
      PROVE  Picked'
  BY <1>2 DEF Picked
<1>3. CASE AddAP
  <2>1. UNCHANGED run /\ run.at = "out"
    BY <1>3 DEF AddAP
  <2> QED
    BY <1>0, <1>2, <2>1
<1>4. CASE Run \/ Reread \/ ScanFails \/ Wait \/ TimesOut
  <2>1. /\ run.at # "picked"
        /\ run'.at # "picked" /\ run'.seen = run.seen /\ run'.pick = run.pick
    BY <1>0, <1>4 DEF Run, Reread, ScanFails, Wait, TimesOut, Seen, RunType
  <2> QED
    BY <1>0, <1>2, <2>1
<1>5. CASE Begin \/ NoMatch \/ Return
  <2>1. CASE Begin
    <3>1. PICK f \in BOOLEAN :
             run' = [run EXCEPT !.at = "wait", !.status = status, !.found = 0, !.seen = <<>>,
                                !.pick = None, !.link = link', !.refused = f]
      BY <2>1 DEF Begin
    <3> QED
      BY <1>0, <1>2, <3>1 DEF RunType
  <2>2. CASE NoMatch
    <3>1. run' = [run EXCEPT !.at = "done", !.found = 0, !.seen = <<>>] /\ run.pick = None
      BY <2>2 DEF NoMatch
    <3> QED
      BY <1>0, <1>2, <3>1 DEF RunType
  <2>3. CASE Return
    <3>1. run' = NoRun
      BY <2>3 DEF Return
    <3> QED
      BY <1>2, <3>1 DEF NoRun
  <2> QED
    BY <1>5, <2>1, <2>2, <2>3
<1>6. CASE Scan
  <2>1. run.at = "scan" /\ run.seen = <<>> /\ run.pick = None /\ UNCHANGED aps
    BY <1>0, <1>6 DEF Scan
  <2>2. ASSUME NEW n \in -1..MaxSeen, Signed(n) >= 0, NEW seen \in [1..Signed(n) -> Network],
               run' = [run EXCEPT !.at = "picked", !.found = n, !.seen = seen, !.pick = Best(seen)]
        PROVE  Picked'
    <3>1. Signed(n) \in Nat /\ n \in Nat
      BY <2>2, SignedNat
    <3>2. seen \in Seq(Network)
      BY <3>1
    <3>9. n < Half => Len(seen) = n
      BY <3>1, <3>2, Countable
    <3>3. PickOf(seen, Best(seen))
      BY <3>2, BestIsStrongest
    <3>4. run'.at = "picked" /\ run'.seen = seen /\ run'.pick = Best(seen) /\ run'.found = n
      BY <1>0, <2>2 DEF RunType
    <3> DEFINE b == Best(seen)
    <3> HIDE DEF b
    <3>5. ASSUME NEW p, PickOf(seen, p)
          PROVE  PickOf(seen, p)'
      BY <1>1, <2>1, <3>5
    <3>6. PICK p : p = Best(seen)
      OBVIOUS
    <3>7. PickOf(seen, p)'
      BY <3>3, <3>5, <3>6
    <3>8. run'.seen = seen /\ run'.pick = p
      BY <3>4, <3>6
    <3> QED
      BY <3>4, <3>7, <3>8, <3>9 DEF Picked, PickOf, Usable, Known
  <2>3. CASE run' = [run EXCEPT !.at = "done", !.status = "nossid"]
    <3>1. run'.at # "picked" /\ run'.seen = <<>> /\ run'.pick = None
      BY <1>0, <2>1, <2>3 DEF RunType
    <3> QED
      BY <1>2, <3>1
  <2> QED
    BY <1>6, <2>2, <2>3 DEF Scan
<1>7. CASE Connects \/ Fails \/ Event
  <2>1. UNCHANGED <<aps, run>>
    BY <1>7 DEF Connects, Fails, Event
  <2> QED
    BY <1>0, <2>1 DEF Picked, PickOf, Usable, Known
<1> QED
  BY <1>3, <1>4, <1>5, <1>6, <1>7 DEF MultiNext, Running

\* Whatever comes between its steps, run() waits for a network of the list only,
\* or for one the driver refused to leave.
LEMMA WaitingStep ==
    ASSUME MultiInv, MultiNext
    PROVE  Waiting'
<1>0. /\ run \in RunType /\ Picked /\ tries \in BOOLEAN
      /\ link \in {None, config}
      /\ run.at = "left" /\ ~run.refused => link = None /\ ~tries
      /\ run.at = "wait" /\ ~run.refused =>
            link \in Listed \cup {None} /\ (tries => config \in Listed)
      /\ run.at \in {"out", "left"} => run.status # "connected"
      /\ run.status = "connected" /\ ~run.refused => run.link \in Listed \cup {None}
  BY DEF MultiInv, MultiTypes, Waiting
<1>1. UNCHANGED aps => Listed' = Listed
  BY DEF Listed
<1>2. CASE AddAP
  <2>1. UNCHANGED <<run, link, config>> /\ run.at = "out"
    BY <1>2 DEF AddAP, sta
  <2> QED
    BY <1>0, <2>1 DEF Waiting
<1>3. CASE Run
  <2>1. UNCHANGED aps /\ run.at = "out" /\ run.status # "connected"
    BY <1>0, <1>3 DEF Run
  <2>2. CASE status = "connected" /\ Mine /\ run' = Seen("done", status) /\ UNCHANGED sta
    <3>1. run'.at = "done" /\ run'.link \in Listed /\ UNCHANGED <<link, config>>
      BY <1>0, <2>2 DEF Seen, Mine, RunType, sta
    <3> QED
      BY <1>0, <1>1, <2>1, <3>1 DEF Waiting
  <2>3. ASSUME NEW ok \in BOOLEAN, Leave(ok), run' = [run EXCEPT !.at = "left", !.refused = ~ok]
        PROVE  Waiting'
    <3>1. run'.at = "left" /\ run'.status # "connected" /\ run'.refused = ~ok
      BY <1>0, <2>1, <2>3 DEF RunType
    <3>2. /\ link' \in {None, config'}
          /\ ok => link' = None /\ ~tries'
      BY <1>0, <2>3 DEF Leave, Drops
    <3> QED
      BY <3>1, <3>2 DEF Waiting
  <2>4. CASE status # "connected" /\ run' = Seen("scan", status) /\ UNCHANGED sta
    <3>1. run'.at = "scan" /\ run'.status # "connected" /\ UNCHANGED <<link, config>>
      BY <1>0, <2>4 DEF Seen, RunType, sta
    <3> QED
      BY <1>0, <3>1 DEF Waiting
  <2> QED
    BY <1>3, <2>2, <2>3, <2>4 DEF Run
<1>4. CASE Reread
  <2>1. /\ run'.at = "scan" /\ run'.link = link /\ run'.refused = run.refused
        /\ run.at = "left" /\ UNCHANGED <<link, config>>
    BY <1>0, <1>4 DEF Reread, Seen, RunType, sta
  <2> QED
    BY <1>0, <2>1 DEF Waiting
<1>5. CASE Scan \/ NoMatch \/ TimesOut
  <2>1. /\ UNCHANGED <<aps, link, config>> /\ run'.at \in {"picked", "done"}
        /\ run'.link = run.link /\ run'.refused = run.refused
        /\ run'.status \in {run.status, "nossid"}
    BY <1>0, <1>5 DEF Scan, NoMatch, TimesOut, RunType, sta
  <2> QED
    BY <1>0, <1>1, <2>1 DEF Waiting
<1>6. CASE ScanFails
  <2>1. /\ UNCHANGED aps /\ run'.at = "done" /\ run'.link = run.link
        /\ run'.refused = run.refused /\ run'.status = run.status
    BY <1>0, <1>6 DEF ScanFails, RunType
  <2>2. link' \in {None, config'}
    BY <1>0, <1>6 DEF ScanFails, Leave, Drops
  <2> QED
    BY <1>0, <1>1, <2>1, <2>2 DEF Waiting
<1>7. CASE Begin
  <2>1. PICK refused \in BOOLEAN :
           /\ \/ ~refused /\ (BeginSame(run.pick.ssid) \/ BeginOther(run.pick.ssid))
              \/ refused /\ UNCHANGED sta
           /\ run' = [run EXCEPT !.at = "wait", !.status = status, !.found = 0, !.seen = <<>>,
                                 !.pick = None, !.link = link', !.refused = refused]
    BY <1>7 DEF Begin
  <2>2. /\ run.at = "picked" /\ run.pick # None /\ UNCHANGED aps
        /\ run'.at = "wait" /\ run'.link = link' /\ run'.refused = refused
    BY <1>0, <1>7, <2>1 DEF Begin, RunType
  <2>3. run.pick.ssid \in Listed
    <3>1. Usable(run.pick)
      BY <1>0, <2>2 DEF Picked, PickOf
    <3> QED
      BY <3>1 DEF Usable, Known, Listed
  <2>4. CASE UNCHANGED sta /\ refused
    BY <1>0, <2>2, <2>4 DEF Waiting, sta
  <2>5. CASE ~refused /\ BeginSame(run.pick.ssid)
    <3>1. config = run.pick.ssid /\ UNCHANGED <<link, config>>
      BY <2>5 DEF BeginSame
    <3> QED
      BY <1>0, <1>1, <2>2, <2>3, <3>1 DEF Waiting
  <2>6. CASE ~refused /\ BeginOther(run.pick.ssid)
    <3>1. link' = None /\ (tries' => config' = run.pick.ssid)
      BY <2>6 DEF BeginOther, Drops
    <3> QED
      BY <1>1, <2>2, <2>3, <3>1 DEF Waiting
  <2> QED
    BY <2>1, <2>4, <2>5, <2>6
<1>8. CASE Wait
  <2>1. run.at = "wait" /\ UNCHANGED <<aps, link, config, tries>>
    BY <1>8 DEF Wait, sta
  <2>2. run' = [run EXCEPT !.at = "done"] \/ run' = Seen("wait", status)
    BY <1>8 DEF Wait
  <2>3. /\ run'.refused = run.refused
        /\ \/ run'.at = "done" /\ run'.status = run.status /\ run'.link = run.link
           \/ run'.at = "wait" /\ run'.link = link
    BY <1>0, <2>2 DEF Seen, RunType
  <2> QED
    BY <1>0, <1>1, <2>1, <2>3 DEF Waiting
<1>9. CASE Return
  <2>1. run'.at = "out" /\ run'.status = "other" /\ UNCHANGED <<link, config>>
    BY <1>9 DEF Return, NoRun, sta
  <2> QED
    BY <1>0, <2>1 DEF Waiting
<1>10. CASE Connects \/ Fails \/ Event
  <2>1. /\ UNCHANGED <<aps, run, config, tries>>
        /\ \/ link' \in {link, None}
           \/ link' = config /\ tries
    BY <1>10 DEF Connects, Fails, Event
  <2> QED
    BY <1>0, <1>1, <2>1 DEF Waiting
<1> QED
  BY <1>2, <1>3, <1>4, <1>5, <1>6, <1>7, <1>8, <1>9, <1>10 DEF MultiNext, Running

\* In every state run() holds the strongest usable network of what it has seen,
\* and waits for a network of the list only.
THEOREM MultiInvariant == MultiSpec => []MultiInv
<1>1. ASSUME MultiInit
      PROVE  MultiInv
  <2>1. /\ aps = <<>> /\ link = None /\ status = "other" /\ news = <<>> /\ run = NoRun
        /\ config \in Ssid \cup {None} /\ tries \in BOOLEAN
    BY <1>1 DEF MultiInit
  <2>2. NoRun \in RunType
    BY EmptySeq DEF NoRun, RunType, Status
  <2>3. MultiTypes
    BY <2>1, <2>2 DEF MultiTypes, Status
  <2> QED
    BY <2>1, <2>3 DEF MultiInv, Picked, Waiting, NoRun
<1>2. ASSUME MultiInv, UNCHANGED multiVars
      PROVE  MultiInv'
  BY <1>2 DEF MultiInv, MultiTypes, Picked, PickOf, Usable, Known, Waiting, Listed, multiVars, sta
<1>3. MultiInv /\ [MultiNext]_multiVars => MultiInv'
  BY <1>2, MultiTypesStep, PickedStep, WaitingStep DEF MultiInv
<1> QED
  BY <1>1, <1>3, PTL DEF MultiSpec

\* run() begins with the strongest network of the list that can be joined, or
\* with none if there is none, unless a name is listed twice or the scan showed
\* more networks than an int8_t counts.
THEOREM StrongestIsPicked == MultiSpec => []PicksStrongest
<1>1. ASSUME MultiTypes, ListedOnce, NEW n
      PROVE  Usable(n) <=> Ways(n) # {}
  <2>1. DOMAIN aps \subseteq Nat
    BY <1>1 DEF MultiTypes
  <2>2. \A i, j \in Known(n) : i = j
    BY <1>1 DEF ListedOnce, Known
  <2> QED
    BY <2>1, <2>2 DEF Usable, Known, Ways
<1>2. ASSUME MultiInv, run.at = "picked", ListedOnce, run.found < Half
      PROVE  LET joinable == {i \in 1..run.found : Ways(run.seen[i]) # {}} IN
             IF run.pick = None THEN joinable = {}
             ELSE \E i \in joinable : /\ run.seen[i] = run.pick
                                      /\ \A j \in joinable : run.seen[j].rssi <= run.pick.rssi
  <2>1. PickOf(run.seen, run.pick) /\ \A n : Usable(n) <=> Ways(n) # {}
    BY <1>1, <1>2 DEF MultiInv, Picked
  <2>2. DOMAIN run.seen = 1..run.found
    <3>1. run.seen \in Seq(Network) /\ Len(run.seen) = run.found
      BY <1>2, RunParts DEF MultiInv, Picked
    <3> QED
      BY <3>1
  <2> QED
    BY <2>1, <2>2 DEF PickOf
<1>3. MultiInv => PicksStrongest
  BY <1>2 DEF PicksStrongest
<1> QED
  BY <1>3, MultiInvariant, PTL

\* When run() answers that it is connected, it is with a network of its list, or
\* status() told of a connection that was gone when it was read, or the driver
\* refused the last disconnect() or begin().
THEOREM ConnectedIsListed == MultiSpec => []ConnectedToAListed
<1>1. MultiInv => ConnectedToAListed
  BY DEF MultiInv, Waiting, ConnectedToAListed
<1> QED
  BY <1>1, MultiInvariant, PTL
================================================================================
