-------------------------- MODULE WiFiScanProperties --------------------------
(***************************************************************************)
(* What a sketch may rely on while it scans, and what it may not.          *)
(***************************************************************************)
EXTENDS WiFiScan

\* The records a sketch was told of are there: _getScanInfoByIndex never hands
\* out a pointer behind the array that _scanDone allocated; and scanNetworks
\* never frees the array the driver is filling.  Late scans apart, and a sketch
\* that itself calls scanDelete while _scanDone runs.
Usual == timing \cap {"late", "deleted"} = {}
RecordsInBounds ==
    Usual => (told # Untold => told <= result) /\ "freed" \notin timing

\* _scanDone never drops an array that scanDelete has not freed.  Late scans apart.
NoArrayLost == task = "records" /\ "late" \notin timing => result = 0

\* The library does not take a scan to be running for ever, which would make
\* every later scanNetworks answer WIFI_SCAN_RUNNING, late scans included.  A
\* quick one it may: its WIFI_SCANNING_BIT is set after _scanDone cleared it.
ScanningEnds ==
    ("SCANNING" \in bits) ~> ("SCANNING" \notin bits \/ "quick" \in timing)
===============================================================================
