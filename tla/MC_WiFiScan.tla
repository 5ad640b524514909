----------------------------- MODULE MC_WiFiScan -----------------------------
(***************************************************************************)
(* Two access points tell an empty, a partial and a full result apart.     *)
(***************************************************************************)
EXTENDS WiFiScanProperties
===============================================================================
