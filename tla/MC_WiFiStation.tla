---------------------------- MODULE MC_WiFiStation ----------------------------
(***************************************************************************)
(* Reasons are grouped by what _eventCallback does with them.              *)
(***************************************************************************)
EXTENDS WiFiStationProperties

EveryReason == Reasons \ {"ASSOC_LEAVE"}
===============================================================================
