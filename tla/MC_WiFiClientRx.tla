---------------------------- MODULE MC_WiFiClientRx ----------------------------
(***************************************************************************)
(* Bytes exceeds twice Size, so that the buffer fills, is left half read,  *)
(* and is refilled within one read(); a read may ask for more than Size.   *)
(***************************************************************************)
EXTENDS WiFiClientRxProperties
===============================================================================
