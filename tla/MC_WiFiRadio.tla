------------------------------ MODULE MC_WiFiRadio ------------------------------
(***************************************************************************)
(* The sketch and the event task switch both interfaces; the storage is    *)
(* set, the longer way through the low level start.                        *)
(***************************************************************************)
EXTENDS WiFiRadioProperties
===============================================================================
