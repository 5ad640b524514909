---------------------------- MODULE MC_WiFiSockets ----------------------------
(***************************************************************************)
(* Two clients share or not; three descriptors, so that both clients, the  *)
(* server and an accepted peer compete for them and they run out.          *)
(***************************************************************************)
EXTENDS WiFiSocketsProperties
===============================================================================
