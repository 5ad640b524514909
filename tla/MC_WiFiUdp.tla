------------------------------- MODULE MC_WiFiUdp -------------------------------
(***************************************************************************)
(* Buffers of two bytes and packets of up to four, which fill them twice;  *)
(* datagrams of up to three bytes, one more than a buffer takes.           *)
(***************************************************************************)
EXTENDS WiFiUdpProperties, TLC

Peers == Permutations(Peer)
===============================================================================
