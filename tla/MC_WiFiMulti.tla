------------------------------ MODULE MC_WiFiMulti ------------------------------
(***************************************************************************)
(* Three names, two strengths, a list of two and scans of seven, whose     *)
(* count wraps at six: enough for a name that is listed twice, a network   *)
(* that is not listed, a stronger one, and counts that are read as -3, -2, *)
(* -1, 0 and 1.                                                            *)
(***************************************************************************)
EXTENDS WiFiMultiProperties, TLC

Names == Permutations(Ssid)
===============================================================================
