------------------------------ MODULE MC_SoftAp ------------------------------
(***************************************************************************)
(* 512 subnets of 256 addresses stand for the address space: addresses at  *)
(* both ends of subnets of every size, in the last one also where a sum    *)
(* wraps.  Netmasks of 16 and 256 addresses, one of 8, one of 512, and     *)
(* three that are not contiguous and count as /24.                         *)
(***************************************************************************)
EXTENDS SoftAp

MCSpace == 131072
MCIps == {513, 516, 527, 131057, 131071}
MCGateways == {0, 520, 530}
MCStarts == {0, 300, 516, 518, 529, 757, 131061, 131068}
MCMasks == { <<255, 255, 255, x>> : x \in {0, 240, 248, 15, 253} }
             \cup { <<255, 255, 254, 0>>, <<255, 255, 0, 255>> }
===============================================================================
