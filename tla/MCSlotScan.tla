----------------------------- MODULE MCSlotScan ----------------------------
(***************************************************************************)
(* SlotScan with a server of three slots (more than the scan looks at), a  *)
(* server that is down and localhost with one slot.                        *)
(***************************************************************************)
EXTENDS SlotScan, TLC

CONSTANTS a, b, c, big, down, here

MCHostList == <<big, down, here>>
MCSlots == (big :> 3) @@ (down :> 1) @@ (here :> 1)
=============================================================================
