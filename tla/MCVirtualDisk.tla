--------------------------- MODULE MCVirtualDisk ---------------------------
(***************************************************************************)
(* Bounds for VirtualDisk: two sectors and a cache pruned at two entries,  *)
(* so that it holds one sector and every second use evicts.                *)
(***************************************************************************)
EXTENDS VirtualDisk

MCSectors == {0, 1}
NoFaults == {}
EveryFault == AllFaults
LateReplies == {"lateReply"}
=============================================================================
