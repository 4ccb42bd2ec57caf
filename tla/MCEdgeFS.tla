----------------------------- MODULE MCEdgeFS -----------------------------
(* Instances of the EdgeFS modules for TLC.                                *)
EXTENDS EdgeFSRead

CONSTANTS f1, f2, f3

(* f1 and f3 share slot 0; f2 starts at slot 1.                            *)
TwoSlots == f1 :> 0 @@ f2 :> 1 @@ f3 :> 0
TwoFiles == f1 :> 0 @@ f2 :> 1
OneSlot == f1 :> 1 @@ f2 :> 1
===========================================================================
