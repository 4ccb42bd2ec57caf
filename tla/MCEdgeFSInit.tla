---------------------------- MODULE MCEdgeFSInit ----------------------------
(* An instance of EdgeFSInit for TLC, in small units.                      *)
EXTENDS EdgeFSInit

(* Accepted: 5 chunks of 2, 5 chunks of 4, 3 chunks of 2, and 3 chunks of  *)
(* 2 with memory to spare.  Refused: too little memory, too large a disk.   *)
SomeInfos == {[memory |-> 13, disk |-> 10], [memory |-> 13, disk |-> 21],
              [memory |-> 9, disk |-> 6], [memory |-> 10, disk |-> 7],
              [memory |-> 5, disk |-> 10], [memory |-> 13, disk |-> 60]}

(* More memory than the minimum, and a disk of any size.                   *)
ManyInfos == [memory : 6..16, disk : 1..60]
=============================================================================
