------------------------ MODULE MCAllocationTracking ------------------------
(* A small instance of AllocationTracking for TLC: blocks below and above  *)
(* the threshold, of two sizes.                                            *)
EXTENDS AllocationTracking, TLC

Alike == Permutations(Addresses) \cup Permutations(Threads)
MCSizes == {1, 2, 3}
=============================================================================
