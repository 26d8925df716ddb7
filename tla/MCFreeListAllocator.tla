------------------------ MODULE MCFreeListAllocator ------------------------
(* An instance of FreeListAllocator for TLC: two objects, a Node of two     *)
(* units with an alignment of two, pages too small, just large enough, and  *)
(* large enough for seven blocks, which is not a multiple of the alignment. *)
EXTENDS FreeListAllocator

MCRequests == 0..3
MCCapacities == {1, 2, 8, 15}
=============================================================================
