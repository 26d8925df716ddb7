------------------------ MODULE MCRescueCoordinator ------------------------
(* Small instances of RescueCoordinator for TLC. The numbers keep the      *)
(* order of the defaults of RescueConfig: a floor above most requests, a   *)
(* multiple that decides for large ones, an exit above both.               *)
EXTENDS RescueCoordinator

Defaults == [preemptive |-> TRUE, onFailure |-> TRUE,
             headroomMultiple |-> 2, headroomFloor |-> 4, largeCreate |-> 2,
             pressureExitMultiple |-> 2, preemptiveEscalateAfter |-> 1,
             evictBatch |-> 1, evictBatchMax |-> 9, minInterval |-> 1,
             evictManaged |-> TRUE, failureLadderLimit |-> 2, unbounded |-> FALSE]

(* A small texture and a large one; nothing known, below the floor, enough *)
(* for the small one only, enough for both, and enough to end an episode.  *)
SmallAndLarge == {1, 3}
Blocks == {0, 3, 5, 7, 12}
=============================================================================
