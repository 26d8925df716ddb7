----------------------------- MODULE MCSidePool -----------------------------
(* Small instances of SidePool for TLC. Configurations of lyrium.ini on    *)
(* both kinds of image: nothing set, the shipped figures for a 4 GB image, *)
(* a split that fits a 2 GB one, one that would starve the main pool, one  *)
(* larger than the whole budget, and routing switched off.                 *)
EXTENDS SidePool, TLC

Ini(m, s, laa, hook) ==
  [main |-> m, side |-> s, laa |-> laa, hookPool |-> hook, threshold |-> 2]
Inis == {Ini(0, 0, FALSE, TRUE), Ini(1024, 945, TRUE, FALSE), Ini(1024, 945, FALSE, FALSE),
         Ini(768, 192, FALSE, FALSE), Ini(400, 320, FALSE, FALSE),
         Ini(100, 320, FALSE, FALSE), Ini(0, 288, FALSE, FALSE),
         [Ini(0, 192, TRUE, FALSE) EXCEPT !.threshold = 0]}
Alike == Permutations(MainPlaces) \cup Permutations(ArenaPlaces) \cup Permutations(Threads)
=============================================================================
