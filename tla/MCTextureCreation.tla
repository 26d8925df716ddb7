------------------------ MODULE MCTextureCreation ------------------------
(* Small instances of TextureCreation for TLC: two threads that create and *)
(* release, few enough addresses for one to be used again at once.         *)
(* Addresses of a kind, and threads, are interchangeable.                  *)
EXTENDS TextureCreation, TLC

Alike == Permutations(Places) \cup Permutations(Wrappers) \cup Permutations(Threads)
==========================================================================
