----------------------------- MODULE MCCounting -----------------------------
(* Two places where threads share a table of fixed size, each in a small   *)
(* instance: the records of the allocation watch, and the staging pool     *)
(* with the uploads it serves. Neither touches the other, so a behaviour   *)
(* takes one of them.                                                      *)
EXTENDS AllocWatch, StagingUpload, TLC

VARIABLE part

(* What a stack may show is an allocator alone, or one of two clients      *)
(* behind one.                                                             *)
MCBacktraces == {<<"ntdll", "d3d9">>, <<"ntdll", "ntdll", "game">>}
MCSizes      == {1, 2}

(* Square, oblong and odd textures, with levels that are smaller than a    *)
(* block. The pool has room for two of the smallest levels.                *)
S(w, h, n, b) == [width |-> w, height |-> h, levels |-> n, block |-> b]
MCShapes == {S(8, 8, 2, 8), S(4, 2, 3, 8), S(13, 6, 2, 8), S(20, 9, 1, 16), S(1, 1, 1, 16), S(6, 1, 3, 8)}

Alike == Permutations(Threads) \cup Permutations(Uploaders) \cup Permutations(Handles)

CountingInit ==
  /\ part \in {"watch", "uploads"}
  /\ Init /\ UploadInit
  /\ part = "watch" => shape = S(1, 1, 1, 16)

CountingNext ==
  \/ part = "watch" /\ Next /\ UNCHANGED <<part, uploadVars>>
  \/ part = "uploads" /\ UploadNext /\ UNCHANGED <<part, vars>>

CountingSpec == CountingInit /\ [][CountingNext]_<<part, vars, uploadVars>>
=============================================================================
