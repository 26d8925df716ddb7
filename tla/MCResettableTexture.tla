----------------------- MODULE MCResettableTexture -----------------------
(* Small instances of ResettableTexture for TLC: a render thread and a     *)
(* loader thread. Addresses are interchangeable.                           *)
EXTENDS ResettableTexture, TLC

AddressesAlike == Permutations(Inners)
==========================================================================
