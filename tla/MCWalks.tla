------------------------------ MODULE MCWalks ------------------------------
(* A sample: the walk over the address space, and then, from its observer, *)
(* the walk over the pools, each on several threads at once. The two share *)
(* nothing but the thread, so a behaviour takes one of them.               *)
EXTENDS AddressWalk, PoolWalk, TLC

VARIABLE part

MCThresholds == <<3, 2, 1>>
MaxEvents    == 3     (* bound: two walks and one upset, or one and two           *)
Symmetry == Permutations(Refreshers) \cup Permutations(Samplers)

Init ==
  /\ part \in {"addresses", "pools"}
  /\ AddressInit /\ PoolInit
  /\ part = "addresses" => chain = [p \in Pools |-> CHOOSE c \in Tilings : TRUE]
  /\ part = "pools" => /\ memory = [p \in Addresses |-> "free"]
                       /\ \A p \in Pools : chain[p] = chain[Main]

Next ==
  \/ /\ part = "addresses" /\ AddressNext /\ UNCHANGED <<part, occupancyVars>>
     /\ samples' + upsets' <= MaxEvents
  \/ part = "pools" /\ PoolNext /\ UNCHANGED <<part, addressVars>>

Spec == Init /\ [][Next]_<<part, addressVars, occupancyVars>>
=============================================================================
