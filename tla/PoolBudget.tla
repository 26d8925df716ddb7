---------------------------- MODULE PoolBudget ----------------------------
(***************************************************************************)
(* What the engine's pool budget buys and how it is shared with a side     *)
(* pool (include/lyrium/dao/pool_budget.h). Sizes are in megabytes; every  *)
(* constant of the source is a whole number of them.                       *)
(*                                                                         *)
(* A definition marked as a fault is what a plausible mistake would make   *)
(* of the one that follows it; nothing here uses it.                       *)
(***************************************************************************)
EXTENDS Integers

StringsPool     == 55
StockBudget     == 850
MinimumMainPool == 320
MaxNonLaaPool   == 768
NonLaaSide      == 288

(* The engine takes the strings pool out of the budget first; saturates.   *)
ExpectedMainPool(budget) ==
  IF budget <= StringsPool THEN 0 ELSE budget - StringsPool

Split(budget, side) == [budget |-> budget, side |-> side]

(* The side pool has to come out of the budget.                            *)
Starves(configured, side) ==
  \/ configured < side
  \/ ExpectedMainPool(configured - side) < MinimumMainPool

SplitUnchecked(configured, side, laa) ==                           (* fault *)
  IF side = 0 \/ laa THEN Split(configured, side) ELSE Split(configured - side, side)

PlanPoolSplit(configured, side, laa) ==
  IF side = 0 \/ laa                 THEN Split(configured, side)
  ELSE IF configured > MaxNonLaaPool THEN Split(MaxNonLaaPool - NonLaaSide, NonLaaSide)
  ELSE IF Starves(configured, side)  THEN Split(configured, 0)
  ELSE Split(configured - side, side)
===========================================================================
