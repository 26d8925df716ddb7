----------------------------- MODULE RescuePolicy -----------------------------
(***************************************************************************)
(* RescuePolicy of include/lyrium/policy/rescue_policy.h: the pure decision*)
(* whether to evict, and how hard, from one reading of the address space.  *)
(***************************************************************************)
EXTENDS Integers

CONSTANT Config   (* a RescueConfig                                         *)

(* rescue_policy.h constrains none of the values; these are the types, and *)
(* that a batch is not empty.                                              *)
ASSUME ConfigAssumption ==
  /\ Config.preemptive \in BOOLEAN /\ Config.onFailure \in BOOLEAN
  /\ Config.evictManaged \in BOOLEAN /\ Config.unbounded \in BOOLEAN
  /\ Config.headroomMultiple \in Nat /\ Config.headroomFloor \in Nat
  /\ Config.largeCreate \in Nat /\ Config.pressureExitMultiple \in Nat
  /\ Config.preemptiveEscalateAfter \in Nat
  /\ Config.evictBatch \in Nat \ {0} /\ Config.evictBatchMax \in Nat \ {0}
  /\ Config.minInterval \in Nat
  /\ Config.failureLadderLimit \in Nat

Actions == {"none", "evict_cache", "evict_cache_and_managed", "clear_cache_and_managed"}

(* escalation_strength                                                     *)
Strength(action) == CASE action = "none"                    -> 0
                      [] action = "evict_cache"             -> 1
                      [] action = "evict_cache_and_managed" -> 2
                      [] action = "clear_cache_and_managed" -> 4

Idle == [action |-> "none", maxCount |-> 0, flush |-> FALSE,
         enters |-> FALSE, leaves |-> FALSE]
Act(action, count) == [Idle EXCEPT !.action = action, !.maxCount = count, !.enters = TRUE]
Acts(plan) == plan.action /= "none"

AtMost(n, limit) == IF n > limit THEN limit ELSE n

(* One rung wider: four times the batch, without overflowing.              *)
Widened(batch) == IF batch > Config.evictBatchMax \div 4 THEN Config.evictBatchMax
                  ELSE batch * 4

(* batch_for, which is asked for attempts 0, 1 and 2 only.                 *)
BatchFor(attempt) ==
  LET batch == IF attempt = 0 THEN Config.evictBatch
               ELSE IF attempt = 1 THEN Widened(Config.evictBatch)
               ELSE Widened(Widened(Config.evictBatch))
  IN IF Config.unbounded THEN Config.evictBatchMax
     ELSE AtMost(batch, Config.evictBatchMax)

(* A free block of 0 is an unknown one, and counts as pressure.            *)
IsPressured(in) ==
  \/ in.largestFree = 0
  \/ in.largestFree < in.requested * Config.headroomMultiple
  \/ in.largestFree < Config.headroomFloor

HasExitHeadroom(in) ==
  /\ in.largestFree /= 0
  /\ in.largestFree >=
       in.requested * Config.headroomMultiple * Config.pressureExitMultiple
  /\ in.largestFree >= Config.headroomFloor * Config.pressureExitMultiple

(* A create has failed attempt times.                                      *)
LadderSpent(in) == /\ Config.failureLadderLimit /= 0
                   /\ in.ladders >= Config.failureLadderLimit

SameRung(in) == Act("evict_cache", BatchFor(1))                    (* fault *)

Escalate(in) ==
  IF ~Config.onFailure \/ LadderSpent(in) THEN Idle
  ELSE IF in.attempt = 1 THEN Act("evict_cache", BatchFor(1))
  ELSE IF in.attempt = 2
       THEN Act(IF Config.evictManaged THEN "evict_cache_and_managed" ELSE "evict_cache",
                BatchFor(2))
  ELSE Act("clear_cache_and_managed", Config.evictBatchMax)

(* The gates before the headroom of a create is looked at.                 *)
TooSmall(in) ==
  /\ ~in.underPressure
  /\ ~(in.largestFree /= 0 /\ in.largestFree < Config.headroomFloor)
  /\ in.requested < Config.largeCreate
RateLimited(in) == in.now - in.lastRescue < Config.minInterval
Gated(in) == ~Config.preemptive \/ ~in.cacheAvailable \/ TooSmall(in) \/ RateLimited(in)

(* Before a create: only ever a bounded eviction.                          *)
Preempt(in) ==
  IF Gated(in) THEN Idle
  ELSE IF ~IsPressured(in)
       THEN [Idle EXCEPT !.leaves = in.underPressure /\ HasExitHeadroom(in)]
  ELSE IF in.consecutive >= Config.preemptiveEscalateAfter
       THEN [Act("evict_cache", BatchFor(1)) EXCEPT !.flush = TRUE]
  ELSE IF in.pending <= 0 THEN [Idle EXCEPT !.enters = TRUE]
  ELSE Act("evict_cache", BatchFor(0))

Plan(in) == IF in.attempt > 0 THEN Escalate(in) ELSE Preempt(in)
===============================================================================
