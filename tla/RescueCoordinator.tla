-------------------------- MODULE RescueCoordinator --------------------------
(***************************************************************************)
(* The rescue loop of the CreateTexture hook (src/d3d9.cpp), the           *)
(* RescueCoordinator it consults (include/lyrium/policy) and the adapter   *)
(* that lets its plans into the engine (EngineEvictionBackend, emergency_  *)
(* evict and emergency_clear_texture_cache of src/engine_hooks.cpp).       *)
(*                                                                         *)
(* A thread is a call stack, because everything here can be entered from   *)
(* inside itself: the game creates textures from inside detoured engine    *)
(* functions, evicting runs engine code that creates textures, and a       *)
(* device reset has creates of its own. The top frame of a stack acts.     *)
(*                                                                         *)
(* The coordinator's fields are plain members shared by every thread, so a *)
(* decision is read in one step and acted on in later ones.                *)
(*                                                                         *)
(* A definition marked as a fault is what a plausible mistake would make   *)
(* of the one that follows it; nothing here uses it.                       *)
(***************************************************************************)
EXTENDS RescuePolicy, Sequences

CONSTANTS
  Threads,     (* threads that create textures                             *)
  Sizes,       (* bytes a texture can need                                 *)
  FreeBlocks,  (* what the sampler can report as the largest block; 0 when *)
               (* it has not walked yet                                    *)
  MaxDepth,    (* bound: frames on a stack                                 *)
  MaxTime      (* bound: the clock stops here                              *)

ASSUME RescueAssumption == /\ Sizes \subseteq Nat /\ FreeBlocks \subseteq Nat
                           /\ MaxDepth \in Nat /\ MaxTime \in Nat

VARIABLES
  stack,          (* the calls under way on a thread, the innermost last    *)
  inRescue,       (* consider's thread_local in_rescue                      *)
  inHook,         (* engine_hooks' thread_local in_hook                     *)
  inReset,        (* the Reset hook's thread_local in_device_reset          *)
  cacheKnown,     (* a detour has captured texture_cache_ptr                *)
  underPressure,  (* under_pressure_                                        *)
  consecutive,    (* consecutive_preemptive_                                *)
  ladders,        (* failure_ladders_                                       *)
  lastRescue,     (* last_rescue_us_                                        *)
  now,            (* the clock                                              *)
  clears          (* history: engine cache clears in this pressure episode  *)

flags   == <<inRescue, inHook, inReset>>
latches == <<underPressure, consecutive, ladders, lastRescue>>
world   == <<cacheKnown, now, clears>>
vars    == <<stack, flags, latches, world>>

(* A CreateTexture: at is where it is, attempt the number of failures so   *)
(* far, plan and readAt what consider has decided and when it looked,      *)
(* counted the value of failure_ladders_ that an increment has loaded.     *)
Create(size) == [at |-> "consider", size |-> size, attempt |-> 0, plan |-> Idle,
                 readAt |-> 0, counted |-> 0]
(* A detoured engine function, and a device Reset; whether its guard set   *)
(* the flag that it clears on the way out.                                 *)
Outer(at, engaged) == [at |-> at, engaged |-> engaged]

Init ==
  /\ stack = [t \in Threads |-> <<>>]
  /\ inRescue = [t \in Threads |-> FALSE]
  /\ inHook = [t \in Threads |-> FALSE]
  /\ inReset = [t \in Threads |-> FALSE]
  /\ cacheKnown = FALSE
  /\ underPressure = FALSE /\ consecutive = 0 /\ ladders = 0
  /\ lastRescue = 0 - Config.minInterval - 1
  /\ now = 0
  /\ clears = 0

-----------------------------------------------------------------------------
(* Helpers                                                                 *)

Depth(t) == Len(stack[t])
Top(t)   == stack[t][Depth(t)]
Doing(t) == IF stack[t] = <<>> THEN "game" ELSE Top(t).at
At(t, at) == Doing(t) = at

(* Code that can call CreateTexture or an engine function: the game, a     *)
(* detoured function, the driver's Reset, the engine inside a rescue.      *)
MayCall(t) == /\ Depth(t) < MaxDepth
              /\ Doing(t) \in {"game", "engine", "reset", "evicting"}

Push(t, frame) == stack' = [stack EXCEPT ![t] = Append(@, frame)]
Pop(t)         == stack' = [stack EXCEPT ![t] = SubSeq(@, 1, Len(@) - 1)]
Become(t, frame) == stack' = [stack EXCEPT ![t] = [@ EXCEPT ![Len(@)] = frame]]
Goto(t, at) == Become(t, [Top(t) EXCEPT !.at = at])

(* consider returned without acting: a check before the create goes on, a  *)
(* retry gives up and the create returns its failure.                      *)
GoOnUnaided(t) == IF Top(t).attempt = 0 THEN Goto(t, "driver") ELSE Pop(t)

-----------------------------------------------------------------------------
(* The game and the engine                                                 *)

CreateTexture(t) ==
  /\ MayCall(t)
  /\ \E size \in Sizes : Push(t, Create(size))
  /\ UNCHANGED <<flags, latches, world>>

(* A detoured engine function. Those that evict or clear the cache also    *)
(* tell the DLL where it is.                                               *)
EngineCall(t) ==
  /\ MayCall(t)
  /\ Push(t, Outer("engine", ~inHook[t]))
  /\ inHook' = [inHook EXCEPT ![t] = TRUE]
  /\ cacheKnown' \in {cacheKnown, TRUE}
  /\ UNCHANGED <<inRescue, inReset, latches, now, clears>>

EngineReturns(t) ==
  /\ At(t, "engine")
  /\ inHook' = [inHook EXCEPT ![t] = @ /\ ~Top(t).engaged]
  /\ Pop(t)
  /\ UNCHANGED <<inRescue, inReset, latches, world>>

(* The Reset hook's scope guard; Reset does not nest.                      *)
BeginReset(t) ==
  /\ MayCall(t) /\ ~inReset[t]
  /\ Push(t, Outer("reset", TRUE))
  /\ inReset' = [inReset EXCEPT ![t] = TRUE]
  /\ UNCHANGED <<inRescue, inHook, latches, world>>

EndReset(t) ==
  /\ At(t, "reset")
  /\ Pop(t)
  /\ inReset' = [inReset EXCEPT ![t] = FALSE]
  /\ UNCHANGED <<inRescue, inHook, latches, world>>

Tick ==
  /\ now < MaxTime
  /\ now' = now + 1
  /\ UNCHANGED <<stack, flags, latches, cacheKnown, clears>>

-----------------------------------------------------------------------------
(* consider                                                                *)

(* The check before a create is left out while a device is being reset.    *)
SkipInReset(t) ==
  /\ At(t, "consider") /\ Top(t).attempt = 0 /\ inReset[t]
  /\ Goto(t, "driver")
  /\ UNCHANGED <<flags, latches, world>>

Asks(t) == At(t, "consider") /\ ~(Top(t).attempt = 0 /\ inReset[t])

Suppress(t) ==
  /\ Asks(t) /\ inRescue[t]
  /\ GoOnUnaided(t)
  /\ UNCHANGED <<flags, latches, world>>

Inputs(t, free, pending) ==
  [largestFree |-> free, requested |-> Top(t).size, now |-> now, lastRescue |-> lastRescue,
   pending |-> pending, cacheAvailable |-> cacheKnown, attempt |-> Top(t).attempt,
   underPressure |-> underPressure, consecutive |-> consecutive, ladders |-> ladders]

ReadAlways(t) ==                                                   (* fault *)
  /\ Asks(t)
  /\ \E free \in FreeBlocks, pending \in 0..1 :
       Become(t, [Top(t) EXCEPT !.at = "latch", !.readAt = now,
                                !.plan = Plan(Inputs(t, free, pending))])
  /\ UNCHANGED <<flags, latches, world>>

Read(t) ==
  /\ Asks(t) /\ ~inRescue[t]
  /\ \E free \in FreeBlocks, pending \in 0..1 :
       Become(t, [Top(t) EXCEPT !.at = "latch", !.readAt = now,
                                !.plan = Plan(Inputs(t, free, pending))])
  /\ UNCHANGED <<flags, latches, world>>

LatchUnreset(t) ==                                                 (* fault *)
  LET plan == Top(t).plan IN
  /\ At(t, "latch")
  /\ underPressure' = (plan.enters \/ (underPressure /\ ~plan.leaves))
  /\ consecutive' = IF plan.enters /\ Top(t).attempt = 0 THEN consecutive + 1 ELSE consecutive
  /\ clears' = IF plan.leaves THEN 0 ELSE clears
  /\ IF Acts(plan) THEN Goto(t, "execute") ELSE GoOnUnaided(t)
  /\ inRescue' = [inRescue EXCEPT ![t] = Acts(plan)]
  /\ UNCHANGED <<inHook, inReset, ladders, lastRescue, cacheKnown, now>>

(* The pressure latch and the counters of the episode, then in_rescue.     *)
Latch(t) ==
  LET plan == Top(t).plan IN
  /\ At(t, "latch")
  /\ underPressure' = (plan.enters \/ (underPressure /\ ~plan.leaves))
  /\ consecutive' = IF plan.leaves THEN 0
                    ELSE IF plan.enters /\ Top(t).attempt = 0
                    THEN AtMost(consecutive + 1, Config.preemptiveEscalateAfter)
                    ELSE consecutive
  /\ ladders' = IF plan.leaves THEN 0 ELSE ladders
  /\ clears' = IF plan.leaves THEN 0 ELSE clears
  /\ IF Acts(plan) THEN Goto(t, "execute") ELSE GoOnUnaided(t)
  /\ inRescue' = [inRescue EXCEPT ![t] = Acts(plan)]
  /\ UNCHANGED <<inHook, inReset, lastRescue, cacheKnown, now>>

-----------------------------------------------------------------------------
(* execute                                                                 *)

Clears(t) == Top(t).plan.action = "clear_cache_and_managed"
Counts(t) == IF Clears(t) THEN "count" ELSE "finish"

(* The engine cannot be entered: no cache has been seen, or the thread is  *)
(* inside engine code or a device reset already.                           *)
EntersUnhooked(t) == cacheKnown /\ ~inReset[t]                     (* fault *)
EntersInReset(t)  == cacheKnown /\ ~inHook[t]                      (* fault *)
CanEnterEngine(t) == cacheKnown /\ ~inHook[t] /\ ~inReset[t]

EngineRefuses(t) ==
  /\ At(t, "execute") /\ ~CanEnterEngine(t)
  /\ Goto(t, Counts(t))
  /\ UNCHANGED <<flags, latches, world>>

EnterEngine(t) ==
  /\ At(t, "execute") /\ CanEnterEngine(t)
  /\ Goto(t, "evicting")
  /\ inHook' = [inHook EXCEPT ![t] = TRUE]
  /\ clears' = IF Clears(t) THEN clears + 1 ELSE clears
  /\ UNCHANGED <<inRescue, inReset, latches, cacheKnown, now>>

LeaveEngine(t) ==
  /\ At(t, "evicting")
  /\ Goto(t, Counts(t))
  /\ inHook' = [inHook EXCEPT ![t] = FALSE]
  /\ UNCHANGED <<inRescue, inReset, latches, world>>

(* ++failure_ladders_, which is not atomic: a load and a store.            *)
LoadLadders(t) ==
  /\ At(t, "count")
  /\ Become(t, [Top(t) EXCEPT !.at = "store", !.counted = ladders])
  /\ UNCHANGED <<flags, latches, world>>

Uncounted(t) ==                                                    (* fault *)
  /\ At(t, "store")
  /\ Goto(t, "finish")
  /\ UNCHANGED <<flags, latches, world>>

StoreLadders(t) ==
  /\ At(t, "store")
  /\ ladders' = Top(t).counted + 1
  /\ Become(t, [Top(t) EXCEPT !.at = "finish", !.counted = 0])
  /\ UNCHANGED <<flags, underPressure, consecutive, lastRescue, world>>

Finish(t) ==
  /\ At(t, "finish")
  /\ inRescue' = [inRescue EXCEPT ![t] = FALSE]
  /\ lastRescue' = Top(t).readAt
  /\ Become(t, [Top(t) EXCEPT !.at = "driver", !.readAt = 0])
  /\ UNCHANGED <<inHook, inReset, underPressure, consecutive, ladders, world>>

-----------------------------------------------------------------------------
(* The driver's CreateTexture and the retry loop around it                 *)

DriverCreates(t) ==
  /\ At(t, "driver")
  /\ Pop(t)
  /\ UNCHANGED <<flags, latches, world>>

RetriesForever(t) ==                                               (* fault *)
  /\ At(t, "driver")
  /\ Goto(t, "consider")
  /\ UNCHANGED <<flags, latches, world>>

DriverFails(t) ==
  /\ At(t, "driver")
  /\ IF Top(t).attempt < 3
     THEN Become(t, [Top(t) EXCEPT !.at = "consider", !.attempt = @ + 1])
     ELSE Pop(t)
  /\ UNCHANGED <<flags, latches, world>>

-----------------------------------------------------------------------------
Consider(t) == SkipInReset(t) \/ Suppress(t) \/ Read(t) \/ Latch(t)
Execute(t)  == EngineRefuses(t) \/ EnterEngine(t) \/ LeaveEngine(t)
                 \/ LoadLadders(t) \/ StoreLadders(t) \/ Finish(t)
Progress(t) == Consider(t) \/ Execute(t) \/ DriverCreates(t) \/ DriverFails(t)
Outside(t)  == CreateTexture(t) \/ EngineCall(t) \/ EngineReturns(t)
                 \/ BeginReset(t) \/ EndReset(t)

Next == Tick \/ \E t \in Threads : Progress(t) \/ Outside(t)

Spec == Init /\ [][Next]_vars

(* The operating system runs every thread, and engine code and Reset       *)
(* return, each call on the stack, however many calls it makes first.      *)
Returns(t, depth) == /\ Depth(t) = depth
                     /\ LeaveEngine(t) \/ EngineReturns(t) \/ EndReset(t)
Fairness == \A t \in Threads :
              /\ WF_vars(Progress(t))
              /\ \A depth \in 1..MaxDepth : SF_vars(Returns(t, depth))
FairSpec == Spec /\ Fairness

-----------------------------------------------------------------------------
(* Properties                                                              *)

CreateSteps  == {"consider", "latch", "execute", "evicting", "count", "store", "finish",
                 "driver"}
RescueSteps  == {"execute", "evicting", "count", "store", "finish"}
Plans == [action : Actions, maxCount : 0..Config.evictBatchMax, flush : BOOLEAN,
          enters : BOOLEAN, leaves : BOOLEAN]
CreateFrames == [at : CreateSteps, size : Sizes, attempt : 0..3, plan : Plans,
                 readAt : Nat, counted : Nat]
OuterFrames  == [at : {"engine", "reset"}, engaged : BOOLEAN]
Frames == CreateFrames \cup OuterFrames

(* Every rescue asks for a batch within evict_batch_max, and no create     *)
(* fails more than three times before it gives up.                         *)
TypeOK ==
  /\ DOMAIN stack = Threads
  /\ \A t \in Threads : \A i \in 1..Depth(t) : stack[t][i] \in Frames
  /\ inRescue \in [Threads -> BOOLEAN]
  /\ inHook \in [Threads -> BOOLEAN]
  /\ inReset \in [Threads -> BOOLEAN]
  /\ cacheKnown \in BOOLEAN /\ underPressure \in BOOLEAN
  /\ consecutive \in Nat /\ ladders \in Nat /\ clears \in Nat /\ now \in Nat
  /\ lastRescue \in Int

(* No thread rescues from inside a rescue: evicting runs engine code that  *)
(* creates textures (consider).                                            *)
RescuesDoNotNest ==
  \A t \in Threads : \A i, j \in 1..Depth(t) :
    stack[t][i].at \in RescueSteps /\ stack[t][j].at \in RescueSteps => i = j

(* A rescue never calls into the engine's texture cache from inside an     *)
(* engine function, its own call included: the cache would be changed      *)
(* under the function that iterates it (emergency_evict).                  *)
EngineNotReentered ==
  \A t \in Threads : \A i \in 1..Depth(t) : \A j \in 1..(i - 1) :
    stack[t][i].at = "evicting" => stack[t][j].at \notin {"engine", "evicting"}

(* No rescue calls into the engine with Reset on the stack, however        *)
(* desperate the address space looks (in_device_reset).                    *)
ResetNotDisturbed ==
  \A t \in Threads : \A i \in 1..Depth(t) : \A j \in 1..(i - 1) :
    stack[t][i].at = "evicting" => stack[t][j].at /= "reset"

(* However often creates fail, the engine's texture cache is cleared at    *)
(* most failure_ladder_limit times in one pressure episode.                *)
LaddersBounded ==
  Config.failureLadderLimit /= 0 => clears <= Config.failureLadderLimit

(* A fresh episode starts at the gentlest rung with the failure path       *)
(* armed: outside an episode nothing of the last one is left.              *)
EpisodeStartsFresh == ~underPressure => consecutive = 0 /\ ladders = 0

(* Each retry of a failed create asks for a stronger action than the last. *)
Weaker(p, q) == \/ Strength(p.action) < Strength(q.action)
                \/ p.action = q.action /\ p.maxCount < q.maxCount
RetriesEscalate ==
  [][\A t \in Threads :
       Read(t) /\ Top(t).attempt >= 2 /\ Acts(stack'[t][Depth(t)].plan)
         => Weaker(Top(t).plan, stack'[t][Depth(t)].plan)]_vars

(* A CreateTexture comes to an end: the retries stop, whatever the driver  *)
(* and the engine answer.                                                  *)
CreatesReturn ==
  \A t \in Threads :
    (stack[t] /= <<>> /\ stack[t][1].at \in CreateSteps) ~> stack[t] = <<>>
=============================================================================
