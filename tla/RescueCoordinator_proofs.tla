----------------------- MODULE RescueCoordinator_proofs -----------------------
(***************************************************************************)
(* Proofs about RescueCoordinator, for any number of threads, any          *)
(* configuration and stacks of any depth.                                  *)
(***************************************************************************)
EXTENDS RescueCoordinator, SequenceTheorems, TLAPS

-----------------------------------------------------------------------------
(* The inductive invariant                                                 *)

Typed ==
  /\ stack \in [Threads -> Seq(Frames)]
  /\ inRescue \in [Threads -> BOOLEAN]
  /\ inHook \in [Threads -> BOOLEAN]
  /\ inReset \in [Threads -> BOOLEAN]
  /\ cacheKnown \in BOOLEAN /\ underPressure \in BOOLEAN
  /\ consecutive \in Nat /\ ladders \in Nat /\ clears \in Nat /\ now \in Nat
  /\ lastRescue \in Int

(* Every call that has made another one is of a kind that can.             *)
Callers == {"engine", "reset", "evicting"}
CallersOnly(s) == \A i \in 1..Len(s) : i < Len(s) => s[i].at \in Callers

(* Each thread-local flag says what is on the stack. in_rescue is set only *)
(* by a decision that has found it clear, and there is one at a time.      *)
Decided == RescueSteps \cup {"latch"}
RescueFlag(s, flag) ==
  /\ flag <=> \E i \in 1..Len(s) : s[i].at \in RescueSteps
  /\ \A i, j \in 1..Len(s) : s[i].at \in Decided /\ s[j].at \in Decided => i = j
ResetFlag(s, flag) ==
  /\ flag <=> \E i \in 1..Len(s) : s[i].at = "reset"
  /\ \A i, j \in 1..Len(s) : s[i].at = "reset" /\ s[j].at = "reset" => i = j

(* in_hook belongs to the outermost of the engine calls on the stack.      *)
InEngine(frame) == frame.at \in {"engine", "evicting"}
HoldsHook(frame) == frame.at = "evicting" \/ (frame.at = "engine" /\ frame.engaged)
HookFlag(s, flag) ==
  /\ flag <=> \E i \in 1..Len(s) : InEngine(s[i])
  /\ \A i \in 1..Len(s) : InEngine(s[i]) =>
       \E j \in 1..Len(s) : j <= i /\ HoldsHook(s[j])
  /\ \A i, j \in 1..Len(s) : HoldsHook(s[i]) /\ j < i => ~InEngine(s[j])

NoResetUnderEviction(s) ==
  \A i, j \in 1..Len(s) : s[i].at = "evicting" /\ j < i => s[j].at /= "reset"

Discipline(s, rescue, hook, reset) ==
  /\ CallersOnly(s)
  /\ RescueFlag(s, rescue)
  /\ HookFlag(s, hook)
  /\ ResetFlag(s, reset)
  /\ NoResetUnderEviction(s)

Disciplined ==
  \A t \in Threads : Discipline(stack[t], inRescue[t], inHook[t], inReset[t])

StackInv == Typed /\ Disciplined

-----------------------------------------------------------------------------
(* Stacks                                                                  *)

(* What pushing, popping and replacing the top do to the frames.           *)
LEMMA PushedFrames ==
  ASSUME NEW s \in Seq(Frames), NEW f \in Frames
  PROVE  LET p == Append(s, f) IN
         /\ p \in Seq(Frames) /\ Len(p) = Len(s) + 1 /\ Len(s) \in Nat
         /\ p[Len(p)] = f
         /\ \A i \in 1..Len(s) : p[i] = s[i]
OBVIOUS

LEMMA PoppedFrames ==
  ASSUME NEW s \in Seq(Frames), s /= <<>>
  PROVE  LET p == SubSeq(s, 1, Len(s) - 1) IN
         /\ p \in Seq(Frames) /\ Len(p) = Len(s) - 1 /\ Len(s) \in Nat \ {0}
         /\ \A i \in 1..Len(p) : p[i] = s[i]
<1>1. Len(s) \in Nat \ {0} /\ \A i \in 1..(Len(s) - 1) : s[i] \in Frames
  OBVIOUS
<1> DEFINE m == 1
           n == Len(s) - 1
<1>2. m \in Int /\ n \in Int /\ \A i \in m..n : s[i] \in Frames
  BY <1>1
<1>3. /\ SubSeq(s, m, n) \in Seq(Frames)
      /\ Len(SubSeq(s, m, n)) = IF m <= n THEN n - m + 1 ELSE 0
      /\ \A i \in 1..(n - m + 1) : SubSeq(s, m, n)[i] = s[m + i - 1]
  <2> HIDE DEF m, n
  <2> QED  BY <1>2, SubSeqProperties
<1>4. m = 1 /\ n = Len(s) - 1
  OBVIOUS
<1> HIDE DEF m, n
<1>5. /\ Len(SubSeq(s, m, n)) = Len(s) - 1
      /\ \A i \in 1..(Len(s) - 1) : SubSeq(s, m, n)[i] = s[i]
  BY <1>1, <1>3, <1>4
<1> QED  BY <1>1, <1>3, <1>5 DEF m, n

LEMMA ReplacedFrames ==
  ASSUME NEW s \in Seq(Frames), s /= <<>>, NEW f \in Frames
  PROVE  LET p == [s EXCEPT ![Len(s)] = f] IN
         /\ p \in Seq(Frames) /\ Len(p) = Len(s) /\ Len(s) \in Nat \ {0}
         /\ p[Len(s)] = f
         /\ \A i \in 1..Len(s) : i /= Len(s) => p[i] = s[i]
OBVIOUS
(* A call is made: any frame but an eviction, which is a step of a create. *)
LEMMA PushKeeps ==
  ASSUME NEW s \in Seq(Frames), NEW f \in Frames,
         NEW rescue \in BOOLEAN, NEW hook \in BOOLEAN, NEW reset \in BOOLEAN,
         Discipline(s, rescue, hook, reset),
         s = <<>> \/ s[Len(s)].at \in Callers,
         f.at \notin Decided,
         f.at = "engine" => f.engaged = ~hook,
         f.at = "reset" => ~reset,
         NEW hook2 \in BOOLEAN, hook2 <=> hook \/ f.at = "engine",
         NEW reset2 \in BOOLEAN, reset2 <=> reset \/ f.at = "reset"
  PROVE  Discipline(Append(s, f), rescue, hook2, reset2)
<1> DEFINE p == Append(s, f)
<1>1. /\ p \in Seq(Frames) /\ Len(p) = Len(s) + 1 /\ Len(s) \in Nat
      /\ p[Len(p)] = f
      /\ \A i \in 1..Len(s) : p[i] = s[i]
  BY PushedFrames
<1> HIDE DEF p
<1>2. CallersOnly(p)
  BY <1>1 DEF Discipline, CallersOnly
<1>3. RescueFlag(p, rescue)
  BY <1>1 DEF Discipline, RescueFlag, Decided
<1>4. ResetFlag(p, reset2)
  BY <1>1 DEF Discipline, ResetFlag
<1>5. NoResetUnderEviction(p)
  BY <1>1 DEF Discipline, NoResetUnderEviction, RescueSteps, Decided
<1>6. HookFlag(p, hook2)
  <2> USE DEF RescueSteps, Decided
  <2>1. /\ hook <=> \E i \in 1..Len(s) : InEngine(s[i])
        /\ \A i \in 1..Len(s) : InEngine(s[i]) =>
             \E j \in 1..Len(s) : j <= i /\ HoldsHook(s[j])
        /\ \A i, j \in 1..Len(s) : HoldsHook(s[i]) /\ j < i => ~InEngine(s[j])
    BY DEF Discipline, HookFlag
  <2>2. /\ InEngine(f) <=> f.at = "engine"
        /\ HoldsHook(f) <=> f.at = "engine" /\ ~hook
    BY DEF InEngine, HoldsHook
  <2>3. hook \/ f.at = "engine" <=> \E i \in 1..Len(p) : InEngine(p[i])
    <3>1. ASSUME hook
          PROVE  \E i \in 1..Len(p) : InEngine(p[i])
      BY <1>1, <2>1, <3>1
    <3>2. ASSUME f.at = "engine"
          PROVE  \E i \in 1..Len(p) : InEngine(p[i])
      BY <1>1, <2>2, <3>2
    <3>3. ASSUME NEW i \in 1..Len(p), InEngine(p[i])
          PROVE  hook \/ f.at = "engine"
      BY <1>1, <2>1, <2>2, <3>3
    <3> QED  BY <3>1, <3>2, <3>3
  <2>4. ASSUME NEW i \in 1..Len(p), InEngine(p[i])
        PROVE  \E j \in 1..Len(p) : j <= i /\ HoldsHook(p[j])
    <3>1. i \in 1..Len(s) \/ i = Len(p)
      BY <1>1
    <3>2. (\E k \in 1..Len(s) : InEngine(s[k])) =>
             \E j \in 1..Len(s) : HoldsHook(s[j])
      BY <2>1
    <3>3. ASSUME i \in 1..Len(s)
          PROVE  \E j \in 1..Len(p) : j <= i /\ HoldsHook(p[j])
      <4>1. PICK j \in 1..Len(s) : j <= i /\ HoldsHook(s[j])
        BY <1>1, <2>1, <2>4, <3>3
      <4> QED  BY <1>1, <4>1
    <3>4. ASSUME i = Len(p), hook
          PROVE  \E j \in 1..Len(p) : j <= i /\ HoldsHook(p[j])
      <4>1. PICK j \in 1..Len(s) : HoldsHook(s[j])
        BY <2>1, <3>2, <3>4
      <4> QED  BY <1>1, <3>4, <4>1
    <3>5. ASSUME i = Len(p), ~hook
          PROVE  \E j \in 1..Len(p) : j <= i /\ HoldsHook(p[j])
      BY <1>1, <2>2, <2>4, <3>5
    <3> QED  BY <3>1, <3>3, <3>4, <3>5
  <2>5. ASSUME NEW i \in 1..Len(p), NEW j \in 1..Len(p), HoldsHook(p[i]), j < i
        PROVE  ~InEngine(p[j])
    <3>1. j \in 1..Len(s) /\ p[j] = s[j]
      BY <1>1, <2>5
    <3>2. ASSUME i \in 1..Len(s)
          PROVE  ~InEngine(p[j])
      BY <1>1, <2>1, <2>5, <3>1, <3>2
    <3>3. ASSUME i = Len(p)
          PROVE  ~InEngine(p[j])
      BY <1>1, <2>1, <2>2, <2>5, <3>1, <3>3
    <3> QED  BY <1>1, <3>2, <3>3
  <2> QED  BY <2>3, <2>4, <2>5 DEF HookFlag
<1> QED  BY <1>2, <1>3, <1>4, <1>5, <1>6 DEF Discipline, p

(* A call returns: the flags it answers for fall.                          *)
LEMMA PopKeeps ==
  ASSUME NEW s \in Seq(Frames), s /= <<>>,
         NEW rescue \in BOOLEAN, NEW hook \in BOOLEAN, NEW reset \in BOOLEAN,
         Discipline(s, rescue, hook, reset),
         s[Len(s)].at \notin RescueSteps,
         NEW hook2 \in BOOLEAN, hook2 <=> hook /\ ~HoldsHook(s[Len(s)]),
         NEW reset2 \in BOOLEAN, reset2 <=> reset /\ s[Len(s)].at /= "reset"
  PROVE  Discipline(SubSeq(s, 1, Len(s) - 1), rescue, hook2, reset2)
<1> DEFINE p == SubSeq(s, 1, Len(s) - 1)
<1>1. /\ p \in Seq(Frames) /\ Len(p) = Len(s) - 1 /\ Len(s) \in Nat \ {0}
      /\ \A i \in 1..Len(p) : p[i] = s[i]
  BY PoppedFrames
<1> HIDE DEF p
<1>2. CallersOnly(p)
  BY <1>1 DEF Discipline, CallersOnly
<1>3. RescueFlag(p, rescue)
  BY <1>1 DEF Discipline, RescueFlag, Decided
<1>4. ResetFlag(p, reset2)
  BY <1>1 DEF Discipline, ResetFlag
<1>5. NoResetUnderEviction(p)
  <2>1. \A i, j \in 1..Len(s) : s[i].at = "evicting" /\ j < i => s[j].at /= "reset"
    BY DEF Discipline, NoResetUnderEviction
  <2>2. ASSUME NEW i \in 1..Len(p), NEW j \in 1..Len(p), p[i].at = "evicting", j < i
        PROVE  p[j].at /= "reset"
    <3>1. i \in 1..Len(s) /\ j \in 1..Len(s) /\ p[i] = s[i] /\ p[j] = s[j]
      BY <1>1
    <3> QED  BY <2>1, <2>2, <3>1
  <2> QED  BY <2>2 DEF NoResetUnderEviction
<1>6. HookFlag(p, hook2)
  <2>1. /\ hook <=> \E i \in 1..Len(s) : InEngine(s[i])
        /\ \A i \in 1..Len(s) : InEngine(s[i]) =>
             \E j \in 1..Len(s) : j <= i /\ HoldsHook(s[j])
        /\ \A i, j \in 1..Len(s) : HoldsHook(s[i]) /\ j < i => ~InEngine(s[j])
    BY DEF Discipline, HookFlag
  <2>2. ASSUME NEW i \in 1..Len(p), InEngine(p[i])
        PROVE  /\ hook /\ ~HoldsHook(s[Len(s)])
               /\ \E j \in 1..Len(p) : j <= i /\ HoldsHook(p[j])
    <3>1. i \in 1..Len(s) /\ i < Len(s) /\ InEngine(s[i]) /\ Len(s) \in 1..Len(s)
      BY <1>1, <2>2
    <3>2. hook /\ ~HoldsHook(s[Len(s)])
      BY <2>1, <3>1
    <3>3. PICK j \in 1..Len(s) : j <= i /\ HoldsHook(s[j])
      BY <2>1, <3>1
    <3> QED  BY <1>1, <3>1, <3>2, <3>3
  <2>3. ASSUME hook, ~HoldsHook(s[Len(s)])
        PROVE  \E i \in 1..Len(p) : InEngine(p[i])
    <3>1. PICK j \in 1..Len(s) : HoldsHook(s[j])
      BY <2>1, <2>3
    <3>2. j \in 1..Len(p) /\ p[j] = s[j]
      BY <1>1, <2>3, <3>1
    <3>3. InEngine(s[j])
      BY <3>1 DEF HoldsHook, InEngine
    <3> QED  BY <3>2, <3>3
  <2>4. \A i, j \in 1..Len(p) : HoldsHook(p[i]) /\ j < i => ~InEngine(p[j])
    BY <1>1, <2>1
  <2> QED  BY <2>2, <2>3, <2>4 DEF HookFlag
<1> QED  BY <1>2, <1>3, <1>4, <1>5, <1>6 DEF Discipline, p

(* A create moves on: the flags follow the step it is at.                  *)
LEMMA ReplaceKeeps ==
  ASSUME NEW s \in Seq(Frames), s /= <<>>, NEW f \in Frames,
         NEW rescue \in BOOLEAN, NEW hook \in BOOLEAN, NEW reset \in BOOLEAN,
         Discipline(s, rescue, hook, reset),
         s[Len(s)].at \in CreateSteps, f.at \in CreateSteps,
         f.at \in Decided /\ s[Len(s)].at \notin Decided => ~rescue,
         f.at = "evicting" /\ s[Len(s)].at /= "evicting" => ~hook /\ ~reset,
         NEW rescue2 \in BOOLEAN,
         rescue2 <=> f.at \in RescueSteps \/ (rescue /\ s[Len(s)].at \notin RescueSteps),
         NEW hook2 \in BOOLEAN,
         hook2 <=> f.at = "evicting" \/ (hook /\ s[Len(s)].at /= "evicting")
  PROVE  Discipline([s EXCEPT ![Len(s)] = f], rescue2, hook2, reset)
<1> DEFINE p == [s EXCEPT ![Len(s)] = f]
<1>1. /\ p \in Seq(Frames) /\ Len(p) = Len(s) /\ Len(s) \in Nat \ {0}
      /\ p[Len(s)] = f
      /\ \A i \in 1..Len(s) : i /= Len(s) => p[i] = s[i]
  BY ReplacedFrames
<1> HIDE DEF p
<1>2. CallersOnly(p)
  BY <1>1 DEF Discipline, CallersOnly
<1>3. RescueFlag(p, rescue2)
  <2>1. /\ rescue <=> \E i \in 1..Len(s) : s[i].at \in RescueSteps
        /\ \A i, j \in 1..Len(s) : s[i].at \in Decided /\ s[j].at \in Decided => i = j
    BY DEF Discipline, RescueFlag
  <2>2. RescueSteps \subseteq Decided
    BY DEF Decided
  <2>3. \A i, j \in 1..Len(p) : p[i].at \in Decided /\ p[j].at \in Decided => i = j
    <3>1. ASSUME f.at \in Decided, NEW i \in 1..Len(s), i /= Len(s)
          PROVE  s[i].at \notin Decided
      <4>1. CASE s[Len(s)].at \in Decided
        BY <1>1, <2>1, <3>1, <4>1
      <4>2. CASE s[Len(s)].at \notin Decided
        <5>1. s[i].at \in Callers
          BY <1>1, <3>1 DEF Discipline, CallersOnly
        <5> QED  BY <2>1, <3>1, <4>2, <5>1 DEF Callers, Decided, RescueSteps
      <4> QED  BY <4>1, <4>2
    <3> QED  BY <1>1, <2>1, <3>1
  <2>4. rescue2 <=> \E i \in 1..Len(p) : p[i].at \in RescueSteps
    <3>1. ASSUME rescue2
          PROVE  \E i \in 1..Len(p) : p[i].at \in RescueSteps
      BY <1>1, <2>1, <3>1
    <3>2. ASSUME NEW i \in 1..Len(p), p[i].at \in RescueSteps
          PROVE  rescue2
      BY <1>1, <2>1, <2>2, <3>2
    <3> QED  BY <3>1, <3>2
  <2> QED  BY <2>3, <2>4 DEF RescueFlag
<1>4. ResetFlag(p, reset)
  BY <1>1 DEF Discipline, ResetFlag, CreateSteps
<1>5. NoResetUnderEviction(p)
  BY <1>1 DEF Discipline, NoResetUnderEviction, ResetFlag, CreateSteps
<1>6. HookFlag(p, hook2)
  BY <1>1 DEF Discipline, HookFlag, HoldsHook, InEngine, CreateSteps
<1> QED  BY <1>2, <1>3, <1>4, <1>5, <1>6 DEF Discipline, p

-----------------------------------------------------------------------------
(* Plans                                                                   *)

LEMMA BatchBounded ==
  ASSUME NEW attempt \in 0..2
  PROVE  BatchFor(attempt) \in 0..Config.evictBatchMax
<1>1. ASSUME NEW batch \in Nat
      PROVE  /\ Widened(batch) \in Nat
             /\ AtMost(batch, Config.evictBatchMax) \in 0..Config.evictBatchMax
  BY ConfigAssumption DEF Widened, AtMost
<1>2. Config.evictBatch \in Nat /\ Config.evictBatchMax \in Nat
  BY ConfigAssumption
<1>3. Widened(Config.evictBatch) \in Nat /\ Widened(Widened(Config.evictBatch)) \in Nat
  BY <1>1, <1>2
<1> QED  BY <1>1, <1>2, <1>3 DEF BatchFor

(* Whatever it is asked, plan answers with a bounded batch.                *)
LEMMA PlanTyped ==
  ASSUME NEW in
  PROVE  Plan(in) \in Plans
<1>1. Idle \in Plans
  BY ConfigAssumption DEF Idle, Plans, Actions
<1>2. ASSUME NEW action \in Actions, NEW count \in 0..Config.evictBatchMax
      PROVE  /\ Act(action, count) \in Plans
             /\ [Act(action, count) EXCEPT !.flush = TRUE] \in Plans
  BY <1>1 DEF Act, Plans, Idle
<1>3. \A attempt \in 0..2 : BatchFor(attempt) \in 0..Config.evictBatchMax
  BY BatchBounded
<1>4. Config.evictBatchMax \in 0..Config.evictBatchMax
  BY ConfigAssumption
<1>5. Escalate(in) \in Plans
  <2>1. /\ Act("evict_cache", BatchFor(1)) \in Plans
        /\ Act("evict_cache", BatchFor(2)) \in Plans
        /\ Act("evict_cache_and_managed", BatchFor(2)) \in Plans
        /\ Act("clear_cache_and_managed", Config.evictBatchMax) \in Plans
    <3>1. BatchFor(1) \in 0..Config.evictBatchMax /\ BatchFor(2) \in 0..Config.evictBatchMax
      BY <1>3
    <3> QED  BY <1>2, <1>4, <3>1 DEF Actions
  <2> QED  BY <1>1, <2>1 DEF Escalate
<1>6. Preempt(in) \in Plans
  <2>1. [Idle EXCEPT !.leaves = in.underPressure /\ HasExitHeadroom(in)] \in Plans
    BY <1>1 DEF Idle, Plans
  <2>2. [Idle EXCEPT !.enters = TRUE] \in Plans
    BY <1>1 DEF Idle, Plans
  <2>3. /\ Act("evict_cache", BatchFor(0)) \in Plans
        /\ [Act("evict_cache", BatchFor(1)) EXCEPT !.flush = TRUE] \in Plans
    <3>1. BatchFor(0) \in 0..Config.evictBatchMax /\ BatchFor(1) \in 0..Config.evictBatchMax
      BY <1>3
    <3> QED  BY <1>2, <3>1 DEF Actions
  <2> QED  BY <1>1, <2>1, <2>2, <2>3 DEF Preempt
<1> QED  BY <1>5, <1>6 DEF Plan

-----------------------------------------------------------------------------
(* The invariant holds, one lemma for each way a stack changes             *)

(* The thread whose stack changes is the only one whose flags may.         *)
LEMMA OneThreadMoves ==
  ASSUME StackInv, NEW t \in Threads, Typed',
         \A u \in Threads \ {t} :
           /\ stack'[u] = stack[u] /\ inRescue'[u] = inRescue[u]
           /\ inHook'[u] = inHook[u] /\ inReset'[u] = inReset[u],
         Discipline(stack'[t], inRescue'[t], inHook'[t], inReset'[t])
  PROVE  StackInv'
<1>1. ASSUME NEW u \in Threads
      PROVE  Discipline(stack[u], inRescue[u], inHook[u], inReset[u])'
  <2>1. CASE u = t
    BY <2>1
  <2>2. CASE u /= t
    <3>1. /\ stack'[u] = stack[u] /\ inRescue'[u] = inRescue[u]
          /\ inHook'[u] = inHook[u] /\ inReset'[u] = inReset[u]
      BY <2>2
    <3>2. Discipline(stack[u], inRescue[u], inHook[u], inReset[u])
      BY DEF StackInv, Disciplined
    <3> QED  BY <3>1, <3>2
  <2> QED  BY <2>1, <2>2
<1> QED  BY <1>1 DEF StackInv, Disciplined

(* What the invariant says of a thread whose innermost call is at a step.  *)
LEMMA TopOfStack ==
  ASSUME StackInv, NEW t \in Threads, NEW at, at /= "game", At(t, at)
  PROVE  /\ stack[t] \in Seq(Frames) /\ stack[t] /= <<>>
         /\ Top(t) = stack[t][Len(stack[t])] /\ Top(t) \in Frames /\ Top(t).at = at
         /\ inRescue[t] \in BOOLEAN /\ inHook[t] \in BOOLEAN /\ inReset[t] \in BOOLEAN
         /\ Discipline(stack[t], inRescue[t], inHook[t], inReset[t])
         /\ (at \in CreateSteps => Top(t) \in CreateFrames)
         /\ (at \in {"engine", "reset"} => Top(t) \in OuterFrames)
<1>1. stack[t] \in Seq(Frames) /\ stack[t] /= <<>> /\ Top(t).at = at
  BY DEF StackInv, Typed, At, Doing
<1>2. Top(t) = stack[t][Len(stack[t])] /\ Top(t) \in Frames
  BY <1>1 DEF Top, Depth
<1>3. /\ at \in CreateSteps => Top(t) \in CreateFrames
      /\ at \in {"engine", "reset"} => Top(t) \in OuterFrames
  BY <1>1, <1>2 DEF Frames, CreateFrames, OuterFrames, CreateSteps
<1> QED  BY <1>1, <1>2, <1>3 DEF StackInv, Typed, Disciplined

(* A step of a create from one place to another, and what it does to the   *)
(* thread's flags.                                                         *)
LEMMA CreateMoves ==
  ASSUME StackInv, NEW t \in Threads, NEW at \in CreateSteps, At(t, at),
         NEW f \in CreateFrames, Become(t, f),
         f.at \in Decided /\ at \notin Decided => ~inRescue[t],
         f.at = "evicting" /\ at /= "evicting" => ~inHook[t] /\ ~inReset[t],
         inRescue' = [inRescue EXCEPT ![t] =
                        f.at \in RescueSteps \/ (@ /\ at \notin RescueSteps)],
         inHook' = [inHook EXCEPT ![t] = f.at = "evicting" \/ (@ /\ at /= "evicting")],
         inReset' = inReset,
         cacheKnown' \in BOOLEAN, underPressure' \in BOOLEAN,
         consecutive' \in Nat, ladders' \in Nat, clears' \in Nat, now' \in Nat,
         lastRescue' \in Int
  PROVE  StackInv'
<1> DEFINE s == stack[t]
           p == [s EXCEPT ![Len(s)] = f]
<1>1. at /= "game" /\ f \in Frames /\ f.at \in CreateSteps
  BY DEF CreateSteps, CreateFrames, Frames
<1>2. /\ s \in Seq(Frames) /\ s /= <<>> /\ s[Len(s)].at = at
      /\ inRescue[t] \in BOOLEAN /\ inHook[t] \in BOOLEAN /\ inReset[t] \in BOOLEAN
      /\ Discipline(s, inRescue[t], inHook[t], inReset[t])
  BY <1>1, TopOfStack
<1>3. p \in Seq(Frames) /\ stack' = [stack EXCEPT ![t] = p]
  BY <1>1, <1>2, ReplacedFrames DEF Become
<1>4. Typed'
  BY <1>3 DEF StackInv, Typed
<1>5. /\ inRescue'[t] \in BOOLEAN /\ inHook'[t] \in BOOLEAN
      /\ inRescue'[t] <=> f.at \in RescueSteps \/ (inRescue[t] /\ at \notin RescueSteps)
      /\ inHook'[t] <=> f.at = "evicting" \/ (inHook[t] /\ at /= "evicting")
      /\ inReset'[t] = inReset[t]
      /\ stack'[t] = p
  BY <1>3 DEF StackInv, Typed
<1>6. Discipline(p, inRescue'[t], inHook'[t], inReset[t])
  <2> HIDE DEF s
  <2> QED  BY <1>1, <1>2, <1>5, ReplaceKeeps
<1>7. \A u \in Threads \ {t} :
        /\ stack'[u] = stack[u] /\ inRescue'[u] = inRescue[u]
        /\ inHook'[u] = inHook[u] /\ inReset'[u] = inReset[u]
  BY <1>3 DEF StackInv, Typed
<1> HIDE DEF p
<1> QED  BY <1>4, <1>5, <1>6, <1>7, OneThreadMoves

(* A call returns.                                                         *)
LEMMA CallReturns ==
  ASSUME StackInv, NEW t \in Threads, NEW at, At(t, at),
         at \notin RescueSteps, at /= "game", Pop(t),
         inRescue' = inRescue,
         inHook' = [inHook EXCEPT ![t] = @ /\ ~HoldsHook(Top(t))],
         inReset' = [inReset EXCEPT ![t] = @ /\ at /= "reset"],
         cacheKnown' \in BOOLEAN, underPressure' \in BOOLEAN,
         consecutive' \in Nat, ladders' \in Nat, clears' \in Nat, now' \in Nat,
         lastRescue' \in Int
  PROVE  StackInv'
<1> DEFINE s == stack[t]
           p == SubSeq(s, 1, Len(s) - 1)
<1>1. /\ s \in Seq(Frames) /\ s /= <<>> /\ s[Len(s)].at = at /\ Top(t) = s[Len(s)]
      /\ inRescue[t] \in BOOLEAN /\ inHook[t] \in BOOLEAN /\ inReset[t] \in BOOLEAN
      /\ Discipline(s, inRescue[t], inHook[t], inReset[t])
  BY TopOfStack
<1>2. p \in Seq(Frames) /\ stack' = [stack EXCEPT ![t] = p]
  BY <1>1, PoppedFrames DEF Pop
<1>3. Typed'
  BY <1>2 DEF StackInv, Typed
<1>4. /\ inHook'[t] \in BOOLEAN /\ inReset'[t] \in BOOLEAN
      /\ inRescue'[t] = inRescue[t]
      /\ inHook'[t] <=> inHook[t] /\ ~HoldsHook(s[Len(s)])
      /\ inReset'[t] <=> inReset[t] /\ at /= "reset"
      /\ stack'[t] = p
  BY <1>1, <1>2 DEF StackInv, Typed
<1>5. Discipline(p, inRescue[t], inHook'[t], inReset'[t])
  <2> HIDE DEF s
  <2> QED  BY <1>1, <1>4, PopKeeps
<1>6. \A u \in Threads \ {t} :
        /\ stack'[u] = stack[u] /\ inRescue'[u] = inRescue[u]
        /\ inHook'[u] = inHook[u] /\ inReset'[u] = inReset[u]
  BY <1>2 DEF StackInv, Typed
<1> HIDE DEF p
<1> QED  BY <1>3, <1>4, <1>5, <1>6, OneThreadMoves

(* A call is made.                                                         *)
LEMMA CallIsMade ==
  ASSUME StackInv, NEW t \in Threads, MayCall(t), NEW f \in Frames, Push(t, f),
         f.at \notin Decided,
         f.at = "engine" => f.engaged = ~inHook[t],
         f.at = "reset" => ~inReset[t],
         inRescue' = inRescue,
         inHook' = [inHook EXCEPT ![t] = @ \/ f.at = "engine"],
         inReset' = [inReset EXCEPT ![t] = @ \/ f.at = "reset"],
         cacheKnown' \in BOOLEAN, underPressure' \in BOOLEAN,
         consecutive' \in Nat, ladders' \in Nat, clears' \in Nat, now' \in Nat,
         lastRescue' \in Int
  PROVE  StackInv'
<1> DEFINE s == stack[t]
           p == Append(s, f)
<1>1. /\ s \in Seq(Frames)
      /\ inRescue[t] \in BOOLEAN /\ inHook[t] \in BOOLEAN /\ inReset[t] \in BOOLEAN
      /\ Discipline(s, inRescue[t], inHook[t], inReset[t])
  BY DEF StackInv, Typed, Disciplined
<1>2. s = <<>> \/ s[Len(s)].at \in Callers
  <2>1. s = <<>> \/ s[Len(s)].at /= "game"
    <3>1. s = <<>> \/ s[Len(s)] \in Frames
      BY <1>1
    <3> QED  BY <3>1 DEF Frames, CreateFrames, OuterFrames, CreateSteps
  <2> QED  BY <2>1 DEF MayCall, Doing, Top, Depth, Callers
<1>3. p \in Seq(Frames) /\ stack' = [stack EXCEPT ![t] = p]
  BY <1>1 DEF Push
<1>4. Typed'
  BY <1>3 DEF StackInv, Typed
<1>5. /\ inHook'[t] \in BOOLEAN /\ inReset'[t] \in BOOLEAN
      /\ inRescue'[t] = inRescue[t]
      /\ inHook'[t] <=> inHook[t] \/ f.at = "engine"
      /\ inReset'[t] <=> inReset[t] \/ f.at = "reset"
      /\ stack'[t] = p
  BY <1>1, <1>3 DEF StackInv, Typed
<1>6. Discipline(p, inRescue[t], inHook'[t], inReset'[t])
  <2> HIDE DEF s
  <2> QED  BY <1>1, <1>2, <1>5, PushKeeps
<1>7. \A u \in Threads \ {t} :
        /\ stack'[u] = stack[u] /\ inRescue'[u] = inRescue[u]
        /\ inHook'[u] = inHook[u] /\ inReset'[u] = inReset[u]
  BY <1>3 DEF StackInv, Typed
<1> HIDE DEF p
<1> QED  BY <1>4, <1>5, <1>6, <1>7, OneThreadMoves

-----------------------------------------------------------------------------
(* Every step keeps the invariant                                          *)

LEMMA InitEstablishes == Init => StackInv
<1> SUFFICES ASSUME Init PROVE StackInv
  OBVIOUS
<1>1. Typed
  <2>1. stack \in [Threads -> Seq(Frames)]
    <3>1. <<>> \in Seq(Frames)
      OBVIOUS
    <3> QED  BY <3>1 DEF Init
  <2>2. lastRescue \in Int
    BY ConfigAssumption DEF Init
  <2> QED  BY <2>1, <2>2 DEF Init, Typed
<1>2. ASSUME NEW t \in Threads
      PROVE  Discipline(stack[t], inRescue[t], inHook[t], inReset[t])
  <2>1. /\ stack[t] = <<>> /\ Len(stack[t]) = 0
        /\ ~inRescue[t] /\ ~inHook[t] /\ ~inReset[t]
    BY DEF Init
  <2> QED  BY <2>1 DEF Discipline, CallersOnly, RescueFlag, ResetFlag, HookFlag,
                       NoResetUnderEviction
<1> QED  BY <1>1, <1>2 DEF StackInv, Disciplined

LEMMA OutsideKeeps ==
  ASSUME StackInv, NEW t \in Threads, Outside(t)
  PROVE  StackInv'
<1> USE DEF flags, latches, world
<1>0. /\ inRescue \in [Threads -> BOOLEAN] /\ inHook \in [Threads -> BOOLEAN]
      /\ inReset \in [Threads -> BOOLEAN]
      /\ cacheKnown \in BOOLEAN /\ underPressure \in BOOLEAN
      /\ consecutive \in Nat /\ ladders \in Nat /\ clears \in Nat /\ now \in Nat
      /\ lastRescue \in Int
  BY DEF StackInv, Typed
<1>1. CASE CreateTexture(t)
  <2>1. PICK size \in Sizes : Push(t, Create(size))
    BY <1>1 DEF CreateTexture
  <2>2. Create(size) \in Frames /\ Create(size).at = "consider"
    <3>1. Idle \in Plans
      BY ConfigAssumption DEF Idle, Plans, Actions
    <3> QED  BY <3>1 DEF Create, Frames, CreateFrames, CreateSteps
  <2>3. /\ MayCall(t) /\ UNCHANGED <<flags, latches, world>>
        /\ inHook' = [inHook EXCEPT ![t] = @ \/ Create(size).at = "engine"]
        /\ inReset' = [inReset EXCEPT ![t] = @ \/ Create(size).at = "reset"]
    BY <1>0, <1>1, <2>2 DEF CreateTexture
  <2> QED  BY <1>0, <2>1, <2>2, <2>3, CallIsMade DEF RescueSteps, Decided
<1>2. CASE EngineCall(t)
  <2> DEFINE f == Outer("engine", ~inHook[t])
  <2>1. f \in Frames /\ f.at = "engine" /\ f.engaged = ~inHook[t]
    BY DEF Outer, Frames, OuterFrames
  <2>2. /\ MayCall(t) /\ Push(t, f) /\ cacheKnown' \in BOOLEAN
        /\ UNCHANGED <<inRescue, inReset, latches, now, clears>>
        /\ inHook' = [inHook EXCEPT ![t] = @ \/ f.at = "engine"]
        /\ inReset' = [inReset EXCEPT ![t] = @ \/ f.at = "reset"]
    BY <1>0, <1>2, <2>1 DEF EngineCall
  <2> HIDE DEF f
  <2> QED  BY <1>0, <2>1, <2>2, CallIsMade DEF RescueSteps, Decided
<1>3. CASE EngineReturns(t)
  <2>1. Top(t).at = "engine" /\ Top(t) \in OuterFrames
    BY <1>3, TopOfStack DEF EngineReturns
  <2>2. /\ At(t, "engine") /\ Pop(t) /\ UNCHANGED <<inRescue, inReset, latches, world>>
        /\ inHook' = [inHook EXCEPT ![t] = @ /\ ~HoldsHook(Top(t))]
        /\ inReset' = [inReset EXCEPT ![t] = @ /\ "engine" /= "reset"]
    BY <1>0, <1>3, <2>1 DEF EngineReturns, HoldsHook
  <2> QED  BY <1>0, <2>2, CallReturns DEF RescueSteps
<1>4. CASE BeginReset(t)
  <2> DEFINE f == Outer("reset", TRUE)
  <2>1. f \in Frames /\ f.at = "reset"
    BY DEF Outer, Frames, OuterFrames
  <2>2. /\ MayCall(t) /\ Push(t, f) /\ ~inReset[t]
        /\ UNCHANGED <<inRescue, inHook, latches, world>>
        /\ inHook' = [inHook EXCEPT ![t] = @ \/ f.at = "engine"]
        /\ inReset' = [inReset EXCEPT ![t] = @ \/ f.at = "reset"]
    BY <1>0, <1>4, <2>1 DEF BeginReset
  <2> HIDE DEF f
  <2> QED  BY <1>0, <2>1, <2>2, CallIsMade DEF RescueSteps, Decided
<1>5. CASE EndReset(t)
  <2>1. Top(t).at = "reset"
    BY <1>5, TopOfStack DEF EndReset
  <2>2. /\ At(t, "reset") /\ Pop(t) /\ UNCHANGED <<inRescue, inHook, latches, world>>
        /\ inHook' = [inHook EXCEPT ![t] = @ /\ ~HoldsHook(Top(t))]
        /\ inReset' = [inReset EXCEPT ![t] = @ /\ "reset" /= "reset"]
    BY <1>0, <1>5, <2>1 DEF EndReset, HoldsHook
  <2> QED  BY <1>0, <2>2, CallReturns DEF RescueSteps
<1> QED  BY <1>1, <1>2, <1>3, <1>4, <1>5 DEF Outside

(* A create that goes from one step to the next without touching a flag,   *)
(* or returns.                                                             *)
LEMMA CreateGoesOn ==
  ASSUME StackInv, NEW t \in Threads, NEW at \in CreateSteps, At(t, at),
         NEW f \in CreateFrames, Become(t, f),
         f.at \in RescueSteps <=> at \in RescueSteps,
         f.at /= "evicting", at /= "evicting",
         f.at = "latch" => ~inRescue[t],
         UNCHANGED flags,
         cacheKnown' \in BOOLEAN, underPressure' \in BOOLEAN,
         consecutive' \in Nat, ladders' \in Nat, clears' \in Nat, now' \in Nat,
         lastRescue' \in Int
  PROVE  StackInv'
<1>1. at \in RescueSteps => inRescue[t]
  <2>1. /\ stack[t] \in Seq(Frames) /\ stack[t] /= <<>> /\ stack[t][Len(stack[t])].at = at
        /\ RescueFlag(stack[t], inRescue[t])
    BY TopOfStack DEF Discipline, CreateSteps
  <2> QED  BY <2>1 DEF RescueFlag
<1>2. /\ inRescue' = [inRescue EXCEPT ![t] =
                         f.at \in RescueSteps \/ (@ /\ at \notin RescueSteps)]
      /\ inHook' = [inHook EXCEPT ![t] = f.at = "evicting" \/ (@ /\ at /= "evicting")]
      /\ inReset' = inReset
  BY <1>1 DEF flags, StackInv, Typed
<1>3. f.at \in Decided /\ at \notin Decided => ~inRescue[t]
  BY DEF Decided
<1> QED  BY <1>2, <1>3, CreateMoves

LEMMA CreateReturns ==
  ASSUME StackInv, NEW t \in Threads, NEW at \in CreateSteps, At(t, at),
         at \notin RescueSteps, Pop(t), UNCHANGED flags,
         cacheKnown' \in BOOLEAN, underPressure' \in BOOLEAN,
         consecutive' \in Nat, ladders' \in Nat, clears' \in Nat, now' \in Nat,
         lastRescue' \in Int
  PROVE  StackInv'
<1>1. Top(t).at = at /\ at /= "game" /\ at /= "reset"
  BY TopOfStack DEF CreateSteps
<1>2. ~HoldsHook(Top(t))
  BY <1>1 DEF HoldsHook, CreateSteps, RescueSteps
<1>3. /\ inRescue' = inRescue
      /\ inHook' = [inHook EXCEPT ![t] = @ /\ ~HoldsHook(Top(t))]
      /\ inReset' = [inReset EXCEPT ![t] = @ /\ at /= "reset"]
  BY <1>1, <1>2 DEF flags, StackInv, Typed
<1> QED  BY <1>1, <1>3, CallReturns

LEMMA FrameMoved ==
  ASSUME NEW frame \in CreateFrames, NEW at \in CreateSteps
  PROVE  /\ [frame EXCEPT !.at = at] \in CreateFrames
         /\ [frame EXCEPT !.at = at].at = at
BY DEF CreateFrames

LEMMA GoesOnUnaided ==
  ASSUME StackInv, NEW t \in Threads, NEW at \in {"consider", "latch"}, At(t, at),
         GoOnUnaided(t), UNCHANGED flags,
         cacheKnown' \in BOOLEAN, underPressure' \in BOOLEAN,
         consecutive' \in Nat, ladders' \in Nat, clears' \in Nat, now' \in Nat,
         lastRescue' \in Int
  PROVE  StackInv'
<1>1. at \in CreateSteps /\ at \notin RescueSteps /\ at /= "evicting" /\ at /= "game"
  BY DEF CreateSteps, RescueSteps
<1>2. CASE Pop(t)
  BY <1>1, <1>2, CreateReturns
<1>3. CASE Goto(t, "driver")
  <2> DEFINE f == [Top(t) EXCEPT !.at = "driver"]
  <2>1. f \in CreateFrames /\ f.at = "driver"
    BY <1>1, TopOfStack, FrameMoved DEF CreateSteps
  <2>2. Become(t, f)
    BY <1>3 DEF Goto
  <2>3. f.at \notin RescueSteps /\ f.at /= "evicting"
    BY <2>1 DEF RescueSteps
  <2> HIDE DEF f
  <2> QED  BY <1>1, <2>1, <2>2, <2>3, CreateGoesOn
<1> QED  BY <1>2, <1>3 DEF GoOnUnaided

LEMMA ConsiderKeeps ==
  ASSUME StackInv, NEW t \in Threads, Consider(t)
  PROVE  StackInv'
<1> USE DEF latches, world
<1>0. /\ inRescue \in [Threads -> BOOLEAN] /\ inHook \in [Threads -> BOOLEAN]
      /\ inReset \in [Threads -> BOOLEAN]
      /\ cacheKnown \in BOOLEAN /\ underPressure \in BOOLEAN
      /\ consecutive \in Nat /\ ladders \in Nat /\ clears \in Nat /\ now \in Nat
      /\ lastRescue \in Int
  BY DEF StackInv, Typed
<1>1. CASE SkipInReset(t)
  <2> DEFINE f == [Top(t) EXCEPT !.at = "driver"]
  <2>1. f \in CreateFrames /\ f.at = "driver"
    BY <1>1, TopOfStack, FrameMoved DEF CreateSteps, SkipInReset
  <2>2. Become(t, f) /\ At(t, "consider") /\ UNCHANGED <<flags, latches, world>>
    BY <1>1 DEF SkipInReset, Goto
  <2>3. /\ f.at \in RescueSteps <=> "consider" \in RescueSteps
        /\ f.at /= "evicting" /\ "consider" \in CreateSteps
    BY <2>1 DEF RescueSteps, CreateSteps
  <2> HIDE DEF f
  <2> QED  BY <1>0, <2>1, <2>2, <2>3, CreateGoesOn
<1>2. CASE Suppress(t)
  <2>1. /\ At(t, "consider") /\ GoOnUnaided(t) /\ UNCHANGED <<flags, latches, world>>
    BY <1>2 DEF Suppress, Asks
  <2> QED  BY <1>0, <2>1, GoesOnUnaided
<1>3. CASE Read(t)
  <2>1. PICK free \in FreeBlocks, pending \in 0..1 :
          Become(t, [Top(t) EXCEPT !.at = "latch", !.readAt = now,
                                   !.plan = Plan(Inputs(t, free, pending))])
    BY <1>3 DEF Read
  <2> DEFINE f == [Top(t) EXCEPT !.at = "latch", !.readAt = now,
                                 !.plan = Plan(Inputs(t, free, pending))]
  <2>2. Top(t) \in CreateFrames /\ Plan(Inputs(t, free, pending)) \in Plans
    BY <1>3, TopOfStack, PlanTyped DEF Read, Asks, CreateSteps
  <2>3. f \in CreateFrames /\ f.at = "latch"
    BY <1>0, <2>2 DEF CreateFrames, CreateSteps
  <2>4. Become(t, f) /\ At(t, "consider") /\ UNCHANGED <<flags, latches, world>>
    BY <1>3, <2>1 DEF Read, Asks
  <2>5. /\ f.at \in RescueSteps <=> "consider" \in RescueSteps
        /\ f.at /= "evicting" /\ "consider" \in CreateSteps /\ ~inRescue[t]
    BY <1>3, <2>3 DEF RescueSteps, CreateSteps, Read
  <2> HIDE DEF f
  <2> QED  BY <1>0, <2>3, <2>4, <2>5, CreateGoesOn
<1>4. CASE Latch(t)
  <2> DEFINE plan == Top(t).plan
             f == [Top(t) EXCEPT !.at = "execute"]
  <2>1. At(t, "latch") /\ Top(t) \in CreateFrames
    BY <1>4, TopOfStack DEF Latch, CreateSteps
  <2>2. ~inRescue[t]
    <3>1. /\ stack[t] \in Seq(Frames) /\ stack[t] /= <<>>
          /\ stack[t][Len(stack[t])].at = "latch" /\ RescueFlag(stack[t], inRescue[t])
      BY <2>1, TopOfStack DEF Discipline
    <3> QED  BY <3>1 DEF RescueFlag, Decided, RescueSteps
  <2>3. /\ cacheKnown' \in BOOLEAN /\ underPressure' \in BOOLEAN
        /\ consecutive' \in Nat /\ ladders' \in Nat /\ clears' \in Nat /\ now' \in Nat
        /\ lastRescue' \in Int
    <3>1. AtMost(consecutive + 1, Config.preemptiveEscalateAfter) \in Nat
      BY <1>0, ConfigAssumption DEF AtMost
    <3> QED  BY <1>0, <1>4, <3>1 DEF Latch
  <2>4. CASE Acts(plan)
    <3>1. f \in CreateFrames /\ f.at = "execute" /\ "latch" \in CreateSteps
      BY <2>1, FrameMoved DEF CreateSteps
    <3>2. Become(t, f)
      BY <1>4, <2>4 DEF Latch, Goto
    <3>3. /\ f.at \in RescueSteps /\ f.at /= "evicting" /\ "latch" \in Decided
      BY <3>1 DEF RescueSteps, Decided
    <3>4. /\ inRescue' = [inRescue EXCEPT ![t] =
                             f.at \in RescueSteps \/ (@ /\ "latch" \notin RescueSteps)]
          /\ inHook' = [inHook EXCEPT ![t] = f.at = "evicting" \/ (@ /\ "latch" /= "evicting")]
          /\ inReset' = inReset
      BY <1>0, <1>4, <2>4, <3>3 DEF Latch
    <3> HIDE DEF f
    <3> QED  BY <2>1, <2>3, <3>1, <3>2, <3>3, <3>4, CreateMoves
  <2>5. CASE ~Acts(plan)
    <3>1. GoOnUnaided(t) /\ UNCHANGED <<inHook, inReset>>
      BY <1>4, <2>5 DEF Latch
    <3>2. inRescue' = [inRescue EXCEPT ![t] = FALSE]
      BY <1>4, <2>5 DEF Latch, Acts
    <3>3. UNCHANGED flags
      BY <1>0, <2>2, <3>1, <3>2 DEF flags
    <3> QED  BY <2>1, <2>3, <3>1, <3>3, GoesOnUnaided
  <2> QED  BY <2>4, <2>5
<1> QED  BY <1>1, <1>2, <1>3, <1>4 DEF Consider

(* A step inside the rescue that leaves every flag alone.                  *)
LEMMA RescueGoesOn ==
  ASSUME StackInv, NEW t \in Threads, NEW at \in RescueSteps, At(t, at),
         NEW f \in CreateFrames, Become(t, f), f.at \in RescueSteps,
         f.at /= "evicting", at /= "evicting", UNCHANGED flags,
         cacheKnown' \in BOOLEAN, underPressure' \in BOOLEAN,
         consecutive' \in Nat, ladders' \in Nat, clears' \in Nat, now' \in Nat,
         lastRescue' \in Int
  PROVE  StackInv'
<1>1. at \in CreateSteps /\ f.at /= "latch"
  BY DEF RescueSteps, CreateSteps
<1> QED  BY <1>1, CreateGoesOn

LEMMA ExecuteKeeps ==
  ASSUME StackInv, NEW t \in Threads, Execute(t)
  PROVE  StackInv'
<1> USE DEF latches, world
<1>0. /\ inRescue \in [Threads -> BOOLEAN] /\ inHook \in [Threads -> BOOLEAN]
      /\ inReset \in [Threads -> BOOLEAN]
      /\ cacheKnown \in BOOLEAN /\ underPressure \in BOOLEAN
      /\ consecutive \in Nat /\ ladders \in Nat /\ clears \in Nat /\ now \in Nat
      /\ lastRescue \in Int
  BY DEF StackInv, Typed
<1>1. CASE EngineRefuses(t)
  <2> DEFINE f == [Top(t) EXCEPT !.at = Counts(t)]
  <2>1. At(t, "execute") /\ Become(t, f) /\ UNCHANGED <<flags, latches, world>>
    BY <1>1 DEF EngineRefuses, Goto
  <2>2. Counts(t) \in {"count", "finish"} /\ Counts(t) \in CreateSteps
    BY DEF Counts, CreateSteps
  <2>3. f \in CreateFrames /\ f.at = Counts(t)
    BY <2>1, <2>2, TopOfStack, FrameMoved DEF CreateSteps
  <2>4. "execute" \in RescueSteps /\ f.at \in RescueSteps /\ f.at /= "evicting"
    BY <2>2, <2>3 DEF RescueSteps
  <2> HIDE DEF f
  <2> QED  BY <1>0, <2>1, <2>3, <2>4, RescueGoesOn
<1>2. CASE EnterEngine(t)
  <2> DEFINE f == [Top(t) EXCEPT !.at = "evicting"]
  <2>1. /\ At(t, "execute") /\ Become(t, f) /\ ~inHook[t] /\ ~inReset[t]
        /\ inHook' = [inHook EXCEPT ![t] = TRUE]
        /\ UNCHANGED <<inRescue, inReset, latches, cacheKnown, now>> /\ clears' \in Nat
    BY <1>0, <1>2 DEF EnterEngine, Goto, CanEnterEngine
  <2>2. f \in CreateFrames /\ f.at = "evicting"
    BY <2>1, TopOfStack, FrameMoved DEF CreateSteps
  <2>3. /\ "execute" \in RescueSteps /\ f.at \in RescueSteps
        /\ "execute" \in Decided /\ "execute" \in CreateSteps
    BY <2>2 DEF RescueSteps, Decided, CreateSteps
  <2>4. inRescue[t]
    BY <2>1, <2>3, TopOfStack DEF Discipline, RescueFlag
  <2>5. /\ inRescue' = [inRescue EXCEPT ![t] =
                           f.at \in RescueSteps \/ (@ /\ "execute" \notin RescueSteps)]
        /\ inHook' = [inHook EXCEPT ![t] = f.at = "evicting" \/ (@ /\ "execute" /= "evicting")]
    BY <1>0, <2>1, <2>2, <2>3, <2>4
  <2> HIDE DEF f
  <2> QED  BY <1>0, <2>1, <2>2, <2>3, <2>5, CreateMoves
<1>3. CASE LeaveEngine(t)
  <2> DEFINE f == [Top(t) EXCEPT !.at = Counts(t)]
  <2>1. /\ At(t, "evicting") /\ Become(t, f) /\ inHook' = [inHook EXCEPT ![t] = FALSE]
        /\ UNCHANGED <<inRescue, inReset, latches, world>>
    BY <1>3 DEF LeaveEngine, Goto
  <2>2. Counts(t) \in {"count", "finish"} /\ Counts(t) \in CreateSteps
    BY DEF Counts, CreateSteps
  <2>3. f \in CreateFrames /\ f.at = Counts(t)
    BY <2>1, <2>2, TopOfStack, FrameMoved DEF CreateSteps
  <2>4. /\ "evicting" \in RescueSteps /\ f.at \in RescueSteps /\ f.at /= "evicting"
        /\ "evicting" \in Decided /\ "evicting" \in CreateSteps
    BY <2>2, <2>3 DEF RescueSteps, Decided, CreateSteps
  <2>5. inRescue[t]
    BY <2>1, <2>4, TopOfStack DEF Discipline, RescueFlag
  <2>6. /\ inRescue' = [inRescue EXCEPT ![t] =
                           f.at \in RescueSteps \/ (@ /\ "evicting" \notin RescueSteps)]
        /\ inHook' = [inHook EXCEPT ![t] = f.at = "evicting" \/ (@ /\ "evicting" /= "evicting")]
    BY <1>0, <2>1, <2>4, <2>5
  <2> HIDE DEF f
  <2> QED  BY <1>0, <2>1, <2>3, <2>4, <2>6, CreateMoves
<1>4. CASE LoadLadders(t)
  <2> DEFINE f == [Top(t) EXCEPT !.at = "store", !.counted = ladders]
  <2>1. At(t, "count") /\ Become(t, f) /\ UNCHANGED <<flags, latches, world>>
    BY <1>4 DEF LoadLadders
  <2>2. f \in CreateFrames /\ f.at = "store"
    BY <1>0, <2>1, TopOfStack DEF CreateSteps, CreateFrames
  <2>3. "count" \in RescueSteps /\ f.at \in RescueSteps /\ f.at /= "evicting"
    BY <2>2 DEF RescueSteps
  <2> HIDE DEF f
  <2> QED  BY <1>0, <2>1, <2>2, <2>3, RescueGoesOn
<1>5. CASE StoreLadders(t)
  <2> DEFINE f == [Top(t) EXCEPT !.at = "finish", !.counted = 0]
  <2>1. /\ At(t, "store") /\ Become(t, f) /\ ladders' = Top(t).counted + 1
        /\ UNCHANGED <<flags, underPressure, consecutive, lastRescue, world>>
    BY <1>5 DEF StoreLadders
  <2>2. f \in CreateFrames /\ f.at = "finish" /\ Top(t).counted \in Nat
    <3>1. Top(t) \in CreateFrames
      BY <2>1, TopOfStack DEF CreateSteps
    <3> QED  BY <3>1 DEF CreateFrames, CreateSteps
  <2>3. "store" \in RescueSteps /\ f.at \in RescueSteps /\ f.at /= "evicting"
    BY <2>2 DEF RescueSteps
  <2>4. ladders' \in Nat
    BY <2>1, <2>2
  <2> HIDE DEF f
  <2> QED  BY <1>0, <2>1, <2>2, <2>3, <2>4, RescueGoesOn
<1>6. CASE Finish(t)
  <2> DEFINE f == [Top(t) EXCEPT !.at = "driver", !.readAt = 0]
  <2>1. /\ At(t, "finish") /\ Become(t, f) /\ lastRescue' = Top(t).readAt
        /\ inRescue' = [inRescue EXCEPT ![t] = FALSE]
        /\ UNCHANGED <<inHook, inReset, underPressure, consecutive, ladders, world>>
    BY <1>6 DEF Finish
  <2>2. f \in CreateFrames /\ f.at = "driver" /\ Top(t).readAt \in Nat
    <3>1. Top(t) \in CreateFrames
      BY <2>1, TopOfStack DEF CreateSteps
    <3> QED  BY <3>1 DEF CreateFrames, CreateSteps
  <2>3. /\ "finish" \in RescueSteps /\ f.at \notin RescueSteps /\ f.at \notin Decided
        /\ "finish" \in CreateSteps
    BY <2>2 DEF RescueSteps, Decided, CreateSteps
  <2>4. lastRescue' \in Int
    BY <2>1, <2>2
  <2>5. /\ inRescue' = [inRescue EXCEPT ![t] =
                           f.at \in RescueSteps \/ (@ /\ "finish" \notin RescueSteps)]
        /\ inHook' = [inHook EXCEPT ![t] = f.at = "evicting" \/ (@ /\ "finish" /= "evicting")]
    BY <1>0, <2>1, <2>2, <2>3
  <2> HIDE DEF f
  <2> QED  BY <1>0, <2>1, <2>2, <2>3, <2>4, <2>5, CreateMoves
<1> QED  BY <1>1, <1>2, <1>3, <1>4, <1>5, <1>6 DEF Execute

LEMMA DriverKeeps ==
  ASSUME StackInv, NEW t \in Threads, DriverCreates(t) \/ DriverFails(t)
  PROVE  StackInv'
<1> USE DEF latches, world
<1>0. /\ cacheKnown \in BOOLEAN /\ underPressure \in BOOLEAN
      /\ consecutive \in Nat /\ ladders \in Nat /\ clears \in Nat /\ now \in Nat
      /\ lastRescue \in Int
  BY DEF StackInv, Typed
<1>1. /\ At(t, "driver") /\ UNCHANGED <<flags, latches, world>>
      /\ "driver" \in CreateSteps /\ "driver" \notin RescueSteps
  BY DEF DriverCreates, DriverFails, CreateSteps, RescueSteps
<1>2. CASE Pop(t)
  BY <1>0, <1>1, <1>2, CreateReturns
<1>3. CASE DriverFails(t) /\ Top(t).attempt < 3
  <2> DEFINE f == [Top(t) EXCEPT !.at = "consider", !.attempt = @ + 1]
  <2>1. f \in CreateFrames /\ f.at = "consider"
    <3>1. Top(t) \in CreateFrames
      BY <1>1, TopOfStack
    <3>2. Top(t).attempt + 1 \in 0..3
      BY <1>3, <3>1 DEF CreateFrames
    <3> QED  BY <3>1, <3>2 DEF CreateFrames, CreateSteps
  <2>2. Become(t, f)
    BY <1>3 DEF DriverFails
  <2>3. f.at \notin RescueSteps /\ f.at /= "evicting"
    BY <2>1 DEF RescueSteps
  <2> HIDE DEF f
  <2> QED  BY <1>0, <1>1, <2>1, <2>2, <2>3, CreateGoesOn
<1> QED  BY <1>2, <1>3 DEF DriverCreates, DriverFails

LEMMA StackInvKept == StackInv /\ [Next]_vars => StackInv'
<1> SUFFICES ASSUME StackInv, [Next]_vars PROVE StackInv'
  OBVIOUS
<1>1. CASE Tick
  BY <1>1 DEF Tick, StackInv, Typed, Disciplined, flags, latches
<1>2. CASE UNCHANGED vars
  BY <1>2 DEF StackInv, Typed, Disciplined, vars, flags, latches, world
<1>3. ASSUME NEW t \in Threads, Progress(t) \/ Outside(t) PROVE StackInv'
  BY <1>3, ConsiderKeeps, ExecuteKeeps, DriverKeeps, OutsideKeeps DEF Progress
<1> QED  BY <1>1, <1>2, <1>3 DEF Next

LEMMA StackInvHolds == Spec => []StackInv
BY InitEstablishes, StackInvKept, PTL DEF Spec

-----------------------------------------------------------------------------
(* The theorems                                                            *)

(* Every rescue asks for a batch within evict_batch_max and every create   *)
(* fails at most three times, however deep the stacks (rescue_policy.h).   *)
THEOREM TypeCorrect == Spec => []TypeOK
<1>1. StackInv => TypeOK
  BY DEF StackInv, Typed, TypeOK, Depth
<1> QED  BY <1>1, StackInvHolds, PTL

(* No thread starts a rescue from inside one, whatever the engine calls    *)
(* while it evicts (consider).                                             *)
THEOREM NoNestedRescue == Spec => []RescuesDoNotNest
<1>1. StackInv => RescuesDoNotNest
  BY DEF StackInv, Disciplined, Discipline, RescueFlag, Decided, RescuesDoNotNest, Depth
<1> QED  BY <1>1, StackInvHolds, PTL

(* No rescue enters the engine's texture cache from inside an engine       *)
(* function, whichever of the calls on the stack holds in_hook             *)
(* (emergency_evict).                                                      *)
THEOREM NoReentry == Spec => []EngineNotReentered
<1>1. StackInv => EngineNotReentered
  BY DEF StackInv, Typed, Disciplined, Discipline, HookFlag, HoldsHook, InEngine,
         EngineNotReentered, Depth
<1> QED  BY <1>1, StackInvHolds, PTL

(* No rescue enters the engine while a device is being reset on its thread *)
(* (EngineEvictionBackend).                                                *)
THEOREM NoRescueInReset == Spec => []ResetNotDisturbed
<1>1. StackInv => ResetNotDisturbed
  BY DEF StackInv, Typed, Disciplined, Discipline, NoResetUnderEviction,
         ResetNotDisturbed, Depth
<1> QED  BY <1>1, StackInvHolds, PTL

-----------------------------------------------------------------------------
(* The episode, when one thread creates textures                           *)

(* failure_ladders_ and the latch are plain members: a second thread can   *)
(* end the episode, or load the counter, between another's decision and    *)
(* its increment, and both properties below fail. The game creates its     *)
(* textures on its render thread, and of that program they are proved.     *)
OneThread == \A t, u \in Threads : t = u

(* The creates that have decided and not yet finished.                     *)
DecidingOn(s) == {f \in Frames : f.at \in Decided /\ \E i \in 1..Len(s) : s[i] = f}
Deciding == {f \in Frames : \E t \in Threads : f \in DecidingOn(stack[t])}

ClearsCache(f) == f.plan.action = "clear_cache_and_managed"
LadderLeft(spent) == Config.failureLadderLimit /= 0 => spent < Config.failureLadderLimit

(* What was decided is still true while it is acted on: the episode is     *)
(* open, the ladder that allowed a clear is not spent, and a loaded        *)
(* counter is the counter.                                                 *)
Stands(f, pressed, spent) ==
  /\ Acts(f.plan) => f.plan.enters
  /\ f.plan.enters => ~f.plan.leaves
  /\ f.at /= "latch" => Acts(f.plan) /\ pressed
  /\ ClearsCache(f) /\ f.at /= "finish" => LadderLeft(spent)
  /\ f.at \in {"count", "store"} => ClearsCache(f)
  /\ f.at = "store" => f.counted = spent
DecisionsStand == \A f \in Deciding : Stands(f, underPressure, ladders)

(* Every clear has been counted, but for one that is about to be.          *)
Owing(f) == ClearsCache(f) /\ f.at \in {"evicting", "count", "store"}
ClearsCounted ==
  clears <= ladders \/ (clears = ladders + 1 /\ \E f \in Deciding : Owing(f))

WithinLimit == Config.failureLadderLimit /= 0 => ladders <= Config.failureLadderLimit

EpisodeInv == /\ EpisodeStartsFresh /\ WithinLimit
              /\ DecisionsStand /\ ClearsCounted

(* Pushing, popping and replacing a frame that decides nothing changes no  *)
(* decision.                                                               *)
LEMMA PushDecides ==
  ASSUME NEW s \in Seq(Frames), NEW f \in Frames, f.at \notin Decided
  PROVE  DecidingOn(Append(s, f)) = DecidingOn(s)
<1> DEFINE p == Append(s, f)
<1>1. /\ p \in Seq(Frames) /\ Len(p) = Len(s) + 1 /\ Len(s) \in Nat
      /\ p[Len(p)] = f
      /\ \A i \in 1..Len(s) : p[i] = s[i]
  BY PushedFrames
<1> HIDE DEF p
<1>2. \A g : g.at \in Decided =>
        ((\E i \in 1..Len(p) : p[i] = g) <=> \E i \in 1..Len(s) : s[i] = g)
  BY <1>1
<1> QED  BY <1>2 DEF DecidingOn, p

LEMMA PopDecides ==
  ASSUME NEW s \in Seq(Frames), s /= <<>>, s[Len(s)].at \notin Decided
  PROVE  DecidingOn(SubSeq(s, 1, Len(s) - 1)) = DecidingOn(s)
<1> DEFINE p == SubSeq(s, 1, Len(s) - 1)
<1>1. /\ p \in Seq(Frames) /\ Len(p) = Len(s) - 1 /\ Len(s) \in Nat \ {0}
      /\ \A i \in 1..Len(p) : p[i] = s[i]
  BY PoppedFrames
<1> HIDE DEF p
<1>2. \A g : g.at \in Decided =>
        ((\E i \in 1..Len(p) : p[i] = g) <=> \E i \in 1..Len(s) : s[i] = g)
  BY <1>1
<1>3. DecidingOn(p) = DecidingOn(s)
  BY <1>2 DEF DecidingOn
<1> QED  BY <1>3 DEF p

(* The only decision on a stack, once it is over or has moved on.          *)
LEMMA LastDecision ==
  ASSUME NEW s \in Seq(Frames), s /= <<>>, s[Len(s)].at \in Decided,
         \A i, j \in 1..Len(s) : s[i].at \in Decided /\ s[j].at \in Decided => i = j
  PROVE  /\ DecidingOn(s) = {s[Len(s)]}
         /\ DecidingOn(SubSeq(s, 1, Len(s) - 1)) = {}
         /\ \A f \in Frames : DecidingOn([s EXCEPT ![Len(s)] = f])
                                = IF f.at \in Decided THEN {f} ELSE {}
<1>0. Len(s) \in 1..Len(s) /\ s[Len(s)] \in Frames
  OBVIOUS
<1>1. \A i \in 1..Len(s) : i /= Len(s) => s[i].at \notin Decided
  BY <1>0
<1>2. DecidingOn(s) = {s[Len(s)]}
  BY <1>0, <1>1 DEF DecidingOn
<1>3. DecidingOn(SubSeq(s, 1, Len(s) - 1)) = {}
  <2> DEFINE p == SubSeq(s, 1, Len(s) - 1)
  <2>1. /\ Len(p) = Len(s) - 1 /\ Len(s) \in Nat \ {0}
        /\ \A i \in 1..Len(p) : p[i] = s[i]
    BY PoppedFrames
  <2> HIDE DEF p
  <2>2. \A i \in 1..Len(p) : p[i].at \notin Decided
    BY <1>1, <2>1
  <2>3. DecidingOn(p) = {}
    BY <2>2 DEF DecidingOn
  <2> QED  BY <2>3 DEF p
<1>4. ASSUME NEW f \in Frames
      PROVE  DecidingOn([s EXCEPT ![Len(s)] = f]) = IF f.at \in Decided THEN {f} ELSE {}
  <2> DEFINE p == [s EXCEPT ![Len(s)] = f]
  <2>1. /\ Len(p) = Len(s) /\ p[Len(s)] = f
        /\ \A i \in 1..Len(s) : i /= Len(s) => p[i] = s[i]
    BY ReplacedFrames
  <2> HIDE DEF p
  <2>2. \A i \in 1..Len(p) : i /= Len(s) => p[i].at \notin Decided
    BY <1>1, <2>1
  <2>3. DecidingOn(p) = IF f.at \in Decided THEN {f} ELSE {}
    BY <1>0, <2>1, <2>2 DEF DecidingOn
  <2> QED  BY <2>3 DEF p
<1> QED  BY <1>2, <1>3, <1>4

(* A frame that had decided nothing is replaced.                           *)
LEMMA ReplaceDecides ==
  ASSUME NEW s \in Seq(Frames), s /= <<>>, s[Len(s)].at \notin Decided,
         NEW f \in Frames
  PROVE  DecidingOn([s EXCEPT ![Len(s)] = f])
           = IF f.at \in Decided THEN DecidingOn(s) \cup {f} ELSE DecidingOn(s)
<1> DEFINE p == [s EXCEPT ![Len(s)] = f]
<1>1. /\ Len(p) = Len(s) /\ Len(s) \in Nat \ {0} /\ p[Len(s)] = f
      /\ \A i \in 1..Len(s) : i /= Len(s) => p[i] = s[i]
  BY ReplacedFrames
<1> HIDE DEF p
<1>2. \A g : g.at \in Decided =>
        ((\E i \in 1..Len(p) : p[i] = g) <=> g = f \/ \E i \in 1..Len(s) : s[i] = g)
  BY <1>1
<1>3. DecidingOn(p) = IF f.at \in Decided THEN DecidingOn(s) \cup {f} ELSE DecidingOn(s)
  BY <1>2 DEF DecidingOn
<1> QED  BY <1>3 DEF p

(* The same of the whole state, when there is one thread.                  *)
LEMMA OnlyItsDecisions ==
  ASSUME OneThread, NEW t \in Threads
  PROVE  Deciding = DecidingOn(stack[t])
<1>1. \A u \in Threads : u = t
  BY DEF OneThread
<1>2. \A f : f \in DecidingOn(stack[t]) => f \in Frames
  BY DEF DecidingOn
<1> QED  BY <1>1, <1>2 DEF Deciding

LEMMA StackChanges ==
  ASSUME StackInv, OneThread, NEW t \in Threads, NEW p, stack' = [stack EXCEPT ![t] = p]
  PROVE  Deciding' = DecidingOn(p)
<1>1. stack'[t] = p
  BY DEF StackInv, Typed
<1>2. \A u \in Threads : u = t
  BY DEF OneThread
<1>3. \A f : f \in DecidingOn(stack'[t]) => f \in Frames
  BY DEF DecidingOn
<1>4. Deciding' = DecidingOn(stack'[t])
  BY <1>2, <1>3 DEF Deciding
<1> QED  BY <1>1, <1>4

(* Nothing is being decided while in_rescue is clear and the innermost     *)
(* call is about to look.                                                  *)
LEMMA NothingDecided ==
  ASSUME StackInv, OneThread, NEW t \in Threads, At(t, "consider"), ~inRescue[t]
  PROVE  Deciding = {}
<1> DEFINE s == stack[t]
<1>1. /\ s \in Seq(Frames) /\ s /= <<>> /\ s[Len(s)].at = "consider"
      /\ CallersOnly(s) /\ RescueFlag(s, inRescue[t])
  BY TopOfStack DEF Discipline
<1> HIDE DEF s
<1>2. ASSUME NEW i \in 1..Len(s)
      PROVE  s[i].at \notin Decided
  <2>1. s[i].at \notin RescueSteps
    BY <1>1 DEF RescueFlag
  <2>2. s[i].at \in Callers \/ s[i].at = "consider"
    BY <1>1 DEF CallersOnly
  <2> QED  BY <2>1, <2>2 DEF Callers, Decided
<1>3. DecidingOn(s) = {}
  BY <1>2 DEF DecidingOn
<1> QED  BY <1>3, OnlyItsDecisions DEF s

(* The one decision there is.                                              *)
LEMMA TheDecision ==
  ASSUME StackInv, OneThread, NEW t \in Threads, NEW at \in Decided, At(t, at)
  PROVE  /\ Deciding = {Top(t)} /\ Top(t) \in CreateFrames /\ Top(t).at = at
         /\ Pop(t) => Deciding' = {}
         /\ \A f \in Frames : Become(t, f) => Deciding' = IF f.at \in Decided THEN {f} ELSE {}
<1> DEFINE s == stack[t]
<1>1. at \in CreateSteps /\ at /= "game"
  BY DEF Decided, RescueSteps, CreateSteps
<1>2. /\ s \in Seq(Frames) /\ s /= <<>> /\ s[Len(s)] = Top(t) /\ Top(t).at = at
      /\ Top(t) \in CreateFrames /\ RescueFlag(s, inRescue[t])
  BY <1>1, TopOfStack DEF Discipline
<1>3. /\ Pop(t) => stack' = [stack EXCEPT ![t] = SubSeq(s, 1, Len(s) - 1)]
      /\ \A f \in Frames : Become(t, f) => stack' = [stack EXCEPT ![t] = [s EXCEPT ![Len(s)] = f]]
  BY DEF Pop, Become
<1>4. Deciding = DecidingOn(s)
  BY OnlyItsDecisions
<1> HIDE DEF s
<1>5. /\ DecidingOn(s) = {s[Len(s)]}
      /\ DecidingOn(SubSeq(s, 1, Len(s) - 1)) = {}
      /\ \A f \in Frames : DecidingOn([s EXCEPT ![Len(s)] = f])
                             = IF f.at \in Decided THEN {f} ELSE {}
  <2>1. \A i, j \in 1..Len(s) : s[i].at \in Decided /\ s[j].at \in Decided => i = j
    BY <1>2 DEF RescueFlag
  <2> QED  BY <1>2, <2>1, LastDecision
<1>6. Pop(t) => Deciding' = {}
  BY <1>3, <1>5, StackChanges
<1>7. ASSUME NEW f \in Frames, Become(t, f)
      PROVE  Deciding' = IF f.at \in Decided THEN {f} ELSE {}
  BY <1>3, <1>5, <1>7, StackChanges
<1> QED  BY <1>2, <1>4, <1>5, <1>6, <1>7

(* A step of a call that has decided nothing.                              *)
LEMMA OtherDecisions ==
  ASSUME StackInv, OneThread, NEW t \in Threads, NEW at, at \notin Decided, at /= "game",
         At(t, at)
  PROVE  /\ Pop(t) => Deciding' = Deciding
         /\ \A f \in Frames : Become(t, f) =>
              Deciding' = IF f.at \in Decided THEN Deciding \cup {f} ELSE Deciding
<1> DEFINE s == stack[t]
<1>1. s \in Seq(Frames) /\ s /= <<>> /\ s[Len(s)].at = at
  BY TopOfStack
<1>2. /\ Pop(t) => stack' = [stack EXCEPT ![t] = SubSeq(s, 1, Len(s) - 1)]
      /\ \A f \in Frames : Become(t, f) => stack' = [stack EXCEPT ![t] = [s EXCEPT ![Len(s)] = f]]
  BY DEF Pop, Become
<1>3. Deciding = DecidingOn(s)
  BY OnlyItsDecisions
<1> HIDE DEF s
<1>4. Pop(t) => Deciding' = Deciding
  BY <1>1, <1>2, <1>3, StackChanges, PopDecides
<1>5. ASSUME NEW f \in Frames, Become(t, f)
      PROVE  Deciding' = IF f.at \in Decided THEN Deciding \cup {f} ELSE Deciding
  <2>1. Deciding' = DecidingOn([s EXCEPT ![Len(s)] = f])
    <3>1. stack' = [stack EXCEPT ![t] = [s EXCEPT ![Len(s)] = f]]
      BY <1>2, <1>5
    <3> QED  BY <3>1, StackChanges
  <2>2. DecidingOn([s EXCEPT ![Len(s)] = f])
          = IF f.at \in Decided THEN DecidingOn(s) \cup {f} ELSE DecidingOn(s)
    BY <1>1, ReplaceDecides
  <2> QED  BY <1>3, <2>1, <2>2
<1> QED  BY <1>4, <1>5

LEMMA PushedDecisions ==
  ASSUME StackInv, OneThread, NEW t \in Threads, NEW f \in Frames, f.at \notin Decided,
         Push(t, f)
  PROVE  Deciding' = Deciding
<1>1. stack[t] \in Seq(Frames)
  BY DEF StackInv, Typed
<1>2. stack' = [stack EXCEPT ![t] = Append(stack[t], f)]
  BY DEF Push
<1> QED  BY <1>1, <1>2, StackChanges, OnlyItsDecisions, PushDecides

(* What plan promises whatever it is asked: to act is to enter an episode, *)
(* nothing both enters one and leaves it, and a clear is planned only      *)
(* while the ladder is not spent.                                          *)
LEMMA PlanSound ==
  ASSUME NEW in, in.ladders \in Nat
  PROVE  /\ Acts(Plan(in)) => Plan(in).enters
         /\ Plan(in).enters => ~Plan(in).leaves
         /\ Plan(in).action = "clear_cache_and_managed" =>
              (Config.failureLadderLimit /= 0 => in.ladders < Config.failureLadderLimit)
<1>1. /\ Idle.action = "none" /\ ~Idle.enters /\ ~Idle.leaves
      /\ \A action, count :
           LET a == Act(action, count) IN a.action = action /\ a.enters /\ ~a.leaves
  BY DEF Idle, Act
<1>2. CASE Plan(in) = Escalate(in)
  <2>1. CASE ~Config.onFailure \/ LadderSpent(in)
    BY <1>1, <1>2, <2>1 DEF Escalate, Acts
  <2>2. CASE ~(~Config.onFailure \/ LadderSpent(in))
    <3>1. \E action, count : Plan(in) = Act(action, count)
      BY <1>2, <2>2 DEF Escalate
    <3>2. Config.failureLadderLimit /= 0 => in.ladders < Config.failureLadderLimit
      BY <2>2, ConfigAssumption DEF LadderSpent
    <3> QED  BY <1>1, <3>1, <3>2
  <2> QED  BY <2>1, <2>2
<1>3. CASE Plan(in) = Preempt(in)
  <2>1. \A leaves : LET p == [Idle EXCEPT !.leaves = leaves] IN
          p.action = "none" /\ ~p.enters
    BY DEF Idle
  <2>2. LET p == [Idle EXCEPT !.enters = TRUE] IN p.action = "none" /\ p.enters /\ ~p.leaves
    BY DEF Idle
  <2>3. LET p == [Act("evict_cache", BatchFor(1)) EXCEPT !.flush = TRUE] IN
          p.action = "evict_cache" /\ p.enters /\ ~p.leaves
    BY DEF Idle, Act
  <2>4. \/ Plan(in) = Idle
        \/ \E leaves : Plan(in) = [Idle EXCEPT !.leaves = leaves]
        \/ Plan(in) = [Act("evict_cache", BatchFor(1)) EXCEPT !.flush = TRUE]
        \/ Plan(in) = [Idle EXCEPT !.enters = TRUE]
        \/ Plan(in) = Act("evict_cache", BatchFor(0))
    BY <1>3 DEF Preempt
  <2>5. CASE Plan(in) = Idle
    BY <1>1, <2>5 DEF Acts
  <2>6. CASE \E leaves : Plan(in) = [Idle EXCEPT !.leaves = leaves]
    BY <2>1, <2>6 DEF Acts
  <2>7. CASE Plan(in) = [Act("evict_cache", BatchFor(1)) EXCEPT !.flush = TRUE]
    BY <2>3, <2>7 DEF Acts
  <2>8. CASE Plan(in) = [Idle EXCEPT !.enters = TRUE]
    BY <2>2, <2>8 DEF Acts
  <2>9. CASE Plan(in) = Act("evict_cache", BatchFor(0))
    BY <1>1, <2>9 DEF Acts
  <2> QED  BY <2>4, <2>5, <2>6, <2>7, <2>8, <2>9
<1> QED  BY <1>2, <1>3 DEF Plan

-----------------------------------------------------------------------------
(* Every step of one thread keeps EpisodeInv                               *)

LEMMA EpisodeGoesOn ==
  ASSUME EpisodeInv, Deciding' = Deciding,
         UNCHANGED <<underPressure, consecutive, ladders, clears>>
  PROVE  EpisodeInv'
<1>1. \A f \in Deciding' : Stands(f, underPressure', ladders')
  BY DEF EpisodeInv, DecisionsStand, Stands, LadderLeft
<1> QED  BY <1>1 DEF EpisodeInv, EpisodeStartsFresh, WithinLimit, DecisionsStand, ClearsCounted

(* The step of a create that has decided, to another of its steps.         *)
LEMMA DecisionMoves ==
  ASSUME EpisodeInv, NEW f, Deciding' = {f}, Stands(f, underPressure', ladders'),
         EpisodeStartsFresh', WithinLimit',
         clears' <= ladders' \/ (clears' = ladders' + 1 /\ Owing(f))
  PROVE  EpisodeInv'
BY DEF EpisodeInv, DecisionsStand, ClearsCounted

LEMMA OutsideKeepsEpisode ==
  ASSUME StackInv, OneThread, EpisodeInv, NEW t \in Threads, Outside(t)
  PROVE  EpisodeInv'
<1>1. UNCHANGED <<underPressure, consecutive, ladders, clears>>
  BY DEF Outside, CreateTexture, EngineCall, EngineReturns, BeginReset, EndReset, latches, world
<1>2. Deciding' = Deciding
  <2>1. CASE CreateTexture(t)
    <3>1. PICK size \in Sizes : Push(t, Create(size))
      BY <2>1 DEF CreateTexture
    <3>2. Create(size) \in Frames /\ Create(size).at = "consider"
      <4>1. Idle \in Plans
        BY ConfigAssumption DEF Idle, Plans, Actions
      <4> QED  BY <4>1 DEF Create, Frames, CreateFrames, CreateSteps
    <3> QED  BY <3>1, <3>2, PushedDecisions DEF Decided, RescueSteps
  <2>2. CASE EngineCall(t)
    <3>1. /\ Outer("engine", ~inHook[t]) \in Frames
          /\ Outer("engine", ~inHook[t]).at = "engine"
      BY DEF Outer, Frames, OuterFrames
    <3> QED  BY <2>2, <3>1, PushedDecisions DEF EngineCall, Decided, RescueSteps
  <2>3. CASE BeginReset(t)
    <3>1. Outer("reset", TRUE) \in Frames /\ Outer("reset", TRUE).at = "reset"
      BY DEF Outer, Frames, OuterFrames
    <3> QED  BY <2>3, <3>1, PushedDecisions DEF BeginReset, Decided, RescueSteps
  <2>4. CASE EngineReturns(t)
    BY <2>4, OtherDecisions DEF EngineReturns, Decided, RescueSteps
  <2>5. CASE EndReset(t)
    BY <2>5, OtherDecisions DEF EndReset, Decided, RescueSteps
  <2> QED  BY <2>1, <2>2, <2>3, <2>4, <2>5 DEF Outside
<1> QED  BY <1>1, <1>2, EpisodeGoesOn

(* A create that goes to the driver, or comes back from it.                *)
LEMMA UndecidedMoves ==
  ASSUME StackInv, OneThread, EpisodeInv, NEW t \in Threads,
         NEW at \in {"consider", "driver"}, At(t, at),
         Pop(t) \/ \E f \in Frames : f.at \in {"consider", "driver"} /\ Become(t, f),
         UNCHANGED <<underPressure, consecutive, ladders, clears>>
  PROVE  EpisodeInv'
<1>1. at \notin Decided /\ at /= "game"
  BY DEF Decided, RescueSteps
<1>2. CASE Pop(t)
  BY <1>1, <1>2, OtherDecisions, EpisodeGoesOn
<1>3. CASE \E f \in Frames : f.at \in {"consider", "driver"} /\ Become(t, f)
  <2>1. PICK f \in Frames : f.at \in {"consider", "driver"} /\ Become(t, f)
    BY <1>3
  <2>2. f.at \notin Decided
    BY <2>1 DEF Decided, RescueSteps
  <2> QED  BY <1>1, <2>1, <2>2, OtherDecisions, EpisodeGoesOn
<1> QED  BY <1>2, <1>3

(* A decision that asks for nothing, or is over.                           *)
LEMMA DecisionEnds ==
  ASSUME StackInv, OneThread, EpisodeInv, NEW t \in Threads, NEW at \in Decided, At(t, at),
         Pop(t) \/ \E f \in Frames : f.at = "driver" /\ Become(t, f),
         EpisodeStartsFresh', WithinLimit', clears' <= ladders'
  PROVE  EpisodeInv'
<1>1. Deciding' = {}
  BY TheDecision DEF Decided, RescueSteps
<1> QED  BY <1>1 DEF EpisodeInv, DecisionsStand, ClearsCounted

LEMMA ReadKeepsEpisode ==
  ASSUME StackInv, OneThread, EpisodeInv, NEW t \in Threads, Read(t)
  PROVE  EpisodeInv'
<1>0. ladders \in Nat /\ clears \in Nat /\ now \in Nat
  BY DEF StackInv, Typed
<1>1. PICK free \in FreeBlocks, pending \in 0..1 :
        Become(t, [Top(t) EXCEPT !.at = "latch", !.readAt = now,
                                 !.plan = Plan(Inputs(t, free, pending))])
  BY DEF Read
<1> DEFINE plan == Plan(Inputs(t, free, pending))
           f == [Top(t) EXCEPT !.at = "latch", !.readAt = now, !.plan = plan]
<1>2. At(t, "consider") /\ ~inRescue[t]
  BY DEF Read, Asks
<1>3. Deciding = {}
  BY <1>2, NothingDecided
<1>4. plan \in Plans
  BY PlanTyped
<1>5. /\ Acts(plan) => plan.enters
      /\ plan.enters => ~plan.leaves
      /\ plan.action = "clear_cache_and_managed" => LadderLeft(ladders)
  <2>1. Inputs(t, free, pending).ladders = ladders
    BY DEF Inputs
  <2>2. \A in : in.ladders = ladders =>
          /\ Acts(Plan(in)) => Plan(in).enters
          /\ Plan(in).enters => ~Plan(in).leaves
          /\ Plan(in).action = "clear_cache_and_managed" => LadderLeft(ladders)
    BY <1>0, PlanSound DEF LadderLeft
  <2> QED  BY <2>1, <2>2
<1> HIDE DEF plan
<1>6. f \in CreateFrames /\ f.at = "latch" /\ f.plan = plan
  <2>1. Top(t) \in CreateFrames
    BY <1>2, TopOfStack DEF CreateSteps
  <2> QED  BY <1>0, <1>4, <2>1 DEF CreateFrames, CreateSteps
<1>7. Become(t, f)
  BY <1>1 DEF plan
<1>8. UNCHANGED <<underPressure, consecutive, ladders, clears>>
  BY DEF Read, latches, world
<1> HIDE DEF f
<1>9. Deciding' = {f}
  <2>1. "consider" \notin Decided /\ f \in Frames /\ f.at \in Decided
    BY <1>6 DEF Decided, RescueSteps, Frames
  <2>2. Deciding' = Deciding \cup {f}
    BY <1>2, <1>7, <2>1, OtherDecisions
  <2> QED  BY <1>3, <2>2
<1>10. Stands(f, underPressure', ladders')
  BY <1>5, <1>6, <1>8 DEF Stands, LadderLeft, ClearsCache
<1>11. clears' <= ladders'
  BY <1>0, <1>3, <1>8 DEF EpisodeInv, ClearsCounted
<1> QED  BY <1>8, <1>9, <1>10, <1>11, DecisionMoves DEF EpisodeInv, EpisodeStartsFresh, WithinLimit

(* The decision on the stack, and what is known of it.                     *)
LEMMA WhatStands ==
  ASSUME StackInv, OneThread, EpisodeInv, NEW t \in Threads, NEW at \in Decided, At(t, at)
  PROVE  /\ Top(t) \in CreateFrames /\ Top(t).at = at /\ Stands(Top(t), underPressure, ladders)
         /\ ladders \in Nat /\ clears \in Nat /\ consecutive \in Nat
         /\ clears <= ladders \/ (clears = ladders + 1 /\ Owing(Top(t)))
<1>1. Deciding = {Top(t)} /\ Top(t) \in CreateFrames /\ Top(t).at = at
  BY TheDecision
<1>2. ladders \in Nat /\ clears \in Nat /\ consecutive \in Nat
  BY DEF StackInv, Typed
<1> QED  BY <1>1, <1>2 DEF EpisodeInv, DecisionsStand, ClearsCounted

LEMMA LatchKeepsEpisode ==
  ASSUME StackInv, OneThread, EpisodeInv, NEW t \in Threads, Latch(t)
  PROVE  EpisodeInv'
<1> DEFINE plan == Top(t).plan
           f == [Top(t) EXCEPT !.at = "execute"]
<1>0. At(t, "latch") /\ "latch" \in Decided
  BY DEF Latch, Decided
<1>1. /\ Top(t) \in CreateFrames /\ Top(t).at = "latch" /\ Stands(Top(t), underPressure, ladders)
      /\ ladders \in Nat /\ clears \in Nat /\ consecutive \in Nat
      /\ clears <= ladders
  BY <1>0, WhatStands DEF Owing
<1>2. /\ plan \in Plans
      /\ Acts(plan) => plan.enters
      /\ plan.enters => ~plan.leaves
      /\ plan.action = "clear_cache_and_managed" => LadderLeft(ladders)
  BY <1>1 DEF Stands, ClearsCache, CreateFrames
<1>3. /\ underPressure' = (plan.enters \/ (underPressure /\ ~plan.leaves))
      /\ consecutive' = IF plan.leaves THEN 0
                        ELSE IF plan.enters /\ Top(t).attempt = 0
                        THEN AtMost(consecutive + 1, Config.preemptiveEscalateAfter)
                        ELSE consecutive
      /\ ladders' = IF plan.leaves THEN 0 ELSE ladders
      /\ clears' = IF plan.leaves THEN 0 ELSE clears
      /\ IF Acts(plan) THEN Goto(t, "execute") ELSE GoOnUnaided(t)
  BY DEF Latch
<1>4. f \in CreateFrames /\ f.at = "execute" /\ f.plan = plan
  BY <1>1 DEF CreateFrames, CreateSteps
<1>5. Acts(plan) => Become(t, f)
  BY <1>3 DEF Goto
<1>6. ~Acts(plan) => Pop(t) \/ \E g \in Frames : g.at = "driver" /\ Become(t, g)
  <2>1. /\ [Top(t) EXCEPT !.at = "driver"] \in Frames
        /\ [Top(t) EXCEPT !.at = "driver"].at = "driver"
    BY <1>1, FrameMoved DEF CreateSteps, Frames
  <2> QED  BY <1>3, <2>1 DEF GoOnUnaided, Goto
<1> HIDE DEF plan, f
<1>7. plan.enters \in BOOLEAN /\ plan.leaves \in BOOLEAN
  BY <1>2 DEF Plans
<1>8. EpisodeStartsFresh'
  BY <1>2, <1>3, <1>7 DEF EpisodeInv, EpisodeStartsFresh
<1>9. WithinLimit' /\ clears' <= ladders'
  BY <1>1, <1>3, <1>7, ConfigAssumption DEF EpisodeInv, WithinLimit
<1>10. CASE Acts(plan)
  <2>1. Deciding' = {f}
    BY <1>0, <1>4, <1>5, <1>10, TheDecision DEF Decided, RescueSteps, Frames
  <2>2. plan.enters /\ ~plan.leaves /\ underPressure' /\ ladders' = ladders
    BY <1>2, <1>3, <1>7, <1>10
  <2>3. Stands(f, underPressure', ladders')
    BY <1>2, <1>4, <1>10, <2>2 DEF Stands, LadderLeft, ClearsCache
  <2> QED  BY <1>8, <1>9, <2>1, <2>3, DecisionMoves
<1>11. CASE ~Acts(plan)
  BY <1>0, <1>6, <1>8, <1>9, <1>11, DecisionEnds
<1> QED  BY <1>10, <1>11

(* A step inside the rescue that leaves latch and counters alone, but for  *)
(* the clear it may make and the value of the counter it may load.         *)
LEMMA RescueStepKeepsEpisode ==
  ASSUME StackInv, OneThread, EpisodeInv, NEW t \in Threads, NEW at \in RescueSteps, At(t, at),
         NEW f \in CreateFrames, Become(t, f), f.at \in RescueSteps,
         f.plan = Top(t).plan, at = "finish" => f.at = "finish",
         f.at = "store" => f.counted = ladders,
         f.at \in {"count", "store"} => ClearsCache(f),
         Owing(Top(t)) => Owing(f),
         UNCHANGED <<underPressure, consecutive, ladders>>,
         clears' = clears \/ (clears' = clears + 1 /\ Owing(f) /\ ~Owing(Top(t)))
  PROVE  EpisodeInv'
<1>1. at \in Decided /\ f.at \in Decided /\ f \in Frames /\ f.at /= "latch"
  BY DEF Decided, RescueSteps, Frames
<1>2. Deciding' = {f}
  BY <1>1, TheDecision
<1>3. /\ Top(t).at = at /\ Stands(Top(t), underPressure, ladders)
      /\ ladders \in Nat /\ clears \in Nat /\ at /= "latch"
      /\ clears <= ladders \/ (clears = ladders + 1 /\ Owing(Top(t)))
  BY <1>1, WhatStands DEF RescueSteps
<1>4. Stands(f, underPressure, ladders)
  BY <1>1, <1>3 DEF Stands, ClearsCache
<1>5. clears' <= ladders' \/ (clears' = ladders' + 1 /\ Owing(f))
  BY <1>3
<1>6. EpisodeStartsFresh' /\ WithinLimit'
  BY DEF EpisodeInv, EpisodeStartsFresh, WithinLimit
<1> QED  BY <1>2, <1>4, <1>5, <1>6, DecisionMoves

LEMMA ExecuteKeepsEpisode ==
  ASSUME StackInv, OneThread, EpisodeInv, NEW t \in Threads, Execute(t)
  PROVE  EpisodeInv'
<1>0. ladders \in Nat /\ clears \in Nat /\ consecutive \in Nat
  BY DEF StackInv, Typed
<1>1. ASSUME NEW at \in RescueSteps, At(t, at)
      PROVE  /\ Top(t) \in CreateFrames /\ Top(t).at = at
             /\ Stands(Top(t), underPressure, ladders)
             /\ clears <= ladders \/ (clears = ladders + 1 /\ Owing(Top(t)))
             /\ Clears(t) <=> ClearsCache(Top(t))
             /\ Counts(t) = IF ClearsCache(Top(t)) THEN "count" ELSE "finish"
  <2>1. at \in Decided
    BY DEF Decided
  <2> QED  BY <1>1, <2>1, WhatStands DEF Clears, ClearsCache, Counts
<1>2. ASSUME NEW at \in CreateSteps, Top(t) \in CreateFrames
      PROVE  LET f == [Top(t) EXCEPT !.at = at] IN
             f \in CreateFrames /\ f.at = at /\ f.plan = Top(t).plan
  BY <1>2 DEF CreateFrames
<1>3. CASE EngineRefuses(t) \/ LeaveEngine(t)
  <2> DEFINE f == [Top(t) EXCEPT !.at = Counts(t)]
  <2>1. PICK at \in {"execute", "evicting"} : At(t, at)
    BY <1>3 DEF EngineRefuses, LeaveEngine
  <2>2. /\ Become(t, f) /\ UNCHANGED <<underPressure, consecutive, ladders, clears>>
    BY <1>3 DEF EngineRefuses, LeaveEngine, Goto, latches, world
  <2>3. at \in RescueSteps /\ at /= "finish"
    BY DEF RescueSteps
  <2>4. /\ Top(t) \in CreateFrames /\ Top(t).at = at
        /\ Counts(t) = IF ClearsCache(Top(t)) THEN "count" ELSE "finish"
    BY <1>1, <2>1, <2>3
  <2>5. f \in CreateFrames /\ f.at = Counts(t) /\ f.plan = Top(t).plan
    BY <1>2, <2>4 DEF CreateSteps
  <2> HIDE DEF f
  <2>6. f.at \in {"count", "finish"} /\ f.at \in RescueSteps
    BY <2>4, <2>5 DEF RescueSteps
  <2>7. /\ f.at \in {"count", "store"} => ClearsCache(f)
        /\ Owing(Top(t)) => Owing(f)
    BY <2>4, <2>5 DEF Owing, ClearsCache
  <2> QED  BY <2>1, <2>2, <2>3, <2>5, <2>6, <2>7, RescueStepKeepsEpisode
<1>4. CASE EnterEngine(t)
  <2> DEFINE f == [Top(t) EXCEPT !.at = "evicting"]
  <2>1. /\ At(t, "execute") /\ Become(t, f) /\ UNCHANGED <<underPressure, consecutive, ladders>>
        /\ clears' = IF Clears(t) THEN clears + 1 ELSE clears
    BY <1>4 DEF EnterEngine, Goto, latches
  <2>2. "execute" \in RescueSteps /\ "evicting" \in RescueSteps /\ "evicting" \in CreateSteps
    BY DEF RescueSteps, CreateSteps
  <2>3. /\ Top(t) \in CreateFrames /\ Top(t).at = "execute"
        /\ Clears(t) <=> ClearsCache(Top(t))
    BY <1>1, <2>1, <2>2
  <2>4. f \in CreateFrames /\ f.at = "evicting" /\ f.plan = Top(t).plan
    BY <1>2, <2>2, <2>3
  <2> HIDE DEF f
  <2>5. ~Owing(Top(t)) /\ (Clears(t) => Owing(f))
    BY <2>3, <2>4 DEF Owing, ClearsCache
  <2>6. clears' = clears \/ (clears' = clears + 1 /\ Owing(f) /\ ~Owing(Top(t)))
    BY <2>1, <2>5
  <2> QED  BY <2>1, <2>2, <2>4, <2>5, <2>6, RescueStepKeepsEpisode
<1>5. CASE LoadLadders(t)
  <2> DEFINE f == [Top(t) EXCEPT !.at = "store", !.counted = ladders]
  <2>1. At(t, "count") /\ Become(t, f) /\ UNCHANGED <<underPressure, consecutive, ladders, clears>>
    BY <1>5 DEF LoadLadders, latches, world
  <2>2. "count" \in RescueSteps /\ "store" \in RescueSteps
    BY DEF RescueSteps
  <2>3. Top(t) \in CreateFrames /\ Top(t).at = "count" /\ ClearsCache(Top(t))
    BY <1>1, <2>1, <2>2 DEF Stands
  <2>4. f \in CreateFrames /\ f.at = "store" /\ f.plan = Top(t).plan /\ f.counted = ladders
    BY <1>0, <2>3 DEF CreateFrames, CreateSteps
  <2> HIDE DEF f
  <2>5. ClearsCache(f) /\ Owing(f)
    BY <2>3, <2>4 DEF Owing, ClearsCache
  <2> QED  BY <2>1, <2>2, <2>4, <2>5, RescueStepKeepsEpisode
<1>6. CASE StoreLadders(t)
  <2> DEFINE f == [Top(t) EXCEPT !.at = "finish", !.counted = 0]
  <2>1. /\ At(t, "store") /\ Become(t, f) /\ ladders' = Top(t).counted + 1
        /\ UNCHANGED <<underPressure, consecutive, clears>>
    BY <1>6 DEF StoreLadders, world
  <2>2. "store" \in RescueSteps /\ "store" \in Decided /\ "finish" \in Decided
    BY DEF RescueSteps, Decided
  <2>3. /\ Top(t) \in CreateFrames /\ Top(t).at = "store" /\ Top(t).counted = ladders
        /\ ClearsCache(Top(t)) /\ LadderLeft(ladders) /\ underPressure
        /\ Acts(Top(t).plan) /\ Top(t).plan.enters /\ ~Top(t).plan.leaves
        /\ clears <= ladders + 1
    BY <1>0, <1>1, <2>1, <2>2 DEF Stands
  <2>4. f \in CreateFrames /\ f.at = "finish" /\ f.plan = Top(t).plan
    BY <2>3 DEF CreateFrames, CreateSteps
  <2> HIDE DEF f
  <2>5. Deciding' = {f}
    BY <2>1, <2>2, <2>4, TheDecision DEF Frames
  <2>6. Stands(f, underPressure', ladders')
    BY <2>1, <2>3, <2>4 DEF Stands
  <2>7. EpisodeStartsFresh'
    BY <2>1, <2>3 DEF EpisodeStartsFresh
  <2>8. WithinLimit' /\ clears' <= ladders'
    BY <1>0, <2>1, <2>3, ConfigAssumption DEF WithinLimit, LadderLeft
  <2> QED  BY <2>5, <2>6, <2>7, <2>8, DecisionMoves
<1>7. CASE Finish(t)
  <2> DEFINE f == [Top(t) EXCEPT !.at = "driver", !.readAt = 0]
  <2>1. At(t, "finish") /\ Become(t, f) /\ UNCHANGED <<underPressure, consecutive, ladders, clears>>
    BY <1>7 DEF Finish, world
  <2>2. "finish" \in RescueSteps /\ "finish" \in Decided
    BY DEF RescueSteps, Decided
  <2>3. Top(t) \in CreateFrames /\ Top(t).at = "finish" /\ clears <= ladders
    BY <1>1, <2>1, <2>2 DEF Owing
  <2>4. f \in Frames /\ f.at = "driver"
    BY <2>3 DEF Frames, CreateFrames, CreateSteps
  <2> HIDE DEF f
  <2>5. EpisodeStartsFresh' /\ WithinLimit' /\ clears' <= ladders'
    BY <2>1, <2>3 DEF EpisodeInv, EpisodeStartsFresh, WithinLimit
  <2> QED  BY <2>1, <2>2, <2>4, <2>5, DecisionEnds
<1> QED  BY <1>3, <1>4, <1>5, <1>6, <1>7 DEF Execute

LEMMA ProgressKeepsEpisode ==
  ASSUME StackInv, OneThread, EpisodeInv, NEW t \in Threads, Progress(t)
  PROVE  EpisodeInv'
<1>1. CASE SkipInReset(t) \/ Suppress(t) \/ DriverCreates(t) \/ DriverFails(t)
  <2>1. PICK at \in {"consider", "driver"} : At(t, at)
    BY <1>1 DEF SkipInReset, Suppress, Asks, DriverCreates, DriverFails
  <2>2. Top(t) \in CreateFrames
    BY <2>1, TopOfStack DEF CreateSteps
  <2>3. /\ [Top(t) EXCEPT !.at = "driver"] \in CreateFrames
        /\ [Top(t) EXCEPT !.at = "driver"].at = "driver"
    BY <2>2, FrameMoved DEF CreateSteps
  <2>4. Top(t).attempt < 3 =>
          /\ [Top(t) EXCEPT !.at = "consider", !.attempt = @ + 1] \in CreateFrames
          /\ [Top(t) EXCEPT !.at = "consider", !.attempt = @ + 1].at = "consider"
    <3>1. Top(t).attempt < 3 => Top(t).attempt + 1 \in 0..3
      BY <2>2 DEF CreateFrames
    <3> QED  BY <2>2, <3>1 DEF CreateFrames, CreateSteps
  <2>5. Pop(t) \/ \E f \in Frames : f.at \in {"consider", "driver"} /\ Become(t, f)
    BY <1>1, <2>3, <2>4 DEF SkipInReset, Suppress, DriverCreates, DriverFails, GoOnUnaided,
                            Goto, Frames
  <2>6. UNCHANGED <<underPressure, consecutive, ladders, clears>>
    BY <1>1 DEF SkipInReset, Suppress, DriverCreates, DriverFails, latches, world
  <2> QED  BY <2>1, <2>5, <2>6, UndecidedMoves
<1> QED  BY <1>1, ReadKeepsEpisode, LatchKeepsEpisode, ExecuteKeepsEpisode
         DEF Progress, Consider

LEMMA EpisodeInvKept ==
  OneThread => (StackInv /\ EpisodeInv /\ [Next]_vars => EpisodeInv')
<1> SUFFICES ASSUME OneThread, StackInv, EpisodeInv, [Next]_vars PROVE EpisodeInv'
  OBVIOUS
<1>1. CASE Tick \/ UNCHANGED vars
  <2>1. UNCHANGED <<stack, underPressure, consecutive, ladders, clears>>
    BY <1>1 DEF Tick, vars, latches, world
  <2>2. Deciding' = Deciding
    BY <2>1 DEF Deciding
  <2> QED  BY <2>1, <2>2, EpisodeGoesOn
<1>2. ASSUME NEW t \in Threads, Progress(t) \/ Outside(t) PROVE EpisodeInv'
  BY <1>2, ProgressKeepsEpisode, OutsideKeepsEpisode
<1> QED  BY <1>1, <1>2 DEF Next

LEMMA EpisodeInvHolds == ASSUME OneThread PROVE Spec => []EpisodeInv
<1>1. Init => EpisodeInv
  <2> SUFFICES ASSUME Init PROVE EpisodeInv
    OBVIOUS
  <2>1. Deciding = {}
    <3>1. \A t \in Threads : stack[t] = <<>> /\ Len(stack[t]) = 0
      BY DEF Init
    <3> QED  BY <3>1 DEF Deciding, DecidingOn
  <2> QED  BY <2>1, ConfigAssumption
           DEF Init, EpisodeInv, EpisodeStartsFresh, WithinLimit, DecisionsStand, ClearsCounted
<1>2. StackInv /\ EpisodeInv /\ [Next]_vars => EpisodeInv'
  BY EpisodeInvKept
<1> QED  BY <1>1, <1>2, StackInvHolds, PTL DEF Spec

(* While one thread creates textures, an episode of pressure that ends     *)
(* leaves nothing behind: the next one starts at the gentlest rung with    *)
(* the failure path armed (consider).                                      *)
THEOREM EpisodesStartFresh == ASSUME OneThread PROVE Spec => []EpisodeStartsFresh
<1>1. EpisodeInv => EpisodeStartsFresh
  BY DEF EpisodeInv
<1> QED  BY <1>1, EpisodeInvHolds, PTL

(* While one thread creates textures, the engine's texture cache is cleared*)
(* at most failure_ladder_limit times in an episode, however often creates *)
(* fail and whatever the engine creates while it evicts (consider).        *)
THEOREM ClearsAreBounded == ASSUME OneThread PROVE Spec => []LaddersBounded
<1>1. StackInv /\ EpisodeInv => LaddersBounded
  <2> SUFFICES ASSUME StackInv, EpisodeInv, Config.failureLadderLimit /= 0
               PROVE  clears <= Config.failureLadderLimit
    BY DEF LaddersBounded
  <2>1. ladders \in Nat /\ clears \in Nat /\ Config.failureLadderLimit \in Nat
    BY ConfigAssumption DEF StackInv, Typed
  <2>2. ladders <= Config.failureLadderLimit
    BY DEF EpisodeInv, WithinLimit
  <2>3. ASSUME NEW f \in Deciding, Owing(f)
        PROVE  ladders < Config.failureLadderLimit
    BY <2>3 DEF EpisodeInv, DecisionsStand, Stands, LadderLeft, Owing
  <2> QED  BY <2>1, <2>2, <2>3 DEF EpisodeInv, ClearsCounted
<1> QED  BY <1>1, StackInvHolds, EpisodeInvHolds, PTL

-----------------------------------------------------------------------------
(* The rungs of a failing create, for any number of threads                *)

(* What the failure path asks for when a create has failed n times.        *)
Rung(plan, n) ==
  \/ n = 1 /\ plan.action = "evict_cache" /\ plan.maxCount = BatchFor(1)
  \/ /\ n = 2 /\ plan.maxCount = BatchFor(2)
     /\ plan.action = IF Config.evictManaged THEN "evict_cache_and_managed" ELSE "evict_cache"
  \/ n = 3 /\ plan.action = "clear_cache_and_managed"

(* A create comes back to consider only from a rung that acted: the plan   *)
(* it still carries is that of its last failure but one.                   *)
OnItsRung(f) ==
  f.at \in CreateSteps =>
    /\ f.at = "consider" => f.attempt < 2 \/ Rung(f.plan, f.attempt - 1)
    /\ f.at = "latch" /\ f.attempt > 0 /\ Acts(f.plan) => Rung(f.plan, f.attempt)
    /\ f.at \notin {"consider", "latch"} /\ f.attempt > 0 => Rung(f.plan, f.attempt)

AllOnTheirRungs(s) == \A i \in 1..Len(s) : OnItsRung(s[i])
RungsKept == \A t \in Threads : AllOnTheirRungs(stack[t])

LEMMA EscalateRung ==
  ASSUME NEW in, in.attempt \in 1..3, Acts(Escalate(in))
  PROVE  Rung(Escalate(in), in.attempt)
<1>1. \A action, count : Act(action, count).action = action /\ Act(action, count).maxCount = count
  BY DEF Act, Idle
<1>2. ~(~Config.onFailure \/ LadderSpent(in))
  BY DEF Escalate, Acts, Idle
<1>3. CASE in.attempt = 1
  BY <1>1, <1>2, <1>3 DEF Escalate, Rung
<1>4. CASE in.attempt = 2
  BY <1>1, <1>2, <1>4 DEF Escalate, Rung
<1>5. CASE in.attempt = 3
  BY <1>1, <1>2, <1>5 DEF Escalate, Rung
<1> QED  BY <1>3, <1>4, <1>5

(* One stack changes, at the top.                                          *)
LEMMA TopKeepsRungs ==
  ASSUME Typed, RungsKept, NEW t \in Threads,
         \/ \E f \in Frames : OnItsRung(f) /\ Push(t, f)
         \/ stack[t] /= <<>> /\ Pop(t)
         \/ stack[t] /= <<>> /\ \E f \in Frames : OnItsRung(f) /\ Become(t, f)
  PROVE  RungsKept'
<1> DEFINE s == stack[t]
<1>1. s \in Seq(Frames) /\ AllOnTheirRungs(s)
  BY DEF Typed, RungsKept
<1>2. ASSUME NEW p, stack' = [stack EXCEPT ![t] = p], AllOnTheirRungs(p)
      PROVE  RungsKept'
  <2>1. ASSUME NEW u \in Threads PROVE AllOnTheirRungs(stack'[u])
    <3>1. stack'[u] = IF u = t THEN p ELSE stack[u]
      BY <1>2 DEF Typed
    <3> QED  BY <1>2, <3>1 DEF RungsKept
  <2> QED  BY <2>1 DEF RungsKept
<1>3. ASSUME NEW f \in Frames, OnItsRung(f), Push(t, f)
      PROVE  RungsKept'
  <2>1. stack' = [stack EXCEPT ![t] = Append(s, f)]
    BY <1>3 DEF Push
  <2> HIDE DEF s
  <2>2. AllOnTheirRungs(Append(s, f))
    BY <1>1, <1>3, PushedFrames DEF AllOnTheirRungs
  <2> QED  BY <1>2, <2>1, <2>2
<1>4. ASSUME s /= <<>>, Pop(t)
      PROVE  RungsKept'
  <2>1. stack' = [stack EXCEPT ![t] = SubSeq(s, 1, Len(s) - 1)]
    BY <1>4 DEF Pop
  <2> HIDE DEF s
  <2>2. AllOnTheirRungs(SubSeq(s, 1, Len(s) - 1))
    BY <1>1, <1>4, PoppedFrames DEF AllOnTheirRungs
  <2> QED  BY <1>2, <2>1, <2>2
<1>5. ASSUME NEW f \in Frames, s /= <<>>, OnItsRung(f), Become(t, f)
      PROVE  RungsKept'
  <2>1. stack' = [stack EXCEPT ![t] = [s EXCEPT ![Len(s)] = f]]
    BY <1>5 DEF Become
  <2> HIDE DEF s
  <2>2. AllOnTheirRungs([s EXCEPT ![Len(s)] = f])
    BY <1>1, <1>5, ReplacedFrames DEF AllOnTheirRungs
  <2> QED  BY <1>2, <2>1, <2>2
<1> QED  BY <1>3, <1>4, <1>5

(* A step of a create that keeps its attempt and its plan.                 *)
LEMMA MoveKeepsRung ==
  ASSUME StackInv, RungsKept, NEW t \in Threads,
         NEW at \in CreateSteps \ {"consider"}, At(t, at),
         at = "latch" => Acts(Top(t).plan),
         NEW f \in CreateFrames, f.at \notin {"consider", "latch"},
         f.plan = Top(t).plan, f.attempt = Top(t).attempt, Become(t, f)
  PROVE  RungsKept'
<1>1. /\ stack[t] \in Seq(Frames) /\ stack[t] /= <<>>
      /\ Top(t) = stack[t][Len(stack[t])] /\ Top(t).at = at
  BY TopOfStack DEF CreateSteps
<1>2. OnItsRung(Top(t))
  BY <1>1 DEF RungsKept, AllOnTheirRungs
<1>3. OnItsRung(f)
  BY <1>1, <1>2 DEF OnItsRung
<1>4. Typed /\ f \in Frames
  BY DEF StackInv, Frames
<1> QED  BY <1>1, <1>3, <1>4, TopKeepsRungs

LEMMA ConsiderKeepsRungs ==
  ASSUME StackInv, RungsKept, NEW t \in Threads, Consider(t)
  PROVE  RungsKept'
<1>0. Typed
  BY DEF StackInv
<1>1. CASE SkipInReset(t) \/ Suppress(t)
  <2> DEFINE f == [Top(t) EXCEPT !.at = "driver"]
  <2>1. At(t, "consider")
    BY <1>1 DEF SkipInReset, Suppress, Asks
  <2>2. stack[t] /= <<>> /\ Top(t) \in CreateFrames
    BY <2>1, TopOfStack DEF CreateSteps
  <2>3. f \in Frames /\ f.at = "driver" /\ f.attempt = Top(t).attempt
    BY <2>2 DEF CreateFrames, CreateSteps, Frames
  <2>4. Pop(t) \/ (Top(t).attempt = 0 /\ Become(t, f))
    BY <1>1 DEF SkipInReset, Suppress, GoOnUnaided, Goto
  <2> HIDE DEF f
  <2>5. Top(t).attempt = 0 => OnItsRung(f)
    BY <2>3 DEF OnItsRung
  <2> QED  BY <1>0, <2>2, <2>3, <2>4, <2>5, TopKeepsRungs
<1>2. CASE Read(t)
  <2>1. PICK free \in FreeBlocks, pending \in 0..1 :
          Become(t, [Top(t) EXCEPT !.at = "latch", !.readAt = now,
                                   !.plan = Plan(Inputs(t, free, pending))])
    BY <1>2 DEF Read
  <2> DEFINE in == Inputs(t, free, pending)
             f == [Top(t) EXCEPT !.at = "latch", !.readAt = now, !.plan = Plan(in)]
  <2>2. stack[t] /= <<>> /\ Top(t) \in CreateFrames
    BY <1>2, TopOfStack DEF Read, Asks, CreateSteps
  <2>3. in.attempt = Top(t).attempt /\ Top(t).attempt \in 0..3
    BY <2>2 DEF Inputs, CreateFrames
  <2>4. Plan(in) \in Plans /\ now \in Nat
    BY <1>0, PlanTyped DEF Typed
  <2>5. Top(t).attempt > 0 /\ Acts(Plan(in)) => Rung(Plan(in), Top(t).attempt)
    <3> HIDE DEF in
    <3> QED  BY <2>3, EscalateRung DEF Plan
  <2> HIDE DEF in
  <2>6. /\ f \in CreateFrames /\ f.at = "latch" /\ f.attempt = Top(t).attempt
        /\ f.plan = Plan(in)
    BY <2>2, <2>4 DEF CreateFrames, CreateSteps
  <2>7. Become(t, f)
    BY <2>1 DEF in
  <2> HIDE DEF f
  <2>8. OnItsRung(f)
    BY <2>5, <2>6 DEF OnItsRung
  <2> QED  BY <1>0, <2>2, <2>6, <2>7, <2>8, TopKeepsRungs DEF Frames
<1>3. CASE Latch(t)
  <2>1. At(t, "latch") /\ stack[t] /= <<>> /\ Top(t) \in CreateFrames
    BY <1>3, TopOfStack DEF Latch, CreateSteps
  <2>2. CASE Acts(Top(t).plan)
    <3> DEFINE f == [Top(t) EXCEPT !.at = "execute"]
    <3>1. /\ f \in CreateFrames /\ f.at = "execute" /\ f.attempt = Top(t).attempt
          /\ f.plan = Top(t).plan
      BY <2>1 DEF CreateFrames, CreateSteps
    <3>2. Become(t, f)
      BY <1>3, <2>2 DEF Latch, Goto
    <3> HIDE DEF f
    <3> QED  BY <2>1, <2>2, <3>1, <3>2, MoveKeepsRung DEF CreateSteps
  <2>3. CASE ~Acts(Top(t).plan)
    <3> DEFINE f == [Top(t) EXCEPT !.at = "driver"]
    <3>1. f \in Frames /\ f.at = "driver" /\ f.attempt = Top(t).attempt
      BY <2>1 DEF CreateFrames, CreateSteps, Frames
    <3>2. Pop(t) \/ (Top(t).attempt = 0 /\ Become(t, f))
      BY <1>3, <2>3 DEF Latch, GoOnUnaided, Goto
    <3> HIDE DEF f
    <3>3. Top(t).attempt = 0 => OnItsRung(f)
      BY <3>1 DEF OnItsRung
    <3> QED  BY <1>0, <2>1, <3>1, <3>2, <3>3, TopKeepsRungs
  <2> QED  BY <2>2, <2>3
<1> QED  BY <1>1, <1>2, <1>3 DEF Consider

LEMMA ExecuteKeepsRungs ==
  ASSUME StackInv, RungsKept, NEW t \in Threads, Execute(t)
  PROVE  RungsKept'
<1>1. PICK at \in RescueSteps : At(t, at)
  BY DEF Execute, EngineRefuses, EnterEngine, LeaveEngine, LoadLadders, StoreLadders, Finish,
         RescueSteps
<1>2. at \in CreateSteps \ {"consider", "latch"} /\ at /= "game"
  BY DEF RescueSteps, CreateSteps
<1>3. Top(t) \in CreateFrames /\ ladders \in Nat
  BY <1>1, <1>2, TopOfStack DEF StackInv, Typed
<1>4. \E f \in CreateFrames : /\ f.at \notin {"consider", "latch"} /\ f.plan = Top(t).plan
                              /\ f.attempt = Top(t).attempt /\ Become(t, f)
  <2>1. ASSUME NEW to \in CreateSteps \ {"consider", "latch"}, Goto(t, to)
        PROVE  \E f \in CreateFrames : /\ f.at \notin {"consider", "latch"}
                                       /\ f.plan = Top(t).plan
                                       /\ f.attempt = Top(t).attempt /\ Become(t, f)
    <3> DEFINE f == [Top(t) EXCEPT !.at = to]
    <3>1. /\ f \in CreateFrames /\ f.at = to /\ f.attempt = Top(t).attempt
          /\ f.plan = Top(t).plan /\ Become(t, f)
      BY <1>3, <2>1 DEF CreateFrames, Goto
    <3> QED  BY <3>1
  <2>2. CASE EngineRefuses(t) \/ EnterEngine(t) \/ LeaveEngine(t)
    <3>1. \E to \in {"count", "finish", "evicting"} : Goto(t, to)
      BY <2>2 DEF EngineRefuses, EnterEngine, LeaveEngine, Counts
    <3> QED  BY <2>1, <3>1 DEF CreateSteps
  <2>3. CASE LoadLadders(t)
    <3> DEFINE f == [Top(t) EXCEPT !.at = "store", !.counted = ladders]
    <3>1. /\ f \in CreateFrames /\ f.at = "store" /\ f.attempt = Top(t).attempt
          /\ f.plan = Top(t).plan
      BY <1>3 DEF CreateFrames, CreateSteps
    <3>2. Become(t, f)
      BY <2>3 DEF LoadLadders
    <3> QED  BY <3>1, <3>2
  <2>4. CASE StoreLadders(t)
    <3> DEFINE f == [Top(t) EXCEPT !.at = "finish", !.counted = 0]
    <3>1. /\ f \in CreateFrames /\ f.at = "finish" /\ f.attempt = Top(t).attempt
          /\ f.plan = Top(t).plan
      BY <1>3 DEF CreateFrames, CreateSteps
    <3>2. Become(t, f)
      BY <2>4 DEF StoreLadders
    <3> QED  BY <3>1, <3>2
  <2>5. CASE Finish(t)
    <3> DEFINE f == [Top(t) EXCEPT !.at = "driver", !.readAt = 0]
    <3>1. /\ f \in CreateFrames /\ f.at = "driver" /\ f.attempt = Top(t).attempt
          /\ f.plan = Top(t).plan
      BY <1>3 DEF CreateFrames, CreateSteps
    <3>2. Become(t, f)
      BY <2>5 DEF Finish
    <3> QED  BY <3>1, <3>2
  <2> QED  BY <2>2, <2>3, <2>4, <2>5 DEF Execute
<1> QED  BY <1>1, <1>2, <1>4, MoveKeepsRung

LEMMA DriverKeepsRungs ==
  ASSUME StackInv, RungsKept, NEW t \in Threads, DriverCreates(t) \/ DriverFails(t)
  PROVE  RungsKept'
<1>1. Typed /\ At(t, "driver") /\ stack[t] /= <<>> /\ Top(t) \in CreateFrames
  BY TopOfStack DEF DriverCreates, DriverFails, CreateSteps, StackInv
<1>2. CASE Pop(t)
  BY <1>1, <1>2, TopKeepsRungs
<1>3. CASE DriverFails(t) /\ Top(t).attempt < 3
  <2> DEFINE f == [Top(t) EXCEPT !.at = "consider", !.attempt = @ + 1]
  <2>1. OnItsRung(Top(t)) /\ Top(t).at = "driver" /\ Top(t).attempt \in 0..3
    <3>1. stack[t] \in Seq(Frames) /\ Top(t) = stack[t][Len(stack[t])] /\ Top(t).at = "driver"
      BY <1>1, TopOfStack
    <3> QED  BY <1>1, <3>1 DEF RungsKept, AllOnTheirRungs, CreateFrames
  <2>2. /\ f \in Frames /\ f.at = "consider" /\ f.attempt = Top(t).attempt + 1
        /\ f.plan = Top(t).plan
    <3>1. Top(t).attempt + 1 \in 0..3
      BY <1>3, <2>1
    <3> QED  BY <1>1, <3>1 DEF CreateFrames, CreateSteps, Frames
  <2>3. Become(t, f)
    BY <1>3 DEF DriverFails
  <2> HIDE DEF f
  <2>4. OnItsRung(f)
    <3>1. Top(t).attempt > 0 => Rung(Top(t).plan, Top(t).attempt)
      BY <2>1 DEF OnItsRung, CreateSteps
    <3>2. f.attempt - 1 = Top(t).attempt
      BY <2>1, <2>2
    <3> QED  BY <2>1, <2>2, <3>1, <3>2 DEF OnItsRung
  <2> QED  BY <1>1, <2>2, <2>3, <2>4, TopKeepsRungs
<1> QED  BY <1>2, <1>3 DEF DriverCreates, DriverFails

LEMMA OutsideKeepsRungs ==
  ASSUME StackInv, RungsKept, NEW t \in Threads, Outside(t)
  PROVE  RungsKept'
<1>0. Typed
  BY DEF StackInv
<1>1. CASE CreateTexture(t)
  <2>1. PICK size \in Sizes : Push(t, Create(size))
    BY <1>1 DEF CreateTexture
  <2>2. Create(size) \in Frames /\ Create(size).at = "consider" /\ Create(size).attempt = 0
    <3>1. Idle \in Plans
      BY ConfigAssumption DEF Idle, Plans, Actions
    <3> QED  BY <3>1 DEF Create, Frames, CreateFrames, CreateSteps
  <2>3. OnItsRung(Create(size))
    BY <2>2 DEF OnItsRung
  <2> QED  BY <1>0, <2>1, <2>2, <2>3, TopKeepsRungs
<1>2. CASE EngineCall(t) \/ BeginReset(t)
  <2>1. PICK at \in {"engine", "reset"}, engaged \in BOOLEAN : Push(t, Outer(at, engaged))
    BY <1>2 DEF EngineCall, BeginReset
  <2>2. Outer(at, engaged) \in Frames /\ OnItsRung(Outer(at, engaged))
    BY DEF Outer, Frames, OuterFrames, OnItsRung, CreateSteps
  <2> QED  BY <1>0, <2>1, <2>2, TopKeepsRungs
<1>3. CASE EngineReturns(t) \/ EndReset(t)
  <2>1. Pop(t) /\ stack[t] /= <<>>
    BY <1>3, TopOfStack DEF EngineReturns, EndReset
  <2> QED  BY <1>0, <2>1, TopKeepsRungs
<1> QED  BY <1>1, <1>2, <1>3 DEF Outside

LEMMA RungsKeptHold == Spec => []RungsKept
<1>1. Init => RungsKept
  BY DEF Init, RungsKept, AllOnTheirRungs
<1>2. StackInv /\ RungsKept /\ [Next]_vars => RungsKept'
  <2> SUFFICES ASSUME StackInv, RungsKept, [Next]_vars PROVE RungsKept'
    OBVIOUS
  <2>1. CASE Tick \/ UNCHANGED vars
    BY <2>1 DEF Tick, vars, RungsKept
  <2>2. ASSUME NEW t \in Threads, Progress(t) \/ Outside(t) PROVE RungsKept'
    BY <2>2, ConsiderKeepsRungs, ExecuteKeepsRungs, DriverKeepsRungs, OutsideKeepsRungs
       DEF Progress
  <2> QED  BY <2>1, <2>2 DEF Next
<1> QED  BY <1>1, <1>2, StackInvHolds, PTL DEF Spec

(* The one thing the configuration must give: the second rung asks for     *)
(* managed resources too, or for more than the first. It does by default;  *)
(* with both batches at evict_batch_max the second rung repeats the first. *)
WiderSecondRung == Config.evictManaged \/ BatchFor(1) < BatchFor(2)

(* Whatever happens between two failures of a create, what it asks for     *)
(* after the later one is stronger than what it asked for after the earlier*)
(* (plan_escalation).                                                      *)
THEOREM EveryRetryEscalates == ASSUME WiderSecondRung PROVE Spec => RetriesEscalate
<1>1. ASSUME StackInv, RungsKept, NEW t \in Threads, Read(t), Top(t).attempt >= 2,
             Acts(stack'[t][Depth(t)].plan)
      PROVE  Weaker(Top(t).plan, stack'[t][Depth(t)].plan)
  <2>1. PICK free \in FreeBlocks, pending \in 0..1 :
          Become(t, [Top(t) EXCEPT !.at = "latch", !.readAt = now,
                                   !.plan = Plan(Inputs(t, free, pending))])
    BY <1>1 DEF Read
  <2> DEFINE s == stack[t]
             in == Inputs(t, free, pending)
             f == [Top(t) EXCEPT !.at = "latch", !.readAt = now, !.plan = Plan(in)]
  <2>2. /\ s \in Seq(Frames) /\ s /= <<>> /\ Top(t) = s[Len(s)] /\ Top(t).at = "consider"
        /\ Top(t) \in CreateFrames
    BY <1>1, TopOfStack DEF Read, Asks, CreateSteps
  <2>3. Plan(in) \in Plans /\ now \in Nat
    BY <1>1, PlanTyped DEF StackInv, Typed
  <2>4. f \in Frames /\ f.plan = Plan(in)
    <3> HIDE DEF in
    <3> QED  BY <2>2, <2>3 DEF CreateFrames, CreateSteps, Frames
  <2>5. stack'[t][Depth(t)].plan = Plan(in)
    <3>1. stack'[t] = [s EXCEPT ![Len(s)] = f]
      BY <1>1, <2>1 DEF Become, StackInv, Typed
    <3> HIDE DEF s, f, in
    <3>2. stack'[t][Len(s)] = f
      BY <2>2, <2>4, <3>1, ReplacedFrames
    <3> QED  BY <2>4, <3>2 DEF Depth, s
  <2>6. in.attempt = Top(t).attempt /\ Top(t).attempt \in 2..3
    BY <1>1, <2>2 DEF Inputs, CreateFrames
  <2>7. Rung(Plan(in), Top(t).attempt)
    <3>1. Plan(in) = Escalate(in)
      BY <2>6 DEF Plan
    <3> HIDE DEF in
    <3> QED  BY <1>1, <2>5, <2>6, <3>1, EscalateRung
  <2>8. Rung(Top(t).plan, Top(t).attempt - 1)
    <3>1. OnItsRung(Top(t))
      BY <1>1, <2>2 DEF RungsKept, AllOnTheirRungs
    <3> QED  BY <2>2, <2>6, <3>1 DEF OnItsRung, CreateSteps
  <2> HIDE DEF in
  <2>9. Weaker(Top(t).plan, Plan(in))
    <3>1. Strength("evict_cache") = 1 /\ Strength("evict_cache_and_managed") = 2
          /\ Strength("clear_cache_and_managed") = 4
      BY DEF Strength
    <3> QED  BY <2>6, <2>7, <2>8, <3>1 DEF Rung, Weaker, WiderSecondRung
  <2> QED  BY <2>5, <2>9
<1>2. StackInv /\ RungsKept =>
        [\A t \in Threads :
           Read(t) /\ Top(t).attempt >= 2 /\ Acts(stack'[t][Depth(t)].plan)
             => Weaker(Top(t).plan, stack'[t][Depth(t)].plan)]_vars
  BY <1>1
<1> QED  BY <1>2, StackInvHolds, RungsKeptHold, PTL DEF RetriesEscalate

-----------------------------------------------------------------------------
(* A create comes nearer to its end with every step of its own             *)

(* How many steps a create has before it, at most, until it returns: what  *)
(* is left of the present attempt, and eight for each further one. The     *)
(* engine's own calls inside a rescue are not steps of the create.         *)
Place == [driver |-> 1, finish |-> 2, store |-> 3, count |-> 4, evicting |-> 5,
          execute |-> 6, latch |-> 7, consider |-> 8]
StepsLeft(f) == (3 - f.attempt) * 8 + Place[f.at]

(* A step of the coordinator, of its adapter or of the retry loop brings   *)
(* the innermost create nearer to its end or ends it, and nothing else     *)
(* that happens on any thread puts a create back.                          *)
CreatesAdvance ==
  [][\A t \in Threads :
       /\ Progress(t) => \/ Len(stack'[t]) < Len(stack[t])
                         \/ StepsLeft(stack'[t][Depth(t)]) < StepsLeft(Top(t))
       /\ \A i \in 1..Depth(t) :
            stack[t][i].at \in CreateSteps /\ i <= Len(stack'[t]) =>
              \/ stack'[t][i] = stack[t][i]
              \/ /\ i = Depth(t) /\ stack'[t][i].at \in CreateSteps
                 /\ StepsLeft(stack'[t][i]) < StepsLeft(stack[t][i])]_vars

LEMMA PlacesAre ==
  ASSUME NEW f \in CreateFrames
  PROVE  Place[f.at] \in 1..8 /\ f.attempt \in 0..3 /\ f.at \in CreateSteps
BY DEF CreateFrames, CreateSteps, Place

LEMMA Nearer ==
  ASSUME NEW f \in CreateFrames, NEW g \in CreateFrames,
         \/ g.attempt = f.attempt /\ Place[g.at] < Place[f.at]
         \/ g.attempt = f.attempt + 1
  PROVE  StepsLeft(g) < StepsLeft(f)
BY PlacesAre DEF StepsLeft

(* There are never more than 32 of them and a create has one at least.     *)
LEMMA StepsBounded ==
  ASSUME NEW f \in CreateFrames
  PROVE  StepsLeft(f) \in 1..32
BY PlacesAre DEF StepsLeft

(* A create goes on to a later place of the same attempt, fails once more, *)
(* or returns.                                                             *)
LEMMA CreateAdvances ==
  ASSUME StackInv, NEW t \in Threads, Progress(t)
  PROVE  /\ stack[t] /= <<>> /\ Top(t) \in CreateFrames
         /\ Pop(t) \/ \E f \in CreateFrames : Become(t, f) /\ StepsLeft(f) < StepsLeft(Top(t))
<1>1. PICK at \in CreateSteps : At(t, at)
  BY DEF Progress, Consider, SkipInReset, Suppress, Read, Asks, Latch, Execute, EngineRefuses, EnterEngine,
         LeaveEngine, LoadLadders, StoreLadders, Finish, DriverCreates, DriverFails, CreateSteps
<1>2. /\ stack[t] /= <<>> /\ Top(t) \in CreateFrames /\ Top(t).at = at
      /\ ladders \in Nat /\ now \in Nat
  BY <1>1, TopOfStack DEF CreateSteps, StackInv, Typed
<1>3. ASSUME NEW to \in CreateSteps, Place[to] < Place[at], Goto(t, to)
      PROVE  \E f \in CreateFrames : Become(t, f) /\ StepsLeft(f) < StepsLeft(Top(t))
  <2> DEFINE f == [Top(t) EXCEPT !.at = to]
  <2>1. f \in CreateFrames /\ f.at = to /\ f.attempt = Top(t).attempt /\ Become(t, f)
    BY <1>2, <1>3 DEF CreateFrames, Goto
  <2> HIDE DEF f
  <2>2. StepsLeft(f) < StepsLeft(Top(t))
    BY <1>2, <1>3, <2>1, Nearer
  <2> QED  BY <2>1, <2>2
<1>4. ASSUME GoOnUnaided(t), at \in {"consider", "latch"}
      PROVE  Pop(t) \/ (Goto(t, "driver") /\ Place["driver"] < Place[at])
  BY <1>4 DEF GoOnUnaided, Place
<1>5. CASE SkipInReset(t) \/ Suppress(t)
  <2>1. at = "consider"
    BY <1>2, <1>5, TopOfStack DEF SkipInReset, Suppress, Asks
  <2>2. Pop(t) \/ (Goto(t, "driver") /\ Place["driver"] < Place[at])
    BY <1>4, <1>5, <2>1 DEF SkipInReset, Suppress, Place
  <2> QED  BY <1>2, <1>3, <2>2 DEF CreateSteps
<1>6. CASE Read(t)
  <2>1. PICK free \in FreeBlocks, pending \in 0..1 :
          Become(t, [Top(t) EXCEPT !.at = "latch", !.readAt = now,
                                   !.plan = Plan(Inputs(t, free, pending))])
    BY <1>6 DEF Read
  <2> DEFINE in == Inputs(t, free, pending)
             f == [Top(t) EXCEPT !.at = "latch", !.readAt = now, !.plan = Plan(in)]
  <2>2. Plan(in) \in Plans
    BY PlanTyped DEF StackInv
  <2>3. at = "consider"
    BY <1>2, <1>6, TopOfStack DEF Read, Asks
  <2>4. Become(t, f)
    BY <2>1
  <2> HIDE DEF in
  <2>5. f \in CreateFrames /\ f.at = "latch" /\ f.attempt = Top(t).attempt
    BY <1>2, <2>2 DEF CreateFrames, CreateSteps
  <2> HIDE DEF f
  <2>6. Place["latch"] < Place["consider"]
    BY DEF Place
  <2>7. StepsLeft(f) < StepsLeft(Top(t))
    BY <1>2, <2>3, <2>5, <2>6, Nearer
  <2> QED  BY <1>2, <2>4, <2>5, <2>7
<1>7. CASE Latch(t)
  <2>1. at = "latch"
    BY <1>2, <1>7, TopOfStack DEF Latch
  <2>2. Pop(t) \/ \E to \in {"execute", "driver"} : Goto(t, to)
    BY <1>4, <1>7, <2>1 DEF Latch
  <2>3. "execute" \in CreateSteps /\ "driver" \in CreateSteps /\ Place["execute"] < Place["latch"]
        /\ Place["driver"] < Place["latch"]
    BY DEF Place, CreateSteps
  <2> QED  BY <1>2, <1>3, <2>1, <2>2, <2>3
<1>8. CASE EngineRefuses(t) \/ EnterEngine(t) \/ LeaveEngine(t)
  <2>1. \/ at = "execute" /\ \E to \in {"count", "finish", "evicting"} : Goto(t, to)
        \/ at = "evicting" /\ \E to \in {"count", "finish"} : Goto(t, to)
    BY <1>2, <1>8, TopOfStack DEF EngineRefuses, EnterEngine, LeaveEngine, Counts
  <2>2. /\ {"count", "finish", "evicting"} \subseteq CreateSteps
        /\ \A to \in {"count", "finish", "evicting"} : Place[to] < Place["execute"]
        /\ \A to \in {"count", "finish"} : Place[to] < Place["evicting"]
    BY DEF Place, CreateSteps
  <2> QED  BY <1>2, <1>3, <2>1, <2>2
<1>9. CASE LoadLadders(t)
  <2> DEFINE f == [Top(t) EXCEPT !.at = "store", !.counted = ladders]
  <2>1. f \in CreateFrames /\ f.at = "store" /\ f.attempt = Top(t).attempt
    BY <1>2 DEF CreateFrames, CreateSteps
  <2>2. Become(t, f) /\ Top(t).at = "count"
    BY <1>2, <1>9, TopOfStack DEF LoadLadders
  <2> HIDE DEF f
  <2>3. Place["store"] < Place["count"]
    BY DEF Place
  <2>4. StepsLeft(f) < StepsLeft(Top(t))
    BY <1>2, <2>1, <2>2, <2>3, Nearer
  <2> QED  BY <1>2, <2>1, <2>2, <2>4
<1>10. CASE StoreLadders(t)
  <2> DEFINE f == [Top(t) EXCEPT !.at = "finish", !.counted = 0]
  <2>1. f \in CreateFrames /\ f.at = "finish" /\ f.attempt = Top(t).attempt
    BY <1>2 DEF CreateFrames, CreateSteps
  <2>2. Become(t, f) /\ Top(t).at = "store"
    BY <1>2, <1>10, TopOfStack DEF StoreLadders
  <2> HIDE DEF f
  <2>3. Place["finish"] < Place["store"]
    BY DEF Place
  <2>4. StepsLeft(f) < StepsLeft(Top(t))
    BY <1>2, <2>1, <2>2, <2>3, Nearer
  <2> QED  BY <1>2, <2>1, <2>2, <2>4
<1>11. CASE Finish(t)
  <2> DEFINE f == [Top(t) EXCEPT !.at = "driver", !.readAt = 0]
  <2>1. f \in CreateFrames /\ f.at = "driver" /\ f.attempt = Top(t).attempt
    BY <1>2 DEF CreateFrames, CreateSteps
  <2>2. Become(t, f) /\ Top(t).at = "finish"
    BY <1>2, <1>11, TopOfStack DEF Finish
  <2> HIDE DEF f
  <2>3. Place["driver"] < Place["finish"]
    BY DEF Place
  <2>4. StepsLeft(f) < StepsLeft(Top(t))
    BY <1>2, <2>1, <2>2, <2>3, Nearer
  <2> QED  BY <1>2, <2>1, <2>2, <2>4
<1>12. CASE DriverFails(t) /\ Top(t).attempt < 3
  <2> DEFINE f == [Top(t) EXCEPT !.at = "consider", !.attempt = @ + 1]
  <2>1. Top(t).attempt + 1 \in 0..3
    BY <1>2, <1>12 DEF CreateFrames
  <2>2. f \in CreateFrames /\ f.attempt = Top(t).attempt + 1
    BY <1>2, <2>1 DEF CreateFrames, CreateSteps
  <2>3. Become(t, f)
    BY <1>12 DEF DriverFails
  <2> HIDE DEF f
  <2>4. StepsLeft(f) < StepsLeft(Top(t))
    BY <1>2, <2>2, Nearer
  <2> QED  BY <1>2, <2>2, <2>3, <2>4
<1>13. CASE DriverCreates(t) \/ (DriverFails(t) /\ ~(Top(t).attempt < 3))
  BY <1>2, <1>13 DEF DriverCreates, DriverFails
<1>14. \/ SkipInReset(t) \/ Suppress(t)
       \/ Read(t)
       \/ Latch(t)
       \/ EngineRefuses(t) \/ EnterEngine(t) \/ LeaveEngine(t)
       \/ LoadLadders(t)
       \/ StoreLadders(t)
       \/ Finish(t)
       \/ DriverCreates(t) \/ DriverFails(t)
  BY DEF Progress, Consider, Execute
<1> QED  BY <1>5, <1>6, <1>7, <1>8, <1>9, <1>10, <1>11, <1>12, <1>13, <1>14

(* What one step does to the stack of any thread.                          *)
LEMMA StackGoesOn ==
  ASSUME StackInv, NEW t \in Threads, NEW u \in Threads, Progress(u) \/ Outside(u)
  PROVE  \/ stack'[t] = stack[t] /\ t /= u
         \/ t = u /\ Outside(u) /\ \E f \in Frames : Push(u, f)
         \/ t = u /\ stack[u] /= <<>> /\ Pop(u)
         \/ /\ t = u /\ stack[u] /= <<>> /\ Top(u) \in CreateFrames
            /\ \E f \in CreateFrames : Become(u, f) /\ StepsLeft(f) < StepsLeft(Top(u))
<1>1. CASE Progress(u)
  <2>1. /\ stack[u] /= <<>> /\ Top(u) \in CreateFrames
        /\ Pop(u) \/ \E f \in CreateFrames : Become(u, f) /\ StepsLeft(f) < StepsLeft(Top(u))
    BY <1>1, CreateAdvances
  <2>2. \E p : stack' = [stack EXCEPT ![u] = p]
    BY <2>1 DEF Pop, Become
  <2>3. t /= u => stack'[t] = stack[t]
    BY <2>2 DEF StackInv, Typed
  <2> QED  BY <2>1, <2>3
<1>2. CASE Outside(u)
  <2>1. (\E f \in Frames : Push(u, f)) \/ (stack[u] /= <<>> /\ Pop(u))
    <3>1. CASE CreateTexture(u)
      <4>1. \A size \in Sizes : Create(size) \in Frames
        <5>1. Idle \in Plans
          BY ConfigAssumption DEF Idle, Plans, Actions
        <5> QED  BY <5>1 DEF Create, Frames, CreateFrames, CreateSteps
      <4> QED  BY <3>1, <4>1 DEF CreateTexture
    <3>2. CASE EngineCall(u) \/ BeginReset(u)
      <4>1. \A engaged \in BOOLEAN : Outer("engine", engaged) \in Frames /\ Outer("reset", engaged) \in Frames
        BY DEF Outer, Frames, OuterFrames
      <4>2. (~inHook[u]) = TRUE \/ (~inHook[u]) = FALSE
        <5>1. inHook[u] \in BOOLEAN
          BY DEF StackInv, Typed
        <5> QED  BY <5>1
      <4> QED  BY <3>2, <4>1, <4>2 DEF EngineCall, BeginReset
    <3>3. CASE EngineReturns(u) \/ EndReset(u)
      BY <3>3, TopOfStack DEF EngineReturns, EndReset
    <3> QED  BY <1>2, <3>1, <3>2, <3>3 DEF Outside
  <2>2. \E p : stack' = [stack EXCEPT ![u] = p]
    BY <2>1 DEF Pop, Push
  <2>3. t /= u => stack'[t] = stack[t]
    BY <2>2 DEF StackInv, Typed
  <2> QED  BY <1>2, <2>1, <2>3
<1> QED  BY <1>1, <1>2

(* The creates under way on a thread after a step of some thread.          *)
LEMMA NoCreateGoesBack ==
  ASSUME StackInv, NEW t \in Threads, NEW u \in Threads, Progress(u) \/ Outside(u),
         NEW i \in 1..Depth(t), stack[t][i].at \in CreateSteps, i <= Len(stack'[t])
  PROVE  \/ stack'[t][i] = stack[t][i]
         \/ /\ i = Depth(t) /\ stack'[t][i].at \in CreateSteps
            /\ StepsLeft(stack'[t][i]) < StepsLeft(stack[t][i])
<1> DEFINE s == stack[t]
<1>1. s \in Seq(Frames) /\ stack \in [Threads -> Seq(Frames)] /\ i \in 1..Len(s)
  BY DEF StackInv, Typed, Depth
<1>2. CASE stack'[t] = stack[t]
  BY <1>2
<1>3. CASE t = u /\ \E f \in Frames : Push(u, f)
  <2>1. PICK f \in Frames : Push(t, f)
    BY <1>3
  <2>2. stack'[t] = Append(s, f)
    BY <1>1, <2>1 DEF Push
  <2> HIDE DEF s
  <2>3. Append(s, f)[i] = s[i]
    BY <1>1, PushedFrames
  <2> QED  BY <2>2, <2>3 DEF s
<1>4. CASE t = u /\ stack[u] /= <<>> /\ Pop(u)
  <2>1. stack'[t] = SubSeq(s, 1, Len(s) - 1) /\ s /= <<>>
    BY <1>1, <1>4 DEF Pop
  <2>2. i <= Len(stack'[t])
    OBVIOUS
  <2> HIDE DEF s
  <2>3. stack'[t][i] = s[i]
    BY <1>1, <2>1, <2>2, PoppedFrames
  <2> QED  BY <2>3 DEF s
<1>5. CASE /\ t = u /\ stack[u] /= <<>> /\ Top(u) \in CreateFrames
           /\ \E f \in CreateFrames : Become(u, f) /\ StepsLeft(f) < StepsLeft(Top(u))
  <2>1. PICK f \in CreateFrames : Become(t, f) /\ StepsLeft(f) < StepsLeft(Top(t))
    BY <1>5
  <2>2. stack'[t] = [s EXCEPT ![Len(s)] = f] /\ s /= <<>> /\ Top(t) = s[Len(s)] /\ f \in Frames
    BY <1>1, <1>5, <2>1 DEF Become, Top, Depth, Frames
  <2>3. f.at \in CreateSteps
    BY PlacesAre
  <2> HIDE DEF s
  <2>4. (i = Len(s) => stack'[t][i] = f) /\ (i /= Len(s) => stack'[t][i] = s[i])
    BY <1>1, <2>2, ReplacedFrames
  <2>5. CASE i = Len(s)
    BY <2>1, <2>2, <2>3, <2>4, <2>5 DEF s, Depth
  <2>6. CASE i /= Len(s)
    BY <2>4, <2>6 DEF s
  <2> QED  BY <2>5, <2>6
<1> QED  BY <1>2, <1>3, <1>4, <1>5, StackGoesOn

LEMMA InnermostAdvances ==
  ASSUME StackInv, NEW t \in Threads, Progress(t)
  PROVE  \/ Len(stack'[t]) < Len(stack[t])
         \/ StepsLeft(stack'[t][Depth(t)]) < StepsLeft(Top(t))
<1> DEFINE s == stack[t]
<1>1. s \in Seq(Frames) /\ stack \in [Threads -> Seq(Frames)] /\ s /= <<>>
  BY CreateAdvances DEF StackInv, Typed
<1>2. CASE Pop(t)
  <2>1. stack'[t] = SubSeq(s, 1, Len(s) - 1)
    BY <1>1, <1>2 DEF Pop
  <2> HIDE DEF s
  <2>2. Len(stack'[t]) < Len(s)
    BY <1>1, <2>1
  <2> QED  BY <2>2 DEF s
<1>3. CASE \E f \in CreateFrames : Become(t, f) /\ StepsLeft(f) < StepsLeft(Top(t))
  <2>1. PICK f \in CreateFrames : Become(t, f) /\ StepsLeft(f) < StepsLeft(Top(t))
    BY <1>3
  <2>2. stack'[t] = [s EXCEPT ![Len(s)] = f] /\ f \in Frames
    BY <1>1, <2>1 DEF Become, Frames
  <2> HIDE DEF s
  <2>3. stack'[t][Len(s)] = f
    BY <1>1, <2>2, ReplacedFrames
  <2> QED  BY <2>1, <2>3 DEF s, Depth
<1> QED  BY <1>2, <1>3, CreateAdvances

(* The retries of a create come to an end on every thread: whatever the    *)
(* driver and the engine answer, a create has at most 32 steps of its own  *)
(* before it, each takes one away, and no call that nests in it, no other  *)
(* thread and no later create gives one back.                              *)
THEOREM CreatesOnlyAdvance == Spec => CreatesAdvance
<1> DEFINE A(t) ==
       /\ Progress(t) => \/ Len(stack'[t]) < Len(stack[t])
                         \/ StepsLeft(stack'[t][Depth(t)]) < StepsLeft(Top(t))
       /\ \A i \in 1..Depth(t) :
            stack[t][i].at \in CreateSteps /\ i <= Len(stack'[t]) =>
              \/ stack'[t][i] = stack[t][i]
              \/ /\ i = Depth(t) /\ stack'[t][i].at \in CreateSteps
                 /\ StepsLeft(stack'[t][i]) < StepsLeft(stack[t][i])
<1>1. ASSUME StackInv, Next, NEW t \in Threads
      PROVE  A(t)
  <2>1. Progress(t) => \/ Len(stack'[t]) < Len(stack[t])
                       \/ StepsLeft(stack'[t][Depth(t)]) < StepsLeft(Top(t))
    BY <1>1, InnermostAdvances
  <2>2. CASE Tick
    <3>1. stack' = stack
      BY <2>2 DEF Tick
    <3> QED  BY <2>1, <3>1
  <2>3. CASE \E u \in Threads : Progress(u) \/ Outside(u)
    <3>1. PICK u \in Threads : Progress(u) \/ Outside(u)
      BY <2>3
    <3> QED  BY <1>1, <2>1, <3>1, NoCreateGoesBack
  <2> QED  BY <1>1, <2>2, <2>3 DEF Next
<1>2. StackInv /\ [Next]_vars => [\A t \in Threads : A(t)]_vars
  BY <1>1
<1> QED  BY <1>2, StackInvHolds, PTL DEF CreatesAdvance, Spec
===============================================================================
