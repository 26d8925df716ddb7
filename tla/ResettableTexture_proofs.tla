----------------------- MODULE ResettableTexture_proofs -----------------------
(***************************************************************************)
(* Proofs about ResettableTexture, for any number of threads, levels and   *)
(* addresses.                                                              *)
(***************************************************************************)
EXTENDS ResettableTexture, FiniteSetTheorems, TLAPS

-----------------------------------------------------------------------------
(* The inductive invariant of the wrapper's life                           *)

LifeTypes ==
  /\ life \in {"unborn", "live", "dying", "freed"}
  /\ refs \in Nat
  /\ held \subseteq Threads /\ pinned \subseteq Threads
  /\ pc \in [Threads -> Steps]
  /\ task \in [Threads -> Tasks]

(* Which calls pass through which step.                                    *)
InCall(s, k) ==
  \/ s = "idle" /\ k = "none"
  \/ s \in {"enroll", "handOver"} /\ k = "create"
  \/ s \in {"check", "make", "publish", "register", "owe"}
       /\ k \in {"bind", "upload", "restore", "touch"}
  \/ s = "grab" /\ k \in {"bind", "upload", "touch"}
  \/ s \in {"take", "map", "set"} /\ k = "bind"
  \/ s = "next" /\ k \in {"bind", "upload"}
  \/ s \in {"copy", "put"} /\ k = "upload"
  \/ s = "letGo" /\ k \in {"upload", "touch"}
  \/ s = "unpin" /\ k \in {"bind", "restore", "get", "reset"}
  \/ s \in {"rewrap", "swap"} /\ k = "get"
  \/ s \in DestroySteps /\ k \in {"none", "bind", "restore", "get", "reset"}
  \/ s = "snapshot" /\ k \in {"reset", "restore"}
  \/ s \in {"detach", "erase", "freeInner", "deviceReset"} /\ k = "reset"
  \/ s \in {"markValid", "markDirty"} /\ k = "unlock"
Flow == \A t \in Threads : InCall(pc[t], task[t])

(* The count is the number of owners, and only a live wrapper has one.     *)
CountsOwners == refs = Cardinality(held) + Cardinality(pinned)
LiveWhileOwned == life = "live" <=> refs > 0

(* A thread owns a reference of its own from Pin to Unpin.                 *)
InnerSteps == {"check", "make", "publish", "register", "owe", "take", "map",
               "next", "grab", "copy", "put", "letGo"}
PinSteps   == {"unpin", "swap", "detach", "erase", "freeInner"}
PinTasks   == {"bind", "upload", "restore"}
PinnedWhileInside ==
  \A t \in Threads :
    t \in pinned <=> pc[t] \in PinSteps \/ (pc[t] \in InnerSteps /\ task[t] \in PinTasks)

(* The calls that take no reference of their own rely on the caller's.     *)
HeldWhileInside ==
  \A t \in Threads :
    task[t] \in {"create", "touch", "unlock"} \/ pc[t] = "rewrap" => t \in held

OneDestroyer ==
  \A t \in Threads : pc[t] \in DestroySteps =>
    life = "dying" /\ \A u \in Threads \ {t} : pc[u] \notin DestroySteps

LifeInv == /\ LifeTypes /\ Flow
           /\ CountsOwners /\ LiveWhileOwned
           /\ PinnedWhileInside /\ HeldWhileInside /\ OneDestroyer

-----------------------------------------------------------------------------
(* The wrapper's life                                                      *)

(* A thread that is at step s of call k and has the reference it needs.    *)
Entitled(t, s, k) ==
  /\ InCall(s, k)
  /\ t \in pinned <=> s \in PinSteps \/ (s \in InnerSteps /\ k \in PinTasks)
  /\ k \in {"create", "touch", "unlock"} \/ s = "rewrap" => t \in held

(* A step that leaves the references alone and moves one thread to a place *)
(* it is entitled to preserves the invariant of the wrapper's life.        *)
LEMMA QuietStep ==
  ASSUME LifeInv, NEW t \in Threads, NEW to \in Steps \ DestroySteps, NEW k \in Tasks,
         MoveTo(t, to, k), UNCHANGED lifeVars,
         Entitled(t, to, IF to = "idle" THEN "none" ELSE k)
  PROVE  LifeInv'
<1> DEFINE k2 == IF to = "idle" THEN "none" ELSE k
<1>1. /\ pc' = [pc EXCEPT ![t] = to] /\ task' = [task EXCEPT ![t] = k2]
      /\ k2 \in Tasks
  BY DEF MoveTo, Tasks
<1>2. LifeTypes'
  BY <1>1 DEF LifeInv, LifeTypes, lifeVars
<1>3. \A u \in Threads : /\ pc'[u] = IF u = t THEN to ELSE pc[u]
                         /\ task'[u] = IF u = t THEN k2 ELSE task[u]
  BY <1>1 DEF LifeInv, LifeTypes
<1>4. Flow'
  BY <1>3 DEF LifeInv, Flow, Entitled
<1>5. CountsOwners' /\ LiveWhileOwned'
  BY DEF LifeInv, CountsOwners, LiveWhileOwned, lifeVars
<1>6. PinnedWhileInside'
  BY <1>3 DEF LifeInv, PinnedWhileInside, Entitled, lifeVars
<1>7. HeldWhileInside'
  BY <1>3 DEF LifeInv, HeldWhileInside, Entitled, lifeVars
<1>8. OneDestroyer'
  BY <1>3 DEF LifeInv, OneDestroyer, lifeVars
<1>9. QED BY <1>2, <1>4, <1>5, <1>6, <1>7, <1>8 DEF LifeInv

(* What the invariant says of one thread.                                  *)
LEMMA ThreadFacts ==
  ASSUME LifeInv, NEW t \in Threads
  PROVE  /\ pc[t] \in Steps /\ task[t] \in Tasks
         /\ Entitled(t, pc[t], task[t])
BY DEF LifeInv, LifeTypes, Flow, PinnedWhileInside, HeldWhileInside, Entitled

(* The counts of owners are numbers, and an owner makes the count positive.*)
LEMMA OwnersCounted ==
  ASSUME LifeInv
  PROVE  /\ IsFiniteSet(held) /\ IsFiniteSet(pinned)
         /\ Cardinality(held) \in Nat /\ Cardinality(pinned) \in Nat
         /\ \A t \in Threads : t \in held \/ t \in pinned => refs > 0 /\ life = "live"
<1>1. IsFiniteSet(held) /\ IsFiniteSet(pinned)
  BY FS_Subset, ThreadsAssumption DEF LifeInv, LifeTypes
<1>2. Cardinality(held) \in Nat /\ Cardinality(pinned) \in Nat
  BY <1>1, FS_CardinalityType
<1>3. /\ held /= {} => Cardinality(held) > 0
      /\ pinned /= {} => Cardinality(pinned) > 0
  BY <1>1, <1>2, FS_EmptySet
<1>4. QED BY <1>1, <1>2, <1>3 DEF LifeInv, CountsOwners, LiveWhileOwned

(* The steps between two uses of the wrapper's count.                      *)
LEMMA EnsureKeepsLife ==
  ASSUME LifeInv, NEW t \in Threads, EnsureInner(t)
  PROVE  LifeInv'
<1> USE ThreadFacts, QuietStep
<1> USE DEF Entitled, InCall, Steps, Tasks, DestroySteps, InnerSteps, PinSteps, PinTasks,
            Goto, AfterEnsure, AfterNoInner
<1>1. CASE Check(t)        BY <1>1 DEF Check
<1>2. CASE MakeFails(t)    BY <1>2 DEF MakeFails
<1>3. CASE Make(t)         BY <1>3 DEF Make
<1>4. CASE PublishLoses(t) BY <1>4 DEF PublishLoses
<1>5. CASE Publish(t)      BY <1>5 DEF Publish
<1>6. CASE Register(t)     BY <1>6 DEF Register
<1>7. CASE Owe(t)          BY <1>7 DEF Owe
<1>8. QED BY <1>1, <1>2, <1>3, <1>4, <1>5, <1>6, <1>7 DEF EnsureInner

LEMMA FlushKeepsLife ==
  ASSUME LifeInv, NEW t \in Threads, Flush(t)
  PROVE  LifeInv'
<1> USE ThreadFacts, QuietStep
<1> USE DEF Entitled, InCall, Steps, Tasks, DestroySteps, InnerSteps, PinSteps, PinTasks,
            Goto, AfterNoInner
<1>1. CASE Take(t)         BY <1>1 DEF Take
<1>2. CASE MapFails(t)     BY <1>2 DEF MapFails
<1>3. CASE MapSection(t)   BY <1>3 DEF MapSection
<1>4. CASE NextLevel(t)    BY <1>4 DEF NextLevel
<1>5. CASE NoMoreLevels(t) BY <1>5 DEF NoMoreLevels
<1>6. CASE Grab(t)         BY <1>6 DEF Grab
<1>7. CASE GrabNothing(t)  BY <1>7 DEF GrabNothing
<1>8. CASE Copy(t)         BY <1>8 DEF Copy
<1>9. CASE Put(t)          BY <1>9 DEF Put
<1>10. CASE UploadFails(t) BY <1>10 DEF UploadFails
<1>11. CASE LetGo(t)       BY <1>11 DEF LetGo
<1>12. QED
  BY <1>1, <1>2, <1>3, <1>4, <1>5, <1>6, <1>7, <1>8, <1>9, <1>10, <1>11 DEF Flush

(* try_add_ref and its kin: one more owner, of a count that was not zero.  *)
LEMMA PinStep ==
  ASSUME LifeInv, NEW t \in Threads, NEW to \in Steps, NEW k \in Tasks,
         refs > 0, t \notin pinned, Pin(t), MoveTo(t, to, k), InCall(to, k),
         to \in {"check", "detach", "swap"}, k \in PinTasks \cup {"get", "reset"}
  PROVE  LifeInv'
<1>1. /\ pc' = [pc EXCEPT ![t] = to] /\ task' = [task EXCEPT ![t] = k]
      /\ pinned' = pinned \cup {t} /\ held' = held /\ life' = life /\ refs' = refs + 1
  BY DEF MoveTo, Pin
<1>2. LifeTypes'
  BY <1>1 DEF LifeInv, LifeTypes
<1>3. \A u \in Threads : /\ pc'[u] = IF u = t THEN to ELSE pc[u]
                         /\ task'[u] = IF u = t THEN k ELSE task[u]
                         /\ u \in pinned' <=> u \in pinned \/ u = t
  BY <1>1 DEF LifeInv, LifeTypes
<1>4. Flow'
  BY <1>3 DEF LifeInv, Flow
<1>5. Cardinality(pinned') = Cardinality(pinned) + 1
  BY <1>1, OwnersCounted, FS_AddElement
<1>6. CountsOwners'
  BY <1>1, <1>5, OwnersCounted DEF LifeInv, CountsOwners
<1>7. LiveWhileOwned'
  BY <1>1 DEF LifeInv, LifeTypes, LiveWhileOwned
<1>8. PinnedWhileInside'
  BY <1>3 DEF LifeInv, PinnedWhileInside, PinSteps, InnerSteps, PinTasks, InCall,
               DestroySteps
<1>9. HeldWhileInside'
  BY <1>1, <1>3 DEF LifeInv, HeldWhileInside, PinTasks
<1>10. OneDestroyer'
  BY <1>1, <1>3 DEF LifeInv, OneDestroyer, DestroySteps
<1>11. QED BY <1>2, <1>4, <1>6, <1>7, <1>8, <1>9, <1>10 DEF LifeInv

(* Release by an owner: one owner less, and a destructor if it was the     *)
(* last one.                                                               *)
LEMMA DropStep ==
  ASSUME LifeInv, NEW t \in Threads, NEW after \in Steps \ DestroySteps,
         refs > 0, DropReference(t, after),
         task[t] \in {"none", "bind", "restore", "get", "reset"},
         after \notin PinSteps \cup InnerSteps \cup {"rewrap"},
         InCall(after, IF after = "idle" THEN "none" ELSE task[t]),
         held' \subseteq held, pinned' = pinned \ {t},
         \A u \in Threads \ {t} : u \in held' <=> u \in held,
         Cardinality(held') + Cardinality(pinned') = refs - 1
  PROVE  LifeInv'
<1> DEFINE to == IF refs = 1 THEN "unregister" ELSE after
           k2 == IF to = "idle" THEN "none" ELSE task[t]
<1>1. /\ pc' = [pc EXCEPT ![t] = to] /\ task' = [task EXCEPT ![t] = k2]
      /\ refs' = refs - 1 /\ life' = IF refs = 1 THEN "dying" ELSE life
  BY DEF DropReference, MoveTo
<1>2. to \in Steps /\ k2 \in Tasks /\ refs \in Nat /\ refs' \in Nat
  BY <1>1 DEF LifeInv, LifeTypes, Steps, Tasks
<1>3. LifeTypes'
  BY <1>1, <1>2 DEF LifeInv, LifeTypes
<1>4. \A u \in Threads : /\ pc'[u] = IF u = t THEN to ELSE pc[u]
                         /\ task'[u] = IF u = t THEN k2 ELSE task[u]
  BY <1>1 DEF LifeInv, LifeTypes
<1>5. Flow'
  BY <1>4 DEF LifeInv, Flow, InCall, DestroySteps
<1>6. CountsOwners'
  BY <1>1 DEF CountsOwners
<1>7. life = "live"
  BY DEF LifeInv, LiveWhileOwned
<1>8. LiveWhileOwned'
  BY <1>1, <1>2, <1>7 DEF LiveWhileOwned
<1>9. PinnedWhileInside'
  BY <1>4 DEF LifeInv, PinnedWhileInside, PinSteps, InnerSteps
<1>10. HeldWhileInside'
  BY <1>4 DEF LifeInv, HeldWhileInside
<1>11. \A u \in Threads : pc[u] \notin DestroySteps
  BY <1>7 DEF LifeInv, OneDestroyer
<1>12. OneDestroyer'
  BY <1>1, <1>4, <1>11 DEF OneDestroyer, DestroySteps
<1>13. QED BY <1>3, <1>5, <1>6, <1>8, <1>9, <1>10, <1>12 DEF LifeInv

LEMMA UnpinKeepsLife ==
  ASSUME LifeInv, NEW t \in Threads, Unpin(t)
  PROVE  LifeInv'
<1>1. t \in pinned /\ task[t] \in {"bind", "restore", "get", "reset"}
  BY ThreadFacts DEF Unpin, Entitled, InCall, PinSteps, DestroySteps
<1>2. refs > 0
  BY <1>1, OwnersCounted
<1>3. Cardinality(pinned') = Cardinality(pinned) - 1
  BY <1>1, OwnersCounted, FS_RemoveElement DEF Unpin
<1>4. Cardinality(held') + Cardinality(pinned') = refs - 1
  BY <1>3, OwnersCounted DEF Unpin, LifeInv, CountsOwners
<1> DEFINE after == AfterUnpin(task[t])
<1>5. /\ after \in Steps \ DestroySteps
      /\ after \notin PinSteps \cup InnerSteps \cup {"rewrap"}
      /\ InCall(after, IF after = "idle" THEN "none" ELSE task[t])
  BY <1>1 DEF AfterUnpin, Steps, DestroySteps, PinSteps, InnerSteps, InCall
<1>6. /\ DropReference(t, after) /\ held' = held /\ pinned' = pinned \ {t}
  BY DEF Unpin
<1>7. QED
  BY <1>1, <1>2, <1>4, <1>5, <1>6, DropStep

LEMMA StageKeepsLife ==
  ASSUME LifeInv, NEW t \in Threads, Stage(t)
  PROVE  LifeInv'
<1> USE ThreadFacts DEF Entitled, InCall, Steps, Tasks, DestroySteps, InnerSteps,
                        PinSteps, PinTasks, Goto, Start
<1>1. CASE Bind(t)         BY <1>1, PinStep DEF Bind, CanPin
<1>2. CASE Unpin(t)        BY <1>2, UnpinKeepsLife
<1>3. CASE SetTexture(t)   BY <1>3, QuietStep DEF SetTexture
<1>4. CASE BindOther(t)
  BY <1>4 DEF BindOther, lifeVars, LifeInv, LifeTypes, Flow, CountsOwners, LiveWhileOwned,
              PinnedWhileInside, HeldWhileInside, OneDestroyer
<1>5. CASE GetTexture(t)   BY <1>5, QuietStep DEF GetTexture, GetRaw
<1>6. CASE Rewrap(t)
  <2>1. t \in held /\ t \notin pinned
    BY <1>6 DEF Rewrap
  <2>2. refs > 0
    BY <2>1, OwnersCounted
  <2>3. QED BY <1>6, <2>1, <2>2, PinStep DEF Rewrap
<1>7. CASE RewrapMisses(t) BY <1>7, QuietStep DEF RewrapMisses
<1>8. CASE Swap(t)         BY <1>8, QuietStep DEF Swap
<1>9. CASE Touch(t)        BY <1>9, QuietStep DEF Touch
<1>10. QED
  BY <1>1, <1>2, <1>3, <1>4, <1>5, <1>6, <1>7, <1>8, <1>9 DEF Stage

LEMMA ResetKeepsLife ==
  ASSUME LifeInv, NEW t \in Threads, Reset(t)
  PROVE  LifeInv'
<1> USE ThreadFacts DEF Entitled, InCall, Steps, Tasks, DestroySteps, InnerSteps,
                        PinSteps, PinTasks, Goto, Start, AfterUnpin
<1>1. CASE BeginReset(t)       BY <1>1, QuietStep DEF BeginReset
<1>2. CASE Snapshot(t)         BY <1>2, PinStep DEF Snapshot, CanPin
<1>3. CASE SnapshotSkips(t)    BY <1>3, QuietStep DEF SnapshotSkips
<1>4. CASE Detach(t)           BY <1>4, QuietStep DEF Detach
<1>5. CASE Erase(t)            BY <1>5, QuietStep DEF Erase
<1>6. CASE FreeInner(t)        BY <1>6, QuietStep DEF FreeInner
<1>7. CASE DeviceReset(t)      BY <1>7, QuietStep DEF DeviceReset
<1>8. CASE DeviceResetFails(t) BY <1>8, QuietStep DEF DeviceResetFails
<1>9. QED
  BY <1>1, <1>2, <1>3, <1>4, <1>5, <1>6, <1>7, <1>8 DEF Reset

LEMMA LockKeepsLife ==
  ASSUME LifeInv, NEW t \in Threads, Lock(t)
  PROVE  LifeInv'
<1> USE ThreadFacts DEF Entitled, InCall, Steps, Tasks, DestroySteps, InnerSteps,
                        PinSteps, PinTasks, Goto, Start
<1>1. ASSUME UNCHANGED <<lifeVars, pc, task>> PROVE LifeInv'
  BY <1>1 DEF lifeVars, LifeInv, LifeTypes, Flow, CountsOwners, LiveWhileOwned,
              PinnedWhileInside, HeldWhileInside, OneDestroyer
<1>2. ASSUME NEW l \in Levels, NEW mode \in {"read", "write"}, LockRect(t, l, mode)
      PROVE  LifeInv'
  BY <1>1, <1>2 DEF LockRect
<1>3. ASSUME NEW l \in Levels, UnlockReadOnly(t, l) PROVE LifeInv'
  BY <1>1, <1>3 DEF UnlockReadOnly
<1>4. ASSUME NEW l \in Levels, UnlockRect(t, l) PROVE LifeInv'
  BY <1>4, QuietStep DEF UnlockRect
<1>5. CASE MarkValid(t) BY <1>5, QuietStep DEF MarkValid
<1>6. CASE MarkDirty(t) BY <1>6, QuietStep DEF MarkDirty
<1>7. QED BY <1>2, <1>3, <1>4, <1>5, <1>6 DEF Lock

LEMMA LivesKeepsLife ==
  ASSUME LifeInv, NEW t \in Threads, Lives(t)
  PROVE  LifeInv'
<1> USE ThreadFacts DEF Entitled, InCall, Steps, Tasks, DestroySteps, InnerSteps,
                        PinSteps, PinTasks, Goto, Start
<1>1. CASE Construct(t)
  <2>1. /\ pc' = [pc EXCEPT ![t] = "enroll"] /\ task' = [task EXCEPT ![t] = "create"]
        /\ life' = "live" /\ refs' = 1 /\ held' = {t} /\ UNCHANGED pinned
    BY <1>1 DEF Construct, MoveTo
  <2>2. /\ life = "unborn" /\ refs = 0 /\ \A u \in Threads : u \notin held /\ u \notin pinned
    BY <1>1, OwnersCounted DEF Construct, LifeInv, LifeTypes, LiveWhileOwned
  <2>3. Cardinality(pinned) = 0 /\ Cardinality({t}) = 1
    <3>1. pinned = {}
      BY <2>2 DEF LifeInv, LifeTypes
    <3>2. QED BY <3>1, FS_EmptySet, FS_Singleton
  <2>4. LifeTypes'
    BY <2>1 DEF LifeInv, LifeTypes
  <2>5. \A u \in Threads : /\ pc'[u] = IF u = t THEN "enroll" ELSE pc[u]
                           /\ task'[u] = IF u = t THEN "create" ELSE task[u]
    BY <2>1 DEF LifeInv, LifeTypes
  <2>6. Flow'
    BY <2>5 DEF LifeInv, Flow
  <2>7. CountsOwners' /\ LiveWhileOwned'
    BY <2>1, <2>3 DEF CountsOwners, LiveWhileOwned
  <2>8. PinnedWhileInside'
    BY <2>1, <2>2, <2>5 DEF LifeInv, PinnedWhileInside
  <2>9. HeldWhileInside'
    BY <2>1, <2>2, <2>5 DEF LifeInv, HeldWhileInside
  <2>10. OneDestroyer'
    BY <2>2, <2>5 DEF LifeInv, OneDestroyer
  <2>11. QED BY <2>4, <2>6, <2>7, <2>8, <2>9, <2>10 DEF LifeInv
<1>2. CASE Enroll(t)   BY <1>2, QuietStep DEF Enroll
<1>3. CASE HandOver(t) BY <1>3, QuietStep DEF HandOver
<1>4. CASE Release(t)
  <2>1. refs > 0 /\ t \notin pinned /\ task[t] = "none"
    BY <1>4, OwnersCounted DEF Release
  <2>2. Cardinality(held') = Cardinality(held) - 1 /\ UNCHANGED pinned
    BY <1>4, OwnersCounted, FS_RemoveElement DEF Release
  <2>3. Cardinality(held') + Cardinality(pinned') = refs - 1
    BY <2>2, OwnersCounted DEF LifeInv, CountsOwners
  <2>4. DropReference(t, "idle") /\ held' = held \ {t} /\ pinned' = pinned \ {t}
    BY <1>4, <2>1 DEF Release
  <2>5. QED BY <2>1, <2>3, <2>4, DropStep
<1>5. CASE Unregister(t)
  <2>1. /\ pc' = [pc EXCEPT ![t] = "demolish"] /\ task' = [task EXCEPT ![t] = task[t]]
        /\ pc[t] = "unregister" /\ UNCHANGED lifeVars
    BY <1>5 DEF Unregister, MoveTo
  <2>2. \A u \in Threads : /\ pc'[u] = IF u = t THEN "demolish" ELSE pc[u]
                           /\ task'[u] = task[u]
    BY <2>1 DEF LifeInv, LifeTypes
  <2>3. LifeTypes' /\ CountsOwners' /\ LiveWhileOwned'
    BY <2>1 DEF lifeVars, LifeInv, LifeTypes, CountsOwners, LiveWhileOwned
  <2>4. Flow'
    BY <2>1, <2>2 DEF LifeInv, Flow
  <2>5. PinnedWhileInside' /\ HeldWhileInside' /\ OneDestroyer'
    BY <2>1, <2>2 DEF lifeVars, LifeInv, PinnedWhileInside, HeldWhileInside, OneDestroyer
  <2>6. QED BY <2>3, <2>4, <2>5 DEF LifeInv
<1>6. CASE Demolish(t)
  <2> DEFINE to == AfterUnpin(task[t])
  <2>1. /\ to \in Steps \ (DestroySteps \cup PinSteps \cup InnerSteps \cup {"rewrap"})
        /\ task[t] \in {"none", "bind", "restore", "get", "reset"}
        /\ InCall(to, IF to = "idle" THEN "none" ELSE task[t])
    BY <1>6 DEF Demolish, AfterUnpin
  <2>2. /\ pc' = [pc EXCEPT ![t] = to] /\ life' = "freed" /\ UNCHANGED <<refs, held, pinned>>
        /\ task' = [task EXCEPT ![t] = IF to = "idle" THEN "none" ELSE task[t]]
    BY <1>6 DEF Demolish, MoveTo
  <2>3. /\ life = "dying" /\ t \notin pinned
        /\ \A u \in Threads \ {t} : pc[u] \notin DestroySteps
    BY <1>6 DEF Demolish, LifeInv, OneDestroyer
  <2>4. \A u \in Threads : /\ pc'[u] = IF u = t THEN to ELSE pc[u]
                           /\ task'[u] = IF u # t THEN task[u]
                                         ELSE IF to = "idle" THEN "none" ELSE task[t]
    BY <2>2 DEF LifeInv, LifeTypes
  <2>5. LifeTypes'
    BY <2>1, <2>2 DEF LifeInv, LifeTypes
  <2>6. Flow'
    BY <2>1, <2>4 DEF LifeInv, Flow
  <2>7. CountsOwners' /\ LiveWhileOwned'
    BY <2>2, <2>3 DEF LifeInv, CountsOwners, LiveWhileOwned
  <2>8. PinnedWhileInside'
    BY <2>1, <2>2, <2>3, <2>4 DEF LifeInv, PinnedWhileInside
  <2>9. HeldWhileInside'
    BY <2>1, <2>2, <2>4 DEF LifeInv, HeldWhileInside
  <2>10. OneDestroyer'
    BY <2>1, <2>3, <2>4 DEF OneDestroyer
  <2>11. QED BY <2>5, <2>6, <2>7, <2>8, <2>9, <2>10 DEF LifeInv
<1>7. ASSUME NEW u \in Threads, AddRef(t, u) PROVE LifeInv'
  <2>1. /\ refs' = refs + 1 /\ held' = held \cup {u} /\ u \notin held
        /\ UNCHANGED <<life, pinned, pc, task>>
    BY <1>7 DEF AddRef
  <2>2. refs > 0 /\ life = "live"
    BY <1>7, OwnersCounted DEF AddRef
  <2>3. Cardinality(held') = Cardinality(held) + 1
    BY <2>1, OwnersCounted, FS_AddElement
  <2>4. LifeTypes' /\ Flow' /\ LiveWhileOwned'
    BY <2>1, <2>2 DEF LifeInv, LifeTypes, Flow, LiveWhileOwned
  <2>5. CountsOwners'
    BY <2>1, <2>3, OwnersCounted DEF LifeInv, CountsOwners
  <2>6. PinnedWhileInside' /\ HeldWhileInside' /\ OneDestroyer'
    BY <2>1 DEF LifeInv, PinnedWhileInside, HeldWhileInside, OneDestroyer
  <2>7. QED BY <2>4, <2>5, <2>6 DEF LifeInv
<1>8. QED BY <1>1, <1>2, <1>3, <1>4, <1>5, <1>6, <1>7 DEF Lives

LEMMA LifeInvHolds == Spec => []LifeInv
<1>1. Init => LifeInv
  <2> SUFFICES ASSUME Init PROVE LifeInv
    OBVIOUS
  <2>1. LifeTypes /\ Flow /\ LiveWhileOwned
    BY DEF Init, LifeTypes, Flow, LiveWhileOwned, Steps, Tasks, InCall
  <2>2. CountsOwners
    BY FS_EmptySet DEF Init, CountsOwners
  <2>3. PinnedWhileInside /\ HeldWhileInside /\ OneDestroyer
    BY DEF Init, PinnedWhileInside, HeldWhileInside, OneDestroyer, PinSteps, InnerSteps,
           DestroySteps
  <2>4. QED BY <2>1, <2>2, <2>3 DEF LifeInv
<1>2. LifeInv /\ [Next]_vars => LifeInv'
  <2> SUFFICES ASSUME LifeInv, [Next]_vars PROVE LifeInv'
    OBVIOUS
  <2>1. CASE UNCHANGED vars
    BY <2>1 DEF vars, lifeVars, LifeInv, LifeTypes, Flow, CountsOwners, LiveWhileOwned,
                PinnedWhileInside, HeldWhileInside, OneDestroyer
  <2>2. CASE Next
    BY <2>2, EnsureKeepsLife, FlushKeepsLife, StageKeepsLife, LockKeepsLife,
       LivesKeepsLife, ResetKeepsLife DEF Next
  <2>3. QED BY <2>1, <2>2
<1>3. QED BY <1>1, <1>2, PTL DEF Spec

(* No thread executes in a wrapper that is not alive, except the one that  *)
(* destroys it (Release, ~ResettableTexture, the walk of a reset).         *)
THEOREM WrapperStaysAlive == Spec => []WrapperAlive
<1>1. LifeInv => WrapperAlive
  <2> SUFFICES ASSUME LifeInv, NEW t \in Threads
               PROVE  /\ pc[t] \notin OutsideSteps \cup DestroySteps => life = "live"
                      /\ pc[t] \in DestroySteps =>
                           life = "dying" /\ \A u \in Threads \ {t} : pc[u] \in OutsideSteps
    BY DEF WrapperAlive
  <2>1. ASSUME NEW u \in Threads, pc[u] \notin OutsideSteps \cup DestroySteps
        PROVE  life = "live"
    <3>1. u \in pinned \/ u \in held
      BY <2>1, ThreadFacts DEF Entitled, InCall, Steps, Tasks, OutsideSteps, DestroySteps,
                               InnerSteps, PinSteps, PinTasks
    <3>2. QED BY <3>1, OwnersCounted
  <2>2. QED BY <2>1 DEF LifeInv, OneDestroyer
<1>2. QED BY <1>1, LifeInvHolds, PTL

(* A step of the model is a step of a reference-counted object, or none.   *)
LEMMA StepIsLifetimeStep ==
  ASSUME LifeInv, [Next]_vars
  PROVE  [Lifetime!Next]_(Lifetime!lifetimeVars)
<1> USE DEF Lifetime!lifetimeVars
<1>1. CASE UNCHANGED vars
  BY <1>1 DEF vars, lifeVars
<1>2. CASE Next
  <2> PICK t \in Threads :
        EnsureInner(t) \/ Flush(t) \/ Stage(t) \/ Lock(t) \/ Lives(t) \/ Reset(t)
    BY <1>2 DEF Next
  <2>1. ASSUME Pin(t), refs > 0 PROVE Lifetime!Acquire
    BY <2>1 DEF Pin, Lifetime!Acquire, LifeInv, LiveWhileOwned
  <2>2. ASSUME NEW after, DropReference(t, after), t \in held \/ t \in pinned
        PROVE  Lifetime!Drop
    <3>1. refs > 0 /\ life = "live"
      BY <2>2, OwnersCounted
    <3>2. QED BY <2>2, <3>1 DEF DropReference, Lifetime!Drop
  <2>3. CASE EnsureInner(t)
    BY <2>3 DEF EnsureInner, Check, MakeFails, Make, PublishLoses, Publish, Register, Owe,
                lifeVars
  <2>4. CASE Flush(t)
    BY <2>4 DEF Flush, Take, MapFails, MapSection, NextLevel, NoMoreLevels, Grab,
                GrabNothing, Copy, Put, UploadFails, LetGo, lifeVars
  <2>5. CASE Lock(t)
    BY <2>5 DEF Lock, LockRect, UnlockReadOnly, UnlockRect, MarkValid, MarkDirty, lifeVars
  <2>6. CASE Stage(t)
    <3>1. CASE Bind(t)
      BY <3>1, <2>1 DEF Bind, CanPin, Lifetime!Next
    <3>2. CASE Unpin(t)
      <4>1. t \in pinned
        BY <3>2, ThreadFacts DEF Unpin, Entitled, PinSteps
      <4>2. QED BY <3>2, <4>1, <2>2 DEF Unpin, Lifetime!Next
    <3>3. CASE Rewrap(t)
      <4>1. t \in held
        BY <3>3, ThreadFacts DEF Rewrap, Goto, Entitled
      <4>2. QED BY <3>3, <4>1, <2>1, OwnersCounted DEF Rewrap, Lifetime!Next
    <3>4. CASE \/ SetTexture(t) \/ BindOther(t) \/ GetTexture(t) \/ RewrapMisses(t)
               \/ Swap(t) \/ Touch(t)
      BY <3>4 DEF SetTexture, BindOther, GetTexture, GetRaw, RewrapMisses, Swap, Touch,
                  lifeVars
    <3>5. QED BY <2>6, <3>1, <3>2, <3>3, <3>4 DEF Stage
  <2>7. CASE Lives(t)
    <3>1. CASE Construct(t)
      BY <3>1 DEF Construct, Lifetime!Birth, Lifetime!Next
    <3>2. CASE Release(t)
      BY <3>2, <2>2 DEF Release, Lifetime!Next
    <3>3. CASE Demolish(t)
      BY <3>3 DEF Demolish, Goto, LifeInv, OneDestroyer, DestroySteps, Lifetime!Destroy,
                  Lifetime!Next
    <3>4. ASSUME NEW u \in Threads, AddRef(t, u) PROVE Lifetime!Next
      BY <3>4, OwnersCounted DEF AddRef, Lifetime!Acquire, Lifetime!Next
    <3>5. CASE Enroll(t) \/ HandOver(t) \/ Unregister(t)
      BY <3>5 DEF Enroll, HandOver, Unregister, lifeVars
    <3>6. QED BY <2>7, <3>1, <3>2, <3>3, <3>4, <3>5 DEF Lives
  <2>8. CASE Reset(t)
    <3>1. CASE Snapshot(t)
      BY <3>1, <2>1 DEF Snapshot, CanPin, Lifetime!Next
    <3>2. CASE \/ BeginReset(t) \/ SnapshotSkips(t) \/ Detach(t) \/ Erase(t)
               \/ FreeInner(t) \/ DeviceReset(t) \/ DeviceResetFails(t)
      BY <3>2 DEF BeginReset, SnapshotSkips, Detach, Erase, FreeInner, DeviceReset,
                  DeviceResetFails, lifeVars
    <3>3. QED BY <2>8, <3>1, <3>2 DEF Reset
  <2>9. QED BY <2>3, <2>4, <2>5, <2>6, <2>7, <2>8
<1>3. QED BY <1>1, <1>2

(* The texture implements ObjectLifetime: nothing brings a dying wrapper   *)
(* back, and one destruction follows the last reference (ref_count.h and   *)
(* every place of resettable_texture.cpp that counts references).          *)
THEOREM ImplementsLifetime == Spec => NeverResurrected
<1>1. Init => Lifetime!Init
  BY DEF Init, Lifetime!Init
<1>2. LifeInv /\ [Next]_vars => [Lifetime!Next]_(Lifetime!lifetimeVars)
  BY StepIsLifetimeStep
<1>3. QED BY <1>1, <1>2, LifeInvHolds, PTL DEF Spec, NeverResurrected, Lifetime!Spec

-----------------------------------------------------------------------------
(* The counts of the inner textures                                        *)

(* TypeOK, but for the sign of the counts, which is what has to be proved. *)
Types ==
  /\ LifeTypes
  /\ inner \in InnerOrNone /\ bound \in InnerOrNone
  /\ innerRefs \in [Inners -> Int]
  /\ mine \in [Threads -> InnerOrNone]
FlushTypes ==
  /\ registered \in BOOLEAN
  /\ byInner \subseteq Inners
  /\ fresh \in [Inners -> SUBSET Levels]
  /\ valid \subseteq Levels /\ dirty \subseteq Levels /\ dropped \subseteq Levels
  /\ view \in [Levels -> {"none", "read", "write"}]
  /\ owed \in [Threads -> SUBSET Levels]
  /\ level \in [Threads -> Nat]
  /\ current \in [Threads -> BOOLEAN]
  /\ late \in [Threads -> SUBSET Levels]

(* A thread works on an inner texture only in these steps; it has one to   *)
(* publish; and between unpinning and the end of its call only a bind      *)
(* keeps one.                                                              *)
HandSteps == {"enroll", "handOver", "publish", "register", "owe", "copy", "put",
              "letGo", "unpin", "set", "rewrap", "swap", "unregister", "demolish",
              "erase", "freeInner"}
MayHold(s, k, m) ==
  /\ s \notin HandSteps => m = NoInner
  /\ s \in {"publish", "enroll", "copy", "put", "rewrap", "register"} => m \in Inners
  /\ k /= "bind" /\ s \in {"unpin", "unregister", "demolish"} => m = NoInner
Hands == \A t \in Threads : MayHold(pc[t], task[t], mine[t])

UnbornHasNone == life = "unborn" => inner = NoInner

CountInv == Types /\ InnerAccounted /\ Hands /\ UnbornHasNone

(* What thread t contributes to the count of i at step s with m in hand.   *)
Carries(s, m, i) == IF m = i /\ s \notin {"register", "owe"} THEN 1 ELSE 0

(* A step of one thread changes the number of carriers by its own change.  *)
LEMMA CarriersStep ==
  ASSUME Types, NEW t \in Threads, NEW s \in Steps, NEW m \in InnerOrNone,
         pc' = [pc EXCEPT ![t] = s], mine' = [mine EXCEPT ![t] = m], NEW i \in Inners
  PROVE  /\ Cardinality(Carriers(i)) \in Nat
         /\ Cardinality(Carriers(i)') =
              Cardinality(Carriers(i)) - Carries(pc[t], mine[t], i) + Carries(s, m, i)
<1> DEFINE rest == Carriers(i) \ {t}
<1>1. IsFiniteSet(Carriers(i)) /\ IsFiniteSet(rest)
  BY FS_Subset, ThreadsAssumption DEF Carriers
<1>2. Cardinality(Carriers(i)) \in Nat /\ Cardinality(rest) \in Nat
  BY <1>1, FS_CardinalityType
<1>3. \A u \in Threads : /\ pc'[u] = IF u = t THEN s ELSE pc[u]
                         /\ mine'[u] = IF u = t THEN m ELSE mine[u]
  BY DEF Types, LifeTypes
<1>4. Carriers(i) = IF mine[t] = i /\ pc[t] \notin {"register", "owe"}
                    THEN rest \cup {t} ELSE rest
  BY DEF Carriers
<1>5. Carriers(i)' = IF m = i /\ s \notin {"register", "owe"} THEN rest \cup {t} ELSE rest
  BY <1>3 DEF Carriers
<1>6. Cardinality(rest \cup {t}) = Cardinality(rest) + 1
  BY <1>1, FS_AddElement
<1>7. Cardinality(Carriers(i)) = Cardinality(rest) + Carries(pc[t], mine[t], i)
  BY <1>2, <1>4, <1>6 DEF Carries
<1>8. Cardinality(Carriers(i)') = Cardinality(rest) + Carries(s, m, i)
  BY <1>2, <1>5, <1>6 DEF Carries
<1>9. Carries(s, m, i) \in Nat /\ Carries(pc[t], mine[t], i) \in Nat
  BY DEF Carries
<1> HIDE DEF rest
<1>10. QED BY <1>2, <1>7, <1>8, <1>9

(* Thread t is at step s with m in hand, and the counts, inner_ and what   *)
(* the device holds have changed in keeping with that.                     *)
Settles(t, s, m) ==
  /\ mine' = [mine EXCEPT ![t] = m]
  /\ inner' \in InnerOrNone /\ bound' \in InnerOrNone
  /\ innerRefs' \in [Inners -> Int]
  /\ \A i \in Inners :
       innerRefs'[i] + Ones(inner = i) + Ones(bound = i) + Carries(pc[t], mine[t], i)
         = innerRefs[i] + Ones(inner' = i) + Ones(bound' = i) + Carries(s, m, i)

(* A step of one thread that settles every count it touches.               *)
LEMMA SettledStep ==
  ASSUME CountInv, LifeTypes', NEW t \in Threads, NEW s \in Steps, NEW k \in Tasks,
         NEW m \in InnerOrNone,
         MoveTo(t, s, k), Settles(t, s, m),
         MayHold(s, IF s = "idle" THEN "none" ELSE k, m),
         life' = "unborn" => life = "unborn" /\ UNCHANGED inner
  PROVE  CountInv'
<1> DEFINE k2 == IF s = "idle" THEN "none" ELSE k
<1>1. /\ pc' = [pc EXCEPT ![t] = s] /\ task' = [task EXCEPT ![t] = k2]
      /\ mine' = [mine EXCEPT ![t] = m]
  BY DEF MoveTo, Settles
<1>2. Types'
  BY <1>1 DEF CountInv, Types, Settles
<1>3. InnerAccounted'
  <2> SUFFICES ASSUME NEW i \in Inners
               PROVE  innerRefs'[i] = Ones(inner' = i) + Ones(bound' = i)
                                        + Cardinality(Carriers(i)')
    BY DEF InnerAccounted
  <2> DEFINE x == Ones(inner = i)   x2 == Ones(inner' = i)
             y == Ones(bound = i)   y2 == Ones(bound' = i)
             z == Carries(pc[t], mine[t], i)   z2 == Carries(s, m, i)
             n == Cardinality(Carriers(i))     n2 == Cardinality(Carriers(i)')
             r == innerRefs[i]                 r2 == innerRefs'[i]
  <2>1. r = x + y + n
    BY DEF CountInv, InnerAccounted
  <2>2. r2 + x + y + z = r + x2 + y2 + z2
    BY DEF Settles
  <2>3. n \in Nat /\ n2 = n - z + z2
    BY <1>1, CarriersStep DEF CountInv
  <2>4. r \in Int /\ r2 \in Int
    BY <1>2 DEF CountInv, Types
  <2>5. x \in Nat /\ y \in Nat /\ z \in Nat /\ x2 \in Nat /\ y2 \in Nat /\ z2 \in Nat
    BY DEF Ones, Carries
  <2>6. r2 = x2 + y2 + n2
    <3> HIDE DEF x, y, z, n, r, x2, y2, z2, n2, r2
    <3> QED BY <2>1, <2>2, <2>3, <2>4, <2>5
  <2>7. QED BY <2>6
<1>4. \A u \in Threads : /\ pc'[u] = IF u = t THEN s ELSE pc[u]
                         /\ task'[u] = IF u = t THEN k2 ELSE task[u]
                         /\ mine'[u] = IF u = t THEN m ELSE mine[u]
  BY <1>1 DEF CountInv, Types, LifeTypes
<1>5. Hands'
  BY <1>4 DEF CountInv, Hands
<1>6. UnbornHasNone'
  BY DEF CountInv, UnbornHasNone
<1>7. QED BY <1>2, <1>3, <1>5, <1>6 DEF CountInv

LEMMA HandFacts ==
  ASSUME CountInv, LifeInv, NEW t \in Threads
  PROVE  /\ pc[t] \in Steps /\ task[t] \in Tasks /\ mine[t] \in InnerOrNone
         /\ InCall(pc[t], task[t]) /\ MayHold(pc[t], task[t], mine[t])
         /\ pc[t] \in InnerSteps => life = "live"
BY ThreadFacts, OwnersCounted
   DEF CountInv, Types, Hands, Entitled, InCall, InnerSteps, PinTasks, DestroySteps

Untouched == UNCHANGED <<inner, bound, innerRefs>>

(* Nothing changes hands: the thread only moves on.                        *)
LEMMA NothingSettled ==
  ASSUME CountInv, NEW t \in Threads, NEW s, Untouched, UNCHANGED mine,
         pc[t] \in {"register", "owe"} <=> s \in {"register", "owe"}
  PROVE  Settles(t, s, mine[t]) /\ mine[t] \in InnerOrNone
BY DEF Settles, Untouched, CountInv, Types, Carries, Ones

(* The thread releases what it has in hand.                                *)
LEMMA GivingUpSettles ==
  ASSUME CountInv, NEW t \in Threads, NEW s,
         UNCHANGED <<inner, bound>>, innerRefs' = Released(mine[t]),
         mine' = [mine EXCEPT ![t] = NoInner],
         pc[t] \notin {"register", "owe"}
  PROVE  Settles(t, s, NoInner)
<1>1. innerRefs' \in [Inners -> Int] /\ mine[t] \in InnerOrNone
  BY DEF CountInv, Types, Released, InnerOrNone
<1>2. ASSUME NEW i \in Inners
      PROVE  innerRefs'[i] + Carries(pc[t], mine[t], i) = innerRefs[i] + Carries(s, NoInner, i)
  BY <1>1, <1>2, InnersAssumption DEF CountInv, Types, Released, Carries, InnerOrNone
<1>3. QED
  BY <1>1, <1>2 DEF Settles, CountInv, Types, Ones, Carries

(* The thread takes a reference with empty hands.                          *)
LEMMA TakingUpSettles ==
  ASSUME CountInv, NEW t \in Threads, NEW s, NEW i \in Inners,
         UNCHANGED <<inner, bound>>, mine[t] = NoInner,
         innerRefs' = [innerRefs EXCEPT ![i] = @ + 1],
         mine' = [mine EXCEPT ![t] = i],
         s \notin {"register", "owe"}
  PROVE  Settles(t, s, i)
<1>1. innerRefs' \in [Inners -> Int]
  BY DEF CountInv, Types
<1>2. ASSUME NEW j \in Inners
      PROVE  innerRefs'[j] + Carries(pc[t], mine[t], j) = innerRefs[j] + Carries(s, i, j)
  BY <1>1, <1>2, InnersAssumption DEF CountInv, Types, Carries
<1>3. QED
  BY <1>1, <1>2 DEF Settles, CountInv, Types, Ones, Carries

LEMMA EnsureSettles ==
  ASSUME CountInv, LifeInv, LifeTypes', NEW t \in Threads, EnsureInner(t)
  PROVE  CountInv'
<1> USE HandFacts, InnersAssumption DEF Goto, Start, AfterEnsure, AfterNoInner, AfterUnpin,
        InCall, Steps, Tasks, HandSteps, InnerSteps, DestroySteps, MayHold, InnerOrNone
<1>1. CASE Check(t)
  <2> DEFINE s == IF inner = NoInner THEN "make" ELSE AfterEnsure(task[t])
  <2>1. /\ MoveTo(t, s, task[t]) /\ s \in Steps /\ task[t] \in Tasks /\ UNCHANGED <<life, inner>>
        /\ MayHold(s, IF s = "idle" THEN "none" ELSE task[t], mine[t])
    BY <1>1 DEF Check, lifeVars, driverVars
  <2>2. Settles(t, s, mine[t]) /\ mine[t] \in InnerOrNone
    BY <1>1, NothingSettled DEF Check, driverVars, Untouched
  <2> HIDE DEF s
  <2>3. QED BY <2>1, <2>2, SettledStep
<1>2. CASE MakeFails(t)
  <2> DEFINE s == AfterNoInner(task[t])
  <2>1. /\ MoveTo(t, s, task[t]) /\ s \in Steps /\ task[t] \in Tasks /\ UNCHANGED <<life, inner>>
        /\ MayHold(s, IF s = "idle" THEN "none" ELSE task[t], mine[t])
    BY <1>2 DEF MakeFails, lifeVars, driverVars
  <2>2. Settles(t, s, mine[t]) /\ mine[t] \in InnerOrNone
    BY <1>2, NothingSettled DEF MakeFails, driverVars, Untouched
  <2> HIDE DEF s
  <2>3. QED BY <2>1, <2>2, SettledStep
<1>3. CASE Make(t)
  <2> PICK i \in Inners : /\ innerRefs[i] = 0
                          /\ innerRefs' = [innerRefs EXCEPT ![i] = 1]
                          /\ mine' = [mine EXCEPT ![t] = i]
    BY <1>3 DEF Make
  <2>1. innerRefs' = [innerRefs EXCEPT ![i] = @ + 1] /\ mine[t] = NoInner
    BY <1>3 DEF Make
  <2>2. Settles(t, "publish", i)
    BY <1>3, <2>1, TakingUpSettles DEF Make
  <2>3. MoveTo(t, "publish", task[t]) /\ UNCHANGED life /\ MayHold("publish", task[t], i)
    BY <1>3 DEF Make, lifeVars
  <2>4. QED BY <2>2, <2>3, <1>3, SettledStep DEF Make
<1>4. CASE PublishLoses(t)
  <2> DEFINE s == AfterEnsure(task[t])
  <2>1. /\ MoveTo(t, s, task[t]) /\ s \in Steps /\ task[t] \in Tasks /\ UNCHANGED life
        /\ MayHold(s, IF s = "idle" THEN "none" ELSE task[t], NoInner)
    BY <1>4 DEF PublishLoses, lifeVars
  <2>2. Settles(t, s, NoInner)
    BY <1>4, GivingUpSettles DEF PublishLoses
  <2> HIDE DEF s
  <2>3. QED BY <1>4, <2>1, <2>2, SettledStep DEF PublishLoses
<1>5. CASE Publish(t)
  <2>1. /\ MoveTo(t, "register", task[t]) /\ UNCHANGED life /\ life = "live"
        /\ mine[t] \in Inners /\ MayHold("register", task[t], mine[t])
    BY <1>5 DEF Publish, lifeVars
  <2>2. Settles(t, "register", mine[t])
    BY <1>5, <2>1 DEF Publish, Settles, CountInv, Types, Ones, Carries
  <2>3. QED BY <2>1, <2>2, SettledStep
<1>6. CASE Register(t)
  <2> DEFINE s == "owe"
  <2>1. /\ MoveTo(t, s, task[t]) /\ s \in Steps /\ task[t] \in Tasks /\ UNCHANGED <<life, inner>>
        /\ MayHold(s, IF s = "idle" THEN "none" ELSE task[t], mine[t])
    BY <1>6 DEF Register, lifeVars, driverVars
  <2>2. Settles(t, s, mine[t]) /\ mine[t] \in InnerOrNone
    BY <1>6, NothingSettled DEF Register, driverVars, Untouched
  <2> HIDE DEF s
  <2>3. QED BY <2>1, <2>2, SettledStep
<1>7. CASE Owe(t)
  <2> DEFINE s == AfterEnsure(task[t])
  <2>1. /\ MoveTo(t, s, task[t]) /\ s \in Steps /\ UNCHANGED <<life, inner>>
        /\ MayHold(s, IF s = "idle" THEN "none" ELSE task[t], NoInner)
    BY <1>7 DEF Owe, lifeVars, driverVars
  <2>2. Settles(t, s, NoInner)
    BY <1>7 DEF Owe, driverVars, Settles, CountInv, Types, Ones, Carries
  <2> HIDE DEF s
  <2>3. QED BY <2>1, <2>2, SettledStep
<1>8. QED
  BY <1>1, <1>2, <1>3, <1>4, <1>5, <1>6, <1>7
  DEF EnsureInner

LEMMA FlushSettles ==
  ASSUME CountInv, LifeInv, LifeTypes', NEW t \in Threads, Flush(t)
  PROVE  CountInv'
<1> USE HandFacts, InnersAssumption DEF Goto, Start, AfterEnsure, AfterNoInner, AfterUnpin,
        InCall, Steps, Tasks, HandSteps, InnerSteps, DestroySteps, MayHold, InnerOrNone
<1>1. CASE Take(t)
  <2> DEFINE s == IF dirty = {} THEN "grab" ELSE "map"
  <2>1. /\ MoveTo(t, s, task[t]) /\ s \in Steps /\ task[t] \in Tasks /\ UNCHANGED <<life, inner>>
        /\ MayHold(s, IF s = "idle" THEN "none" ELSE task[t], mine[t])
    BY <1>1 DEF Take, lifeVars, driverVars
  <2>2. Settles(t, s, mine[t]) /\ mine[t] \in InnerOrNone
    BY <1>1, NothingSettled DEF Take, driverVars, Untouched
  <2> HIDE DEF s
  <2>3. QED BY <2>1, <2>2, SettledStep
<1>2. CASE MapFails(t)
  <2> DEFINE s == "grab"
  <2>1. /\ MoveTo(t, s, task[t]) /\ s \in Steps /\ task[t] \in Tasks /\ UNCHANGED <<life, inner>>
        /\ MayHold(s, IF s = "idle" THEN "none" ELSE task[t], mine[t])
    BY <1>2 DEF MapFails, lifeVars, driverVars
  <2>2. Settles(t, s, mine[t]) /\ mine[t] \in InnerOrNone
    BY <1>2, NothingSettled DEF MapFails, driverVars, Untouched
  <2> HIDE DEF s
  <2>3. QED BY <2>1, <2>2, SettledStep
<1>3. CASE MapSection(t)
  <2> DEFINE s == "next"
  <2>1. /\ MoveTo(t, s, task[t]) /\ s \in Steps /\ task[t] \in Tasks /\ UNCHANGED <<life, inner>>
        /\ MayHold(s, IF s = "idle" THEN "none" ELSE task[t], mine[t])
    BY <1>3 DEF MapSection, lifeVars, driverVars
  <2>2. Settles(t, s, mine[t]) /\ mine[t] \in InnerOrNone
    BY <1>3, NothingSettled DEF MapSection, driverVars, Untouched
  <2> HIDE DEF s
  <2>3. QED BY <2>1, <2>2, SettledStep
<1>4. CASE NextLevel(t)
  <2> DEFINE s == "check"
  <2>1. /\ MoveTo(t, s, "upload") /\ s \in Steps /\ "upload" \in Tasks /\ UNCHANGED <<life, inner>>
        /\ MayHold(s, IF s = "idle" THEN "none" ELSE "upload", mine[t])
    BY <1>4 DEF NextLevel, lifeVars, driverVars
  <2>2. Settles(t, s, mine[t]) /\ mine[t] \in InnerOrNone
    BY <1>4, NothingSettled DEF NextLevel, driverVars, Untouched
  <2> HIDE DEF s
  <2>3. QED BY <2>1, <2>2, SettledStep
<1>5. CASE NoMoreLevels(t)
  <2> DEFINE s == "grab"
  <2>1. /\ MoveTo(t, s, "bind") /\ s \in Steps /\ "bind" \in Tasks /\ UNCHANGED <<life, inner>>
        /\ MayHold(s, IF s = "idle" THEN "none" ELSE "bind", mine[t])
    BY <1>5 DEF NoMoreLevels, lifeVars, driverVars
  <2>2. Settles(t, s, mine[t]) /\ mine[t] \in InnerOrNone
    BY <1>5, NothingSettled DEF NoMoreLevels, driverVars, Untouched
  <2> HIDE DEF s
  <2>3. QED BY <2>1, <2>2, SettledStep
<1>6. CASE Grab(t)
  <2> DEFINE s == CASE task[t] = "upload" -> "copy"
                    [] task[t] = "touch"  -> "letGo"
                    [] OTHER              -> "unpin"
  <2>1. MoveTo(t, s, task[t]) /\ UNCHANGED <<life, inner>>
    BY <1>6 DEF Grab, lifeVars
  <2>2. inner \in Inners /\ mine[t] = NoInner /\ task[t] \in {"bind", "upload", "touch"}
    BY <1>6 DEF Grab, CountInv, Types
  <2>3. s \in {"copy", "letGo", "unpin"} /\ s \in Steps
    OBVIOUS
  <2>4. MayHold(s, IF s = "idle" THEN "none" ELSE task[t], inner)
    BY <1>6, <2>2 DEF Grab
  <2> HIDE DEF s
  <2>5. Settles(t, s, inner)
    BY <1>6, <2>2, <2>3, TakingUpSettles DEF Grab
  <2>6. QED BY <2>1, <2>2, <2>3, <2>4, <2>5, SettledStep
<1>7. CASE GrabNothing(t)
  <2> DEFINE s == AfterNoInner(task[t])
  <2>1. /\ MoveTo(t, s, task[t]) /\ s \in Steps /\ task[t] \in Tasks /\ UNCHANGED <<life, inner>>
        /\ MayHold(s, IF s = "idle" THEN "none" ELSE task[t], mine[t])
    BY <1>7 DEF GrabNothing, lifeVars, driverVars
  <2>2. Settles(t, s, mine[t]) /\ mine[t] \in InnerOrNone
    BY <1>7, NothingSettled DEF GrabNothing, driverVars, Untouched
  <2> HIDE DEF s
  <2>3. QED BY <2>1, <2>2, SettledStep
<1>8. CASE Copy(t)
  <2> DEFINE s == "put"
  <2>1. /\ MoveTo(t, s, task[t]) /\ s \in Steps /\ task[t] \in Tasks /\ UNCHANGED <<life, inner>>
        /\ MayHold(s, IF s = "idle" THEN "none" ELSE task[t], mine[t])
    BY <1>8 DEF Copy, lifeVars, driverVars
  <2>2. Settles(t, s, mine[t]) /\ mine[t] \in InnerOrNone
    BY <1>8, NothingSettled DEF Copy, driverVars, Untouched
  <2> HIDE DEF s
  <2>3. QED BY <2>1, <2>2, SettledStep
<1>9. CASE Put(t)
  <2> DEFINE s == "letGo"
  <2>1. /\ MoveTo(t, s, task[t]) /\ s \in Steps /\ task[t] \in Tasks /\ UNCHANGED <<life, inner>>
        /\ MayHold(s, IF s = "idle" THEN "none" ELSE task[t], mine[t])
    BY <1>9 DEF Put, lifeVars, driverVars
  <2>2. Settles(t, s, mine[t]) /\ mine[t] \in InnerOrNone
    BY <1>9, NothingSettled DEF Put, driverVars, Untouched
  <2> HIDE DEF s
  <2>3. QED BY <2>1, <2>2, SettledStep
<1>10. CASE UploadFails(t)
  <2> DEFINE s == "letGo"
  <2>1. /\ MoveTo(t, s, task[t]) /\ s \in Steps /\ task[t] \in Tasks /\ UNCHANGED <<life, inner>>
        /\ MayHold(s, IF s = "idle" THEN "none" ELSE task[t], mine[t])
    BY <1>10 DEF UploadFails, lifeVars, driverVars
  <2>2. Settles(t, s, mine[t]) /\ mine[t] \in InnerOrNone
    BY <1>10, NothingSettled DEF UploadFails, driverVars, Untouched
  <2> HIDE DEF s
  <2>3. QED BY <2>1, <2>2, SettledStep
<1>11. CASE LetGo(t)
  <2> DEFINE s == AfterNoInner(task[t])
  <2>1. /\ MoveTo(t, s, task[t]) /\ s \in Steps /\ task[t] \in Tasks /\ UNCHANGED life
        /\ MayHold(s, IF s = "idle" THEN "none" ELSE task[t], NoInner)
    BY <1>11 DEF LetGo, lifeVars
  <2>2. Settles(t, s, NoInner)
    BY <1>11, GivingUpSettles DEF LetGo
  <2> HIDE DEF s
  <2>3. QED BY <1>11, <2>1, <2>2, SettledStep DEF LetGo
<1>12. QED
  BY <1>1, <1>2, <1>3, <1>4, <1>5, <1>6, <1>7, <1>8, <1>9, <1>10, <1>11
  DEF Flush

LEMMA NobodyMoves ==
  ASSUME CountInv, LifeTypes', Untouched, UNCHANGED <<life, mine, pc, task>>
  PROVE  CountInv'
BY DEF Untouched, CountInv, Types, InnerAccounted, Carriers, Hands, UnbornHasNone

LEMMA StageSettles ==
  ASSUME CountInv, LifeInv, LifeTypes', NEW t \in Threads, Stage(t)
  PROVE  CountInv'
<1> USE HandFacts, InnersAssumption DEF Goto, Start, AfterEnsure, AfterNoInner, AfterUnpin,
        InCall, Steps, Tasks, HandSteps, InnerSteps, DestroySteps, MayHold, InnerOrNone
<1>1. CASE Bind(t)
  <2> DEFINE s == "check"
  <2>1. /\ MoveTo(t, s, "bind") /\ s \in Steps /\ "bind" \in Tasks /\ UNCHANGED <<life, inner>>
        /\ MayHold(s, IF s = "idle" THEN "none" ELSE "bind", mine[t])
    BY <1>1 DEF Bind, Pin, lifeVars, driverVars
  <2>2. Settles(t, s, mine[t]) /\ mine[t] \in InnerOrNone
    BY <1>1, NothingSettled DEF Bind, driverVars, Untouched
  <2> HIDE DEF s
  <2>3. QED BY <2>1, <2>2, SettledStep
<1>2. CASE Unpin(t)
  <2> DEFINE s == IF refs = 1 THEN "unregister" ELSE AfterUnpin(task[t])
  <2>1. MoveTo(t, s, task[t]) /\ UNCHANGED inner /\ (life' = "unborn" => life = "unborn")
    BY <1>2 DEF Unpin, DropReference, driverVars
  <2>2. s \in Steps /\ MayHold(s, IF s = "idle" THEN "none" ELSE task[t], mine[t])
    BY <1>2 DEF Unpin
  <2>3. Settles(t, s, mine[t])
    BY <1>2, NothingSettled DEF Unpin, driverVars, Untouched
  <2> HIDE DEF s
  <2>4. QED BY <2>1, <2>2, <2>3, SettledStep
<1>3. CASE SetTexture(t)
  <2>1. MoveTo(t, "idle", task[t]) /\ UNCHANGED <<life, inner>>
    BY <1>3 DEF SetTexture, lifeVars
  <2>2. Settles(t, "idle", NoInner)
    <3>1. innerRefs' \in [Inners -> Int] /\ bound' = mine[t] /\ pc[t] = "set"
      BY <1>3 DEF SetTexture, CountInv, Types, Released
    <3>2. ASSUME NEW i \in Inners
          PROVE  innerRefs'[i] + Ones(bound = i) + Carries(pc[t], mine[t], i)
                   = innerRefs[i] + Ones(bound' = i) + Carries("idle", NoInner, i)
      BY <1>3, <3>1, <3>2 DEF SetTexture, CountInv, Types, Released, Ones, Carries
    <3>3. QED BY <1>3, <3>1, <3>2 DEF SetTexture, Settles, CountInv, Types, Ones, Carries
  <2>3. MayHold("idle", "none", NoInner)
    OBVIOUS
  <2>4. QED BY <2>1, <2>2, <2>3, SettledStep
<1>4. CASE BindOther(t)
  <2>1. /\ innerRefs' \in [Inners -> Int] /\ bound' = NoInner /\ bound \in Inners
        /\ UNCHANGED <<inner, mine, pc, task, life>>
    BY <1>4 DEF BindOther, CountInv, Types, Released, lifeVars
  <2>2. ASSUME NEW i \in Inners
        PROVE  innerRefs'[i] + Ones(bound = i) = innerRefs[i] + Ones(bound' = i)
    BY <1>4, <2>1, <2>2 DEF BindOther, CountInv, Types, Released, Ones
  <2>3. ASSUME NEW i \in Inners
        PROVE  innerRefs'[i] = Ones(inner' = i) + Ones(bound' = i) + Cardinality(Carriers(i)')
    <3> DEFINE n == Cardinality(Carriers(i))
    <3>1. Cardinality(Carriers(i)') = n
      BY <2>1 DEF Carriers
    <3>2. n \in Nat
      BY <2>3, FS_Subset, FS_CardinalityType, ThreadsAssumption DEF Carriers
    <3>3. innerRefs[i] = Ones(inner = i) + Ones(bound = i) + n
      BY <2>3 DEF CountInv, InnerAccounted
    <3> HIDE DEF n
    <3>4. QED BY <2>1, <2>2, <2>3, <3>1, <3>2, <3>3 DEF CountInv, Types, Ones
  <2>4. InnerAccounted'
    BY <2>3 DEF InnerAccounted
  <2>5. QED BY <2>1, <2>4 DEF CountInv, Types, Hands, UnbornHasNone
<1>5. CASE GetTexture(t)
  <2>1. MoveTo(t, "rewrap", "get") /\ UNCHANGED <<life, inner>> /\ mine[t] = NoInner
        /\ bound \in Inners
    BY <1>5 DEF GetTexture, GetRaw, lifeVars, CountInv, Types
  <2>2. Settles(t, "rewrap", bound)
    BY <1>5, <2>1, TakingUpSettles DEF GetTexture, GetRaw
  <2>3. MayHold("rewrap", "get", bound)
    BY <2>1
  <2>4. QED BY <2>1, <2>2, <2>3, SettledStep
<1>6. CASE Rewrap(t)
  <2> DEFINE s == "swap"
  <2>1. /\ MoveTo(t, s, task[t]) /\ s \in Steps /\ task[t] \in Tasks /\ UNCHANGED <<life, inner>>
        /\ MayHold(s, IF s = "idle" THEN "none" ELSE task[t], mine[t])
    BY <1>6 DEF Rewrap, Pin, lifeVars, driverVars
  <2>2. Settles(t, s, mine[t]) /\ mine[t] \in InnerOrNone
    BY <1>6, NothingSettled DEF Rewrap, driverVars, Untouched
  <2> HIDE DEF s
  <2>3. QED BY <2>1, <2>2, SettledStep
<1>7. CASE RewrapMisses(t)
  <2> DEFINE s == "idle"
  <2>1. /\ MoveTo(t, s, task[t]) /\ s \in Steps /\ task[t] \in Tasks /\ UNCHANGED life
        /\ MayHold(s, IF s = "idle" THEN "none" ELSE task[t], NoInner)
    BY <1>7 DEF RewrapMisses, lifeVars
  <2>2. Settles(t, s, NoInner)
    BY <1>7, GivingUpSettles DEF RewrapMisses
  <2> HIDE DEF s
  <2>3. QED BY <1>7, <2>1, <2>2, SettledStep DEF RewrapMisses
<1>8. CASE Swap(t)
  <2> DEFINE s == "unpin"
  <2>1. /\ MoveTo(t, s, task[t]) /\ s \in Steps /\ task[t] \in Tasks /\ UNCHANGED life
        /\ MayHold(s, IF s = "idle" THEN "none" ELSE task[t], NoInner)
    BY <1>8 DEF Swap, lifeVars
  <2>2. Settles(t, s, NoInner)
    BY <1>8, GivingUpSettles DEF Swap
  <2> HIDE DEF s
  <2>3. QED BY <1>8, <2>1, <2>2, SettledStep DEF Swap
<1>9. CASE Touch(t)
  <2> DEFINE s == "check"
  <2>1. /\ MoveTo(t, s, "touch") /\ s \in Steps /\ "touch" \in Tasks /\ UNCHANGED <<life, inner>>
        /\ MayHold(s, IF s = "idle" THEN "none" ELSE "touch", mine[t])
    BY <1>9 DEF Touch, lifeVars, driverVars
  <2>2. Settles(t, s, mine[t]) /\ mine[t] \in InnerOrNone
    BY <1>9, NothingSettled DEF Touch, driverVars, Untouched
  <2> HIDE DEF s
  <2>3. QED BY <2>1, <2>2, SettledStep
<1>10. QED
  BY <1>1, <1>2, <1>3, <1>4, <1>5, <1>6, <1>7, <1>8, <1>9
  DEF Stage

LEMMA ResetSettles ==
  ASSUME CountInv, LifeInv, LifeTypes', NEW t \in Threads, Reset(t)
  PROVE  CountInv'
<1> USE HandFacts, InnersAssumption DEF Goto, Start, AfterEnsure, AfterNoInner, AfterUnpin,
        InCall, Steps, Tasks, HandSteps, InnerSteps, DestroySteps, MayHold, InnerOrNone
<1>1. CASE BeginReset(t)
  <2>1. MoveTo(t, "snapshot", "reset") /\ UNCHANGED <<life, inner, mine>>
    BY <1>1 DEF BeginReset, lifeVars
  <2>2. Settles(t, "snapshot", mine[t])
    <3>1. /\ innerRefs' \in [Inners -> Int] /\ bound' = NoInner /\ pc[t] = "idle"
          /\ mine[t] = NoInner
      BY <1>1 DEF BeginReset, CountInv, Types, Released
    <3>2. ASSUME NEW i \in Inners
          PROVE  innerRefs'[i] + Ones(bound = i) = innerRefs[i] + Ones(bound' = i)
      BY <1>1, <3>1, <3>2 DEF BeginReset, CountInv, Types, Released, Ones
    <3>3. QED BY <2>1, <3>1, <3>2 DEF Settles, CountInv, Types, Ones, Carries
  <2>3. MayHold("snapshot", "reset", mine[t]) /\ mine[t] \in InnerOrNone
    BY <1>1 DEF BeginReset
  <2>4. QED BY <2>1, <2>2, <2>3, SettledStep
<1>2. CASE Snapshot(t)
  <2> DEFINE s == IF task[t] = "reset" THEN "detach" ELSE "check"
  <2>1. /\ MoveTo(t, s, task[t]) /\ s \in Steps /\ task[t] \in Tasks /\ UNCHANGED <<life, inner>>
        /\ MayHold(s, IF s = "idle" THEN "none" ELSE task[t], mine[t])
    BY <1>2 DEF Snapshot, Pin, lifeVars, driverVars
  <2>2. Settles(t, s, mine[t]) /\ mine[t] \in InnerOrNone
    BY <1>2, NothingSettled DEF Snapshot, driverVars, Untouched
  <2> HIDE DEF s
  <2>3. QED BY <2>1, <2>2, SettledStep
<1>3. CASE SnapshotSkips(t)
  <2> DEFINE s == AfterUnpin(task[t])
  <2>1. /\ MoveTo(t, s, task[t]) /\ s \in Steps /\ task[t] \in Tasks /\ UNCHANGED <<life, inner>>
        /\ MayHold(s, IF s = "idle" THEN "none" ELSE task[t], mine[t])
    BY <1>3 DEF SnapshotSkips, lifeVars, driverVars
  <2>2. Settles(t, s, mine[t]) /\ mine[t] \in InnerOrNone
    BY <1>3, NothingSettled DEF SnapshotSkips, driverVars, Untouched
  <2> HIDE DEF s
  <2>3. QED BY <2>1, <2>2, SettledStep
<1>4. CASE Detach(t)
  <2> DEFINE s == IF inner = NoInner THEN "unpin" ELSE "erase"
  <2>1. MoveTo(t, s, task[t]) /\ UNCHANGED life /\ s \in Steps /\ mine[t] = NoInner
        /\ inner \in InnerOrNone /\ pc[t] = "detach"
    BY <1>4 DEF Detach, lifeVars, CountInv, Types
  <2>2. Settles(t, s, inner)
    <3>1. /\ inner' = NoInner /\ UNCHANGED <<bound, innerRefs>>
          /\ mine' = [mine EXCEPT ![t] = inner]
      BY <1>4 DEF Detach
    <3>2. QED BY <2>1, <3>1 DEF Settles, CountInv, Types, Ones, Carries
  <2>3. MayHold(s, IF s = "idle" THEN "none" ELSE task[t], inner)
    BY <1>4, <2>1
  <2>4. life /= "unborn"
    BY <1>4, ThreadFacts, OwnersCounted DEF Detach, Entitled, PinSteps
  <2> HIDE DEF s
  <2>5. QED BY <2>1, <2>2, <2>3, <2>4, SettledStep
<1>5. CASE Erase(t)
  <2> DEFINE s == "freeInner"
  <2>1. /\ MoveTo(t, s, task[t]) /\ s \in Steps /\ task[t] \in Tasks /\ UNCHANGED <<life, inner>>
        /\ MayHold(s, IF s = "idle" THEN "none" ELSE task[t], mine[t])
    BY <1>5 DEF Erase, lifeVars, driverVars
  <2>2. Settles(t, s, mine[t]) /\ mine[t] \in InnerOrNone
    BY <1>5, NothingSettled DEF Erase, driverVars, Untouched
  <2> HIDE DEF s
  <2>3. QED BY <2>1, <2>2, SettledStep
<1>6. CASE FreeInner(t)
  <2> DEFINE s == "unpin"
  <2>1. /\ MoveTo(t, s, task[t]) /\ s \in Steps /\ task[t] \in Tasks /\ UNCHANGED life
        /\ MayHold(s, IF s = "idle" THEN "none" ELSE task[t], NoInner)
    BY <1>6 DEF FreeInner, lifeVars
  <2>2. Settles(t, s, NoInner)
    BY <1>6, GivingUpSettles DEF FreeInner
  <2> HIDE DEF s
  <2>3. QED BY <1>6, <2>1, <2>2, SettledStep DEF FreeInner
<1>7. CASE DeviceReset(t)
  <2> DEFINE s == "snapshot"
  <2>1. /\ MoveTo(t, s, "restore") /\ s \in Steps /\ "restore" \in Tasks /\ UNCHANGED <<life, inner>>
        /\ MayHold(s, IF s = "idle" THEN "none" ELSE "restore", mine[t])
    BY <1>7 DEF DeviceReset, lifeVars, driverVars
  <2>2. Settles(t, s, mine[t]) /\ mine[t] \in InnerOrNone
    BY <1>7, NothingSettled DEF DeviceReset, driverVars, Untouched
  <2> HIDE DEF s
  <2>3. QED BY <2>1, <2>2, SettledStep
<1>8. CASE DeviceResetFails(t)
  <2> DEFINE s == "idle"
  <2>1. /\ MoveTo(t, s, task[t]) /\ s \in Steps /\ task[t] \in Tasks /\ UNCHANGED <<life, inner>>
        /\ MayHold(s, IF s = "idle" THEN "none" ELSE task[t], mine[t])
    BY <1>8 DEF DeviceResetFails, lifeVars, driverVars
  <2>2. Settles(t, s, mine[t]) /\ mine[t] \in InnerOrNone
    BY <1>8, NothingSettled DEF DeviceResetFails, driverVars, Untouched
  <2> HIDE DEF s
  <2>3. QED BY <2>1, <2>2, SettledStep
<1>9. QED
  BY <1>1, <1>2, <1>3, <1>4, <1>5, <1>6, <1>7, <1>8
  DEF Reset

LEMMA LivesSettles ==
  ASSUME CountInv, LifeInv, LifeTypes', NEW t \in Threads, Lives(t)
  PROVE  CountInv'
<1> USE HandFacts, InnersAssumption DEF Goto, Start, AfterEnsure, AfterNoInner, AfterUnpin,
        InCall, Steps, Tasks, HandSteps, InnerSteps, DestroySteps, MayHold, InnerOrNone
<1>1. CASE Construct(t)
  <2> PICK i \in Inners : /\ innerRefs[i] = 0
                          /\ innerRefs' = [innerRefs EXCEPT ![i] = 2]
                          /\ inner' = i
                          /\ mine' = [mine EXCEPT ![t] = i]
    BY <1>1 DEF Construct
  <2>1. /\ MoveTo(t, "enroll", "create") /\ life' = "live" /\ UNCHANGED bound
        /\ mine[t] = NoInner /\ inner = NoInner /\ pc[t] = "idle"
    BY <1>1 DEF Construct, CountInv, UnbornHasNone
  <2>2. Settles(t, "enroll", i)
    BY <2>1 DEF Settles, CountInv, Types, Ones, Carries
  <2>3. MayHold("enroll", "create", i)
    OBVIOUS
  <2>4. QED BY <2>1, <2>2, <2>3, SettledStep
<1>2. CASE Enroll(t)
  <2> DEFINE s == "handOver"
  <2>1. /\ MoveTo(t, s, task[t]) /\ s \in Steps /\ task[t] \in Tasks /\ UNCHANGED <<life, inner>>
        /\ MayHold(s, IF s = "idle" THEN "none" ELSE task[t], mine[t])
    BY <1>2 DEF Enroll, lifeVars, driverVars
  <2>2. Settles(t, s, mine[t]) /\ mine[t] \in InnerOrNone
    BY <1>2, NothingSettled DEF Enroll, driverVars, Untouched
  <2> HIDE DEF s
  <2>3. QED BY <2>1, <2>2, SettledStep
<1>3. CASE HandOver(t)
  <2> DEFINE s == "idle"
  <2>1. /\ MoveTo(t, s, task[t]) /\ s \in Steps /\ task[t] \in Tasks /\ UNCHANGED life
        /\ MayHold(s, IF s = "idle" THEN "none" ELSE task[t], NoInner)
    BY <1>3 DEF HandOver, lifeVars
  <2>2. Settles(t, s, NoInner)
    BY <1>3, GivingUpSettles DEF HandOver
  <2> HIDE DEF s
  <2>3. QED BY <1>3, <2>1, <2>2, SettledStep DEF HandOver
<1>4. CASE Release(t)
  <2> DEFINE s == IF refs = 1 THEN "unregister" ELSE "idle"
  <2>1. MoveTo(t, s, task[t]) /\ UNCHANGED inner /\ (life' = "unborn" => life = "unborn")
    BY <1>4 DEF Release, DropReference, driverVars
  <2>2. s \in Steps /\ MayHold(s, IF s = "idle" THEN "none" ELSE task[t], mine[t])
    BY <1>4 DEF Release
  <2>3. Settles(t, s, mine[t])
    BY <1>4, NothingSettled DEF Release, driverVars, Untouched
  <2> HIDE DEF s
  <2>4. QED BY <2>1, <2>2, <2>3, SettledStep
<1>5. CASE Unregister(t)
  <2> DEFINE s == "demolish"
  <2>1. /\ MoveTo(t, s, task[t]) /\ s \in Steps /\ task[t] \in Tasks /\ UNCHANGED <<life, inner>>
        /\ MayHold(s, IF s = "idle" THEN "none" ELSE task[t], mine[t])
    BY <1>5 DEF Unregister, lifeVars, driverVars
  <2>2. Settles(t, s, mine[t]) /\ mine[t] \in InnerOrNone
    BY <1>5, NothingSettled DEF Unregister, driverVars, Untouched
  <2> HIDE DEF s
  <2>3. QED BY <2>1, <2>2, SettledStep
<1>6. CASE Demolish(t)
  <2> DEFINE s == AfterUnpin(task[t])
  <2>1. /\ MoveTo(t, s, task[t]) /\ life' = "freed" /\ s \in Steps /\ UNCHANGED mine
        /\ s \notin {"register", "owe"} /\ pc[t] \notin {"register", "owe"}
        /\ MayHold(s, IF s = "idle" THEN "none" ELSE task[t], mine[t])
    BY <1>6 DEF Demolish
  <2>2. Settles(t, s, mine[t])
    <3>1. /\ innerRefs' \in [Inners -> Int] /\ inner' = NoInner
          /\ UNCHANGED bound /\ inner \in InnerOrNone
      BY <1>6 DEF Demolish, CountInv, Types, Released
    <3>2. ASSUME NEW i \in Inners
          PROVE  innerRefs'[i] + Ones(inner = i) = innerRefs[i] + Ones(inner' = i)
      BY <1>6, <3>1, <3>2 DEF Demolish, CountInv, Types, Released, Ones
    <3> HIDE DEF s
    <3>3. QED BY <2>1, <3>1, <3>2 DEF Settles, CountInv, Types, Ones, Carries
  <2> HIDE DEF s
  <2>3. QED BY <2>1, <2>2, SettledStep
<1>7. ASSUME NEW u \in Threads, AddRef(t, u) PROVE CountInv'
  BY <1>7, NobodyMoves DEF AddRef, Untouched, driverVars
<1>8. QED
  BY <1>1, <1>2, <1>3, <1>4, <1>5, <1>6, <1>7
  DEF Lives

LEMMA LockSettles ==
  ASSUME CountInv, LifeInv, LifeTypes', NEW t \in Threads, Lock(t)
  PROVE  CountInv'
<1> USE HandFacts, InnersAssumption DEF Goto, Start, AfterEnsure, AfterNoInner, AfterUnpin,
        InCall, Steps, Tasks, HandSteps, InnerSteps, DestroySteps, MayHold, InnerOrNone
<1>1. CASE MarkValid(t)
  <2> DEFINE s == "markDirty"
  <2>1. /\ MoveTo(t, s, task[t]) /\ s \in Steps /\ task[t] \in Tasks /\ UNCHANGED <<life, inner>>
        /\ MayHold(s, IF s = "idle" THEN "none" ELSE task[t], mine[t])
    BY <1>1 DEF MarkValid, lifeVars, driverVars
  <2>2. Settles(t, s, mine[t]) /\ mine[t] \in InnerOrNone
    BY <1>1, NothingSettled DEF MarkValid, driverVars, Untouched
  <2> HIDE DEF s
  <2>3. QED BY <2>1, <2>2, SettledStep
<1>2. CASE MarkDirty(t)
  <2> DEFINE s == "idle"
  <2>1. /\ MoveTo(t, s, task[t]) /\ s \in Steps /\ task[t] \in Tasks /\ UNCHANGED <<life, inner>>
        /\ MayHold(s, IF s = "idle" THEN "none" ELSE task[t], mine[t])
    BY <1>2 DEF MarkDirty, lifeVars, driverVars
  <2>2. Settles(t, s, mine[t]) /\ mine[t] \in InnerOrNone
    BY <1>2, NothingSettled DEF MarkDirty, driverVars, Untouched
  <2> HIDE DEF s
  <2>3. QED BY <2>1, <2>2, SettledStep
<1>3. ASSUME NEW l \in Levels, NEW mode \in {"read", "write"}, LockRect(t, l, mode)
      PROVE  CountInv'
  BY <1>3, NobodyMoves DEF LockRect, Untouched, lifeVars, driverVars
<1>4. ASSUME NEW l \in Levels, UnlockReadOnly(t, l) PROVE CountInv'
  BY <1>4, NobodyMoves DEF UnlockReadOnly, Untouched, lifeVars, driverVars
<1>5. ASSUME NEW l \in Levels, UnlockRect(t, l) PROVE CountInv'
  <2>1. /\ MoveTo(t, "markValid", "unlock") /\ UNCHANGED <<life, inner>>
        /\ MayHold("markValid", "unlock", mine[t])
    BY <1>5 DEF UnlockRect, lifeVars
  <2>2. Settles(t, "markValid", mine[t]) /\ mine[t] \in InnerOrNone
    BY <1>5, NothingSettled DEF UnlockRect, Untouched
  <2>3. QED BY <2>1, <2>2, SettledStep
<1>6. QED
  BY <1>1, <1>2, <1>3, <1>4, <1>5
  DEF Lock

LEMMA CountInvHolds == Spec => []CountInv
<1>1. Init => CountInv
  <2> SUFFICES ASSUME Init PROVE CountInv
    OBVIOUS
  <2>1. Types
    BY DEF Init, Types, LifeTypes, InnerOrNone, Steps, Tasks
  <2>2. InnerAccounted
    <3>1. ASSUME NEW i \in Inners PROVE Carriers(i) = {}
      BY <3>1, InnersAssumption DEF Init, Carriers
    <3>2. QED BY <3>1, FS_EmptySet, InnersAssumption DEF Init, InnerAccounted, Ones
  <2>3. Hands /\ UnbornHasNone
    BY DEF Init, Hands, MayHold, UnbornHasNone
  <2>4. QED BY <2>1, <2>2, <2>3 DEF CountInv
<1>2. CountInv /\ LifeInv /\ LifeInv' /\ [Next]_vars => CountInv'
  <2> SUFFICES ASSUME CountInv, LifeInv, LifeInv', [Next]_vars PROVE CountInv'
    OBVIOUS
  <2>1. LifeTypes'
    BY DEF LifeInv
  <2>2. CASE UNCHANGED vars
    BY <2>1, <2>2, NobodyMoves DEF vars, lifeVars, driverVars, Untouched
  <2>3. CASE Next
    BY <2>1, <2>3, EnsureSettles, FlushSettles, StageSettles, LockSettles, LivesSettles,
       ResetSettles DEF Next
  <2>4. QED BY <2>2, <2>3
<1>3. QED BY <1>1, <1>2, LifeInvHolds, PTL DEF Spec

(* Every reference on an inner texture has exactly one owner, in every     *)
(* interleaving of binds, touches, resets, releases and the destructor.    *)
THEOREM InnerReferencesAccounted == Spec => []InnerAccounted
<1>1. CountInv => InnerAccounted
  BY DEF CountInv
<1>2. QED BY <1>1, CountInvHolds, PTL

(* An upload and an unlock under way name a level of the texture.          *)
NamesLevel == \A t \in Threads : task[t] \in {"upload", "unlock"} => level[t] \in Levels

LEMMA NamesLevelStep ==
  ASSUME LifeInv, FlushTypes, NamesLevel, [Next]_vars
  PROVE  NamesLevel'
<1> USE DEF NamesLevel, FlushTypes, LifeInv, LifeTypes, flushVars, MoveTo, Goto, Start
<1>1. CASE UNCHANGED vars
  BY <1>1 DEF vars
<1>2. CASE Next
  <2> PICK t \in Threads :
        EnsureInner(t) \/ Flush(t) \/ Stage(t) \/ Lock(t) \/ Lives(t) \/ Reset(t)
    BY <1>2 DEF Next
  <2> USE ThreadFacts DEF Entitled, InCall
  <2>1. ASSUME UNCHANGED level, NEW s, NEW k, MoveTo(t, s, k),
               k \in {"upload", "unlock"} => k = task[t]
        PROVE  NamesLevel'
    BY <2>1
  <2>2. CASE EnsureInner(t)
    BY <2>1, <2>2 DEF EnsureInner, Check, MakeFails, Make, PublishLoses, Publish, Register, Owe
  <2>3. CASE Flush(t)
    <3>1. CASE NextLevel(t)
      BY <3>1 DEF NextLevel
    <3>2. CASE NoMoreLevels(t)
      BY <3>2 DEF NoMoreLevels
    <3>3. CASE Take(t) \/ MapFails(t) \/ MapSection(t) \/ Grab(t) \/ GrabNothing(t)
                 \/ Copy(t) \/ Put(t) \/ UploadFails(t) \/ LetGo(t)
      BY <2>1, <3>3 DEF Take, MapFails, MapSection, Grab, GrabNothing, Copy, Put, UploadFails,
                        LetGo
    <3>4. QED BY <2>3, <3>1, <3>2, <3>3 DEF Flush
  <2>4. CASE Stage(t)
    BY <2>1, <2>4 DEF Stage, Bind, Unpin, DropReference, SetTexture, BindOther, GetTexture,
                      GetRaw, Rewrap, RewrapMisses, Swap, Touch
  <2>5. CASE Lock(t)
    BY <2>1, <2>5 DEF Lock, LockRect, UnlockReadOnly, UnlockRect, MarkValid, MarkDirty
  <2>6. CASE Lives(t)
    BY <2>1, <2>6 DEF Lives, Construct, Enroll, HandOver, Release, DropReference, Unregister,
                      Demolish, AddRef
  <2>7. CASE Reset(t)
    BY <2>1, <2>7 DEF Reset, BeginReset, Snapshot, SnapshotSkips, Detach, Erase, FreeInner,
                      DeviceReset, DeviceResetFails
  <2>8. QED BY <2>2, <2>3, <2>4, <2>5, <2>6, <2>7
<1>3. QED BY <1>1, <1>2

LEMMA FlushTypesHold == Spec => [](FlushTypes /\ NamesLevel)
<1>1. Init => FlushTypes /\ NamesLevel
  <2> SUFFICES ASSUME Init PROVE FlushTypes /\ NamesLevel
    OBVIOUS
  <2>1. registered \in BOOLEAN /\ current \in [Threads -> BOOLEAN]
    BY DEF Init
  <2>2. /\ byInner \subseteq Inners /\ fresh \in [Inners -> SUBSET Levels]
        /\ valid \subseteq Levels /\ dirty \subseteq Levels /\ dropped \subseteq Levels
        /\ view \in [Levels -> {"none", "read", "write"}]
    BY DEF Init
  <2>3. /\ owed \in [Threads -> SUBSET Levels] /\ level \in [Threads -> Nat]
        /\ late \in [Threads -> SUBSET Levels]
    BY DEF Init
  <2>4. NamesLevel
    BY DEF Init, NamesLevel
  <2>5. QED BY <2>1, <2>2, <2>3, <2>4 DEF FlushTypes
<1>2. CountInv /\ LifeInv /\ NamesLevel /\ FlushTypes /\ [Next]_vars => FlushTypes'
  <2> SUFFICES ASSUME CountInv, LifeInv, NamesLevel, FlushTypes, [Next]_vars
               PROVE  FlushTypes'
    OBVIOUS
  <2> USE DEF FlushTypes, CountInv, Types, InnerOrNone, registryVars, driverVars, levelVars,
              flushVars, MarkAll, GiveUp
  <2>1. CASE UNCHANGED vars
    BY <2>1 DEF vars
  <2>2. CASE Next
    <3> PICK t \in Threads :
          EnsureInner(t) \/ Flush(t) \/ Stage(t) \/ Lock(t) \/ Lives(t) \/ Reset(t)
      BY <2>2 DEF Next
    <3>1. CASE EnsureInner(t)
      <4>1. CASE Check(t) \/ MakeFails(t) \/ Make(t) \/ PublishLoses(t) \/ Publish(t)
        BY <4>1 DEF Check, MakeFails, Make, PublishLoses, Publish
      <4>2. CASE Register(t)
        BY <4>2, HandFacts DEF Register, Goto, Hands, MayHold
      <4>3. CASE Owe(t)
        BY <4>3 DEF Owe
      <4>4. QED BY <3>1, <4>1, <4>2, <4>3 DEF EnsureInner
    <3>2. CASE Flush(t)
      <4>1. CASE Take(t) \/ MapFails(t) \/ MapSection(t) \/ NoMoreLevels(t)
        BY <4>1 DEF Take, MapFails, MapSection, NoMoreLevels
      <4>2. CASE NextLevel(t)
        BY <4>2, LevelsAssumption DEF NextLevel
      <4>3. CASE Grab(t) \/ GrabNothing(t) \/ Copy(t) \/ LetGo(t)
        BY <4>3 DEF Grab, GrabNothing, Copy, LetGo
      <4>4. CASE Put(t)
        <5>1. level[t] \in Levels
          BY <4>4, ThreadFacts DEF Put, Goto, Entitled, InCall, DestroySteps, NamesLevel
        <5>2. fresh' \in [Inners -> SUBSET Levels]
          BY <4>4, <5>1 DEF Put
        <5>3. current' \in [Threads -> BOOLEAN]
          BY <4>4 DEF Put
        <5>4. owed' \in [Threads -> SUBSET Levels]
          BY <4>4 DEF Put
        <5>5. QED BY <4>4, <5>2, <5>3, <5>4 DEF Put
      <4>5. CASE UploadFails(t)
        <5>1. level[t] \in Levels
          BY <4>5, ThreadFacts DEF UploadFails, Entitled, InCall, DestroySteps, NamesLevel
        <5>2. dropped' \subseteq Levels
          BY <4>5, <5>1 DEF UploadFails
        <5>3. current' \in [Threads -> BOOLEAN]
          BY <4>5 DEF UploadFails
        <5>4. owed' \in [Threads -> SUBSET Levels]
          BY <4>5 DEF UploadFails
        <5>5. QED BY <4>5, <5>2, <5>3, <5>4 DEF UploadFails
      <4>6. QED BY <3>2, <4>1, <4>2, <4>3, <4>4, <4>5 DEF Flush
    <3>3. CASE Stage(t)
      BY <3>3 DEF Stage, Bind, Unpin, SetTexture, BindOther, GetTexture, GetRaw, Rewrap,
                  RewrapMisses, Swap, Touch
    <3>4. CASE Lock(t)
      <4>1. ASSUME NEW l \in Levels, NEW mode \in {"read", "write"}, LockRect(t, l, mode)
            PROVE  FlushTypes'
        BY <4>1 DEF LockRect
      <4>2. ASSUME NEW l \in Levels, UnlockReadOnly(t, l)
            PROVE  FlushTypes'
        BY <4>2 DEF UnlockReadOnly
      <4>3. ASSUME NEW l \in Levels, UnlockRect(t, l)
            PROVE  FlushTypes'
        <5>1. current' \in [Threads -> BOOLEAN]
          BY <4>3 DEF UnlockRect
        <5>2. /\ view' \in [Levels -> {"none", "read", "write"}]
              /\ fresh' \in [Inners -> SUBSET Levels]
              /\ level' \in [Threads -> Nat]
          BY <4>3, LevelsAssumption DEF UnlockRect
        <5>3. QED BY <4>3, <5>1, <5>2 DEF UnlockRect
      <4>4. CASE MarkValid(t) \/ MarkDirty(t)
        <5>1. level[t] \in Levels
          BY <4>4, ThreadFacts DEF MarkValid, MarkDirty, Goto, Entitled, InCall, DestroySteps,
                                   NamesLevel
        <5>2. QED BY <4>4, <5>1 DEF MarkValid, MarkDirty
      <4>5. QED BY <3>4, <4>1, <4>2, <4>3, <4>4 DEF Lock
    <3>5. CASE Lives(t)
      BY <3>5, HandFacts DEF Lives, Construct, Enroll, HandOver, Release, Unregister, Demolish,
                  AddRef, Hands, MayHold, Goto
    <3>6. CASE Reset(t)
      BY <3>6 DEF Reset, BeginReset, Snapshot, SnapshotSkips, Detach, Erase, FreeInner,
                  DeviceReset, DeviceResetFails
    <3>7. QED BY <3>1, <3>2, <3>3, <3>4, <3>5, <3>6
  <2>3. QED BY <2>1, <2>2
<1>3. QED
  BY <1>1, <1>2, NamesLevelStep, CountInvHolds, LifeInvHolds, PTL DEF Spec

(* Type correctness. That no count of an inner texture is ever negative is *)
(* a consequence of the accounting: no texture is released twice.          *)
THEOREM TypeCorrect == Spec => []TypeOK
<1>1. CountInv /\ FlushTypes => TypeOK
  <2> SUFFICES ASSUME CountInv, FlushTypes PROVE TypeOK
    OBVIOUS
  <2>1. ASSUME NEW i \in Inners PROVE innerRefs[i] \in Nat
    <3>1. Cardinality(Carriers(i)) \in Nat
      BY FS_Subset, FS_CardinalityType, ThreadsAssumption DEF Carriers
    <3>2. innerRefs[i] = Ones(inner = i) + Ones(bound = i) + Cardinality(Carriers(i))
      BY <2>1 DEF CountInv, InnerAccounted
    <3>3. QED BY <3>1, <3>2 DEF Ones
  <2>2. innerRefs \in [Inners -> Nat]
    BY <2>1 DEF CountInv, Types
  <2>3. QED BY <2>2 DEF CountInv, Types, LifeTypes, FlushTypes, TypeOK
<1>2. QED BY <1>1, FlushTypesHold, CountInvHolds, PTL

-----------------------------------------------------------------------------
(* GetTexture leads a bound inner texture back to its wrapper              *)

(* Until its creator has entered it into the registry, the wrapper has one *)
(* reference, and nobody else touches inner_.                              *)
EnrollsAlone ==
  \A t \in Threads : pc[t] = "enroll" =>
    ~registered /\ inner = mine[t] /\ held = {t} /\ pinned = {}

(* A texture that is not published yet has no owner but its maker. A       *)
(* thread between Publish and the end of ensure_inner may still name an    *)
(* address that has since been freed and used again.                       *)
PublishesItsOwn ==
  \A t \in Threads : pc[t] = "publish" =>
    /\ inner /= mine[t] /\ bound /= mine[t]
    /\ \A u \in Threads \ {t} : mine[u] = mine[t] => pc[u] \in {"register", "owe"}

(* What release_inner has detached does not become inner_ again while the  *)
(* map still has its key.                                                  *)
ErasesDetached ==
  \A t \in Threads : pc[t] = "erase" => mine[t] \in Inners /\ inner /= mine[t]

UnbornIsUnknown == life = "unborn" => ~registered

MapInv == InnerIsMapped /\ EnrollsAlone /\ PublishesItsOwn /\ ErasesDetached /\ UnbornIsUnknown

(* A count of zero has no owner.                                           *)
LEMMA NoOwners ==
  ASSUME CountInv, NEW i \in Inners, innerRefs[i] = 0
  PROVE  /\ inner /= i /\ bound /= i
         /\ \A u \in Threads : mine[u] = i => pc[u] \in {"register", "owe"}
<1>1. IsFiniteSet(Carriers(i)) /\ Cardinality(Carriers(i)) \in Nat
  BY FS_Subset, FS_CardinalityType, ThreadsAssumption DEF Carriers
<1>2. 0 = Ones(inner = i) + Ones(bound = i) + Cardinality(Carriers(i))
  BY DEF CountInv, InnerAccounted
<1>3. Ones(inner = i) = 0 /\ Ones(bound = i) = 0 /\ Cardinality(Carriers(i)) = 0
  BY <1>1, <1>2 DEF Ones
<1>4. Carriers(i) = {}
  BY <1>1, <1>3, FS_EmptySet
<1>5. QED BY <1>3, <1>4 DEF Ones, Carriers

(* A step of t that publishes, installs and erases nothing.                *)
OnlyMoves(t, s, m) ==
  /\ pc' = [pc EXCEPT ![t] = s] /\ mine' = [mine EXCEPT ![t] = m]
  /\ s \notin {"enroll", "publish", "erase"} /\ pc[t] /= "register"
  /\ inner' \in {inner, NoInner}
  /\ \/ bound' \in {bound, NoInner}
     \/ bound' = mine[t] /\ pc[t] \notin {"register", "owe"}
  /\ \/ m \in {inner, bound, NoInner}
     \/ m = mine[t] /\ (s \in {"register", "owe"} \/ pc[t] \notin {"register", "owe"})
  /\ registered' => registered /\ byInner \subseteq byInner'
  /\ \/ t \in held \cup pinned
     \/ registered
     \/ life /= "live"
     \/ UNCHANGED <<registered, held, pinned, inner>>
  /\ life' = "unborn" => life = "unborn"

LEMMA OnlyMovesKeepsMap ==
  ASSUME LifeInv, CountInv, MapInv, NEW t \in Threads, NEW s \in Steps,
         NEW m \in InnerOrNone, OnlyMoves(t, s, m)
  PROVE  MapInv'
<1>1. \A u \in Threads : /\ pc'[u] = IF u = t THEN s ELSE pc[u]
                         /\ mine'[u] = IF u = t THEN m ELSE mine[u]
  BY DEF OnlyMoves, LifeInv, LifeTypes, CountInv, Types
<1>2. InnerIsMapped'
  BY <1>1 DEF OnlyMoves, MapInv, InnerIsMapped
<1>3. EnrollsAlone'
  <2> SUFFICES ASSUME NEW u \in Threads, pc'[u] = "enroll"
               PROVE  /\ ~registered' /\ inner' = mine'[u]
                      /\ held' = {u} /\ pinned' = {}
    BY DEF EnrollsAlone
  <2>1. u /= t /\ pc[u] = "enroll" /\ mine'[u] = mine[u]
    BY <1>1 DEF OnlyMoves
  <2>2. ~registered /\ inner = mine[u] /\ held = {u} /\ pinned = {} /\ life = "live"
    BY <2>1, OwnersCounted DEF MapInv, EnrollsAlone
  <2>3. QED BY <2>1, <2>2 DEF OnlyMoves
<1>4. PublishesItsOwn'
  <2> SUFFICES ASSUME NEW u \in Threads, pc'[u] = "publish"
               PROVE  /\ inner' /= mine'[u] /\ bound' /= mine'[u]
                      /\ \A v \in Threads \ {u} :
                           mine'[v] = mine'[u] => pc'[v] \in {"register", "owe"}
    BY DEF PublishesItsOwn
  <2>1. u /= t /\ pc[u] = "publish" /\ mine'[u] = mine[u]
    BY <1>1 DEF OnlyMoves
  <2>2. mine[u] /= NoInner
    BY <2>1, HandFacts, InnersAssumption DEF MayHold
  <2>3. QED BY <1>1, <2>1, <2>2 DEF OnlyMoves, MapInv, PublishesItsOwn
<1>5. ErasesDetached'
  <2> SUFFICES ASSUME NEW u \in Threads, pc'[u] = "erase"
               PROVE  mine'[u] \in Inners /\ inner' /= mine'[u]
    BY DEF ErasesDetached
  <2>1. pc[u] = "erase" /\ mine'[u] = mine[u] /\ mine[u] \in Inners /\ inner /= mine[u]
    BY <1>1 DEF OnlyMoves, MapInv, ErasesDetached
  <2>2. QED BY <2>1, InnersAssumption DEF OnlyMoves
<1>6. UnbornIsUnknown'
  BY DEF OnlyMoves, MapInv, UnbornIsUnknown
<1>7. QED BY <1>2, <1>3, <1>4, <1>5, <1>6 DEF MapInv

(* What the invariants say of thread t before it moves.                    *)
LEMMA MoverFacts ==
  ASSUME LifeInv, CountInv, NEW t \in Threads
  PROVE  /\ pc[t] \in Steps /\ task[t] \in Tasks /\ mine[t] \in InnerOrNone
         /\ inner \in InnerOrNone /\ bound \in InnerOrNone /\ NoInner \in InnerOrNone
         /\ mine = [mine EXCEPT ![t] = mine[t]] /\ pc = [pc EXCEPT ![t] = pc[t]]
         /\ Entitled(t, pc[t], task[t]) /\ MayHold(pc[t], task[t], mine[t])
         /\ pc[t] \in DestroySteps => life = "dying"
BY HandFacts, ThreadFacts DEF CountInv, Types, LifeInv, LifeTypes, InnerOrNone, OneDestroyer

(* The steps that publish, install or erase. While one thread enrolls the  *)
(* wrapper, no other is inside it.                                         *)
LEMMA NobodyEnrolls ==
  ASSUME LifeInv, MapInv, NEW t \in Threads, pc[t] /= "enroll", t \in held \cup pinned
  PROVE  \A u \in Threads : pc[u] /= "enroll"
BY DEF MapInv, EnrollsAlone

LEMMA MakeKeepsMap ==
  ASSUME LifeInv, CountInv, MapInv, NEW t \in Threads, Make(t)
  PROVE  MapInv'
<1> PICK i \in Inners : innerRefs[i] = 0 /\ mine' = [mine EXCEPT ![t] = i]
  BY DEF Make
<1>1. /\ pc[t] = "make" /\ pc' = [pc EXCEPT ![t] = "publish"]
      /\ UNCHANGED <<inner, bound, life, registered, byInner, held, pinned>>
  BY DEF Make, Goto, MoveTo, lifeVars, registryVars
<1>2. \A u \in Threads : /\ pc'[u] = IF u = t THEN "publish" ELSE pc[u]
                         /\ mine'[u] = IF u = t THEN i ELSE mine[u]
  BY <1>1 DEF LifeInv, LifeTypes, CountInv, Types
<1>3. /\ inner /= i /\ bound /= i
      /\ \A u \in Threads : mine[u] = i => pc[u] \in {"register", "owe"}
  BY NoOwners
<1>4. QED
  BY <1>1, <1>2, <1>3 DEF MapInv, InnerIsMapped, EnrollsAlone, PublishesItsOwn, ErasesDetached, UnbornIsUnknown

LEMMA PublishKeepsMap ==
  ASSUME LifeInv, CountInv, MapInv, NEW t \in Threads, Publish(t)
  PROVE  MapInv'
<1>1. /\ pc[t] = "publish" /\ pc' = [pc EXCEPT ![t] = "register"] /\ inner' = mine[t]
      /\ UNCHANGED <<mine, bound, life, registered, byInner, held, pinned>>
  BY DEF Publish, Goto, MoveTo, lifeVars, registryVars
<1>2. \A u \in Threads : pc'[u] = IF u = t THEN "register" ELSE pc[u]
  BY <1>1 DEF LifeInv, LifeTypes
<1>3. t \in held \cup pinned
  BY <1>1, ThreadFacts DEF Entitled, InCall, DestroySteps, InnerSteps, PinTasks
<1>4. InnerIsMapped'
  BY <1>1, <1>2 DEF InnerIsMapped
<1>5. EnrollsAlone'
  BY <1>1, <1>2, <1>3, NobodyEnrolls DEF EnrollsAlone
<1>6. PublishesItsOwn'
  BY <1>1, <1>2 DEF MapInv, PublishesItsOwn
<1>7. ErasesDetached'
  BY <1>1, <1>2 DEF MapInv, ErasesDetached, PublishesItsOwn
<1>8. UnbornIsUnknown'
  BY <1>1 DEF MapInv, UnbornIsUnknown
<1>9. QED BY <1>4, <1>5, <1>6, <1>7, <1>8 DEF MapInv

LEMMA RegisterKeepsMap ==
  ASSUME LifeInv, CountInv, MapInv, NEW t \in Threads, Register(t)
  PROVE  MapInv'
<1>1. /\ pc[t] = "register" /\ pc' = [pc EXCEPT ![t] = "owe"]
      /\ byInner' = byInner \cup {mine[t]}
      /\ UNCHANGED <<mine, inner, bound, life, registered, held, pinned>>
  BY DEF Register, Goto, MoveTo, lifeVars, driverVars
<1>2. \A u \in Threads : pc'[u] = IF u = t THEN "owe" ELSE pc[u]
  BY <1>1 DEF LifeInv, LifeTypes
<1>3. InnerIsMapped'
  BY <1>1, <1>2 DEF MapInv, InnerIsMapped
<1>4. EnrollsAlone' /\ PublishesItsOwn' /\ ErasesDetached' /\ UnbornIsUnknown'
  BY <1>1, <1>2 DEF MapInv, EnrollsAlone, PublishesItsOwn, ErasesDetached, UnbornIsUnknown
<1>5. QED BY <1>3, <1>4 DEF MapInv

LEMMA DetachKeepsMap ==
  ASSUME LifeInv, CountInv, MapInv, NEW t \in Threads, Detach(t)
  PROVE  MapInv'
<1> DEFINE s == IF inner = NoInner THEN "unpin" ELSE "erase"
<1>1. /\ pc[t] = "detach" /\ pc' = [pc EXCEPT ![t] = s]
      /\ mine' = [mine EXCEPT ![t] = inner] /\ inner' = NoInner
      /\ UNCHANGED <<bound, life, registered, byInner, held, pinned>>
  BY DEF Detach, Goto, MoveTo, lifeVars, registryVars
<1>2. \A u \in Threads : /\ pc'[u] = IF u = t THEN s ELSE pc[u]
                         /\ mine'[u] = IF u = t THEN inner ELSE mine[u]
  BY <1>1 DEF LifeInv, LifeTypes, CountInv, Types
<1>3. t \in held \cup pinned
  BY <1>1, ThreadFacts DEF Entitled, InCall, PinSteps
<1>4. \A u \in Threads : pc[u] \in {"publish", "erase"} => mine[u] \in Inners
  BY HandFacts DEF MayHold, MapInv, ErasesDetached
<1>5. InnerIsMapped'
  BY <1>1 DEF InnerIsMapped
<1>6. EnrollsAlone'
  BY <1>1, <1>2, <1>3, NobodyEnrolls DEF EnrollsAlone
<1>7. PublishesItsOwn'
  BY <1>1, <1>2, <1>4, InnersAssumption DEF MapInv, PublishesItsOwn
<1>8. ErasesDetached'
  BY <1>1, <1>2, <1>4, InnersAssumption DEF MapInv, ErasesDetached, CountInv, Types, InnerOrNone
<1>9. UnbornIsUnknown'
  BY <1>1 DEF MapInv, UnbornIsUnknown
<1>10. QED BY <1>5, <1>6, <1>7, <1>8, <1>9 DEF MapInv

LEMMA EraseKeepsMap ==
  ASSUME LifeInv, CountInv, MapInv, NEW t \in Threads, Erase(t)
  PROVE  MapInv'
<1>1. /\ pc[t] = "erase" /\ pc' = [pc EXCEPT ![t] = "freeInner"]
      /\ byInner' = byInner \ {mine[t]}
      /\ UNCHANGED <<mine, inner, bound, life, registered, held, pinned>>
  BY DEF Erase, Goto, MoveTo, lifeVars, driverVars
<1>2. \A u \in Threads : pc'[u] = IF u = t THEN "freeInner" ELSE pc[u]
  BY <1>1 DEF LifeInv, LifeTypes
<1>3. InnerIsMapped'
  BY <1>1, <1>2 DEF MapInv, InnerIsMapped, ErasesDetached
<1>4. EnrollsAlone' /\ PublishesItsOwn' /\ ErasesDetached' /\ UnbornIsUnknown'
  BY <1>1, <1>2 DEF MapInv, EnrollsAlone, PublishesItsOwn, ErasesDetached, UnbornIsUnknown
<1>5. QED BY <1>3, <1>4 DEF MapInv

LEMMA ConstructKeepsMap ==
  ASSUME LifeInv, CountInv, MapInv, NEW t \in Threads, Construct(t)
  PROVE  MapInv'
<1> PICK i \in Inners : inner' = i /\ mine' = [mine EXCEPT ![t] = i]
  BY DEF Construct
<1>1. /\ life = "unborn" /\ pc' = [pc EXCEPT ![t] = "enroll"] /\ held' = {t}
      /\ UNCHANGED <<bound, registered, byInner, pinned>>
  BY DEF Construct, Start, MoveTo, registryVars
<1>2. \A u \in Threads : /\ pc'[u] = IF u = t THEN "enroll" ELSE pc[u]
                         /\ mine'[u] = IF u = t THEN i ELSE mine[u]
  BY <1>1 DEF LifeInv, LifeTypes, CountInv, Types
<1>3. \A u \in Threads : pc[u] \notin InnerSteps \cup PinSteps \cup {"enroll"} /\ u \notin pinned
  BY <1>1, ThreadFacts, OwnersCounted
     DEF Entitled, InCall, InnerSteps, PinSteps, PinTasks, DestroySteps
<1>4. pinned = {}
  BY <1>3 DEF LifeInv, LifeTypes
<1>5. ~registered /\ life' = "live"
  BY DEF Construct, MapInv, UnbornIsUnknown
<1>6. QED
  BY <1>1, <1>2, <1>3, <1>4, <1>5
  DEF MapInv, InnerIsMapped, EnrollsAlone, PublishesItsOwn, ErasesDetached, UnbornIsUnknown, InnerSteps, PinSteps

LEMMA EnrollKeepsMap ==
  ASSUME LifeInv, CountInv, MapInv, NEW t \in Threads, Enroll(t)
  PROVE  MapInv'
<1>1. /\ pc[t] = "enroll" /\ pc' = [pc EXCEPT ![t] = "handOver"]
      /\ registered' = TRUE /\ byInner' = byInner \cup {mine[t]}
      /\ UNCHANGED <<mine, inner, bound, life, held, pinned>>
  BY DEF Enroll, Goto, MoveTo, lifeVars, driverVars
<1>2. \A u \in Threads : pc'[u] = IF u = t THEN "handOver" ELSE pc[u]
  BY <1>1 DEF LifeInv, LifeTypes
<1>3. inner = mine[t] /\ held = {t}
  BY <1>1 DEF MapInv, EnrollsAlone
<1>4. life = "live" /\ \A u \in Threads : pc[u] = "enroll" => u = t
  BY <1>3, OwnersCounted DEF MapInv, EnrollsAlone
<1>5. InnerIsMapped' /\ EnrollsAlone'
  BY <1>1, <1>2, <1>3, <1>4 DEF InnerIsMapped, EnrollsAlone
<1>6. PublishesItsOwn' /\ ErasesDetached'
  BY <1>1, <1>2 DEF MapInv, PublishesItsOwn, ErasesDetached
<1>7. UnbornIsUnknown'
  BY <1>1, <1>4 DEF UnbornIsUnknown
<1>8. QED BY <1>5, <1>6, <1>7 DEF MapInv

(* The rest only move, take references and drop them.                      *)
LEMMA StepKeepsMap ==
  ASSUME LifeInv, CountInv, MapInv, NEW t \in Threads,
         EnsureInner(t) \/ Flush(t) \/ Stage(t) \/ Lock(t) \/ Lives(t) \/ Reset(t)
  PROVE  MapInv'
<1> USE MoverFacts, OnlyMovesKeepsMap
<1> USE DEF OnlyMoves, Goto, Start, MoveTo, DropReference, Pin, CanPin, AfterEnsure, AfterNoInner,
            AfterUnpin, Entitled, InCall, Steps, InnerSteps, PinSteps, PinTasks, DestroySteps,
            lifeVars, registryVars, driverVars
<1>1. CASE EnsureInner(t)
  <2>1. CASE Check(t)         BY <2>1 DEF Check
  <2>2. CASE MakeFails(t)     BY <2>2 DEF MakeFails
  <2>3. CASE PublishLoses(t)  BY <2>3 DEF PublishLoses
  <2>4. CASE Owe(t)           BY <2>4 DEF Owe
  <2>5. QED
    BY <1>1, <2>1, <2>2, <2>3, <2>4, MakeKeepsMap, PublishKeepsMap, RegisterKeepsMap
    DEF EnsureInner
<1>2. CASE Flush(t)
  <2>1. CASE Take(t)          BY <2>1 DEF Take
  <2>2. CASE MapFails(t)      BY <2>2 DEF MapFails
  <2>3. CASE MapSection(t)    BY <2>3 DEF MapSection
  <2>4. CASE NextLevel(t)     BY <2>4 DEF NextLevel
  <2>5. CASE NoMoreLevels(t)  BY <2>5 DEF NoMoreLevels
  <2>6. CASE Grab(t)          BY <2>6 DEF Grab
  <2>7. CASE GrabNothing(t)   BY <2>7 DEF GrabNothing
  <2>8. CASE Copy(t)          BY <2>8 DEF Copy
  <2>9. CASE Put(t)           BY <2>9 DEF Put
  <2>10. CASE UploadFails(t)  BY <2>10 DEF UploadFails
  <2>11. CASE LetGo(t)        BY <2>11 DEF LetGo
  <2>12. QED
    BY <1>2, <2>1, <2>2, <2>3, <2>4, <2>5, <2>6, <2>7, <2>8, <2>9, <2>10, <2>11 DEF Flush
<1>3. CASE Stage(t)
  <2>1. CASE Bind(t)          BY <2>1 DEF Bind
  <2>2. CASE Unpin(t)
    <3> DEFINE s == IF refs = 1 THEN "unregister" ELSE AfterUnpin(task[t])
    <3>1. s \in {"unregister", "set", "deviceReset", "idle"} /\ s \in Steps
      OBVIOUS
    <3>2. /\ pc' = [pc EXCEPT ![t] = s] /\ mine' = [mine EXCEPT ![t] = mine[t]]
          /\ UNCHANGED <<inner, bound, registered, byInner>>
          /\ life' = "unborn" => life = "unborn"
      BY <2>2 DEF Unpin
    <3>3. pc[t] = "unpin" /\ t \in pinned
      BY <2>2 DEF Unpin
    <3> HIDE DEF s
    <3>4. OnlyMoves(t, s, mine[t])
      BY <3>1, <3>2, <3>3
    <3>5. QED BY <3>1, <3>4
  <2>3. CASE SetTexture(t)    BY <2>3 DEF SetTexture
  <2>4. CASE BindOther(t)     BY <2>4 DEF BindOther
  <2>5. CASE GetTexture(t)    BY <2>5 DEF GetTexture, GetRaw
  <2>6. CASE Rewrap(t)        BY <2>6 DEF Rewrap
  <2>7. CASE RewrapMisses(t)  BY <2>7 DEF RewrapMisses
  <2>8. CASE Swap(t)          BY <2>8 DEF Swap
  <2>9. CASE Touch(t)         BY <2>9 DEF Touch
  <2>10. QED
    BY <1>3, <2>1, <2>2, <2>3, <2>4, <2>5, <2>6, <2>7, <2>8, <2>9 DEF Stage
<1>4. CASE Lock(t)
  <2>1. ASSUME NEW l \in Levels, NEW mode \in {"read", "write"}, LockRect(t, l, mode)
        PROVE  MapInv'
    BY <2>1 DEF LockRect
  <2>2. ASSUME NEW l \in Levels, UnlockReadOnly(t, l) PROVE MapInv'
    BY <2>2 DEF UnlockReadOnly
  <2>3. ASSUME NEW l \in Levels, UnlockRect(t, l) PROVE MapInv'
    BY <2>3 DEF UnlockRect
  <2>4. CASE MarkValid(t)     BY <2>4 DEF MarkValid
  <2>5. CASE MarkDirty(t)     BY <2>5 DEF MarkDirty
  <2>6. QED BY <1>4, <2>1, <2>2, <2>3, <2>4, <2>5 DEF Lock
<1>5. CASE Lives(t)
  <2>1. CASE HandOver(t)      BY <2>1 DEF HandOver
  <2>2. CASE Release(t)       BY <2>2 DEF Release
  <2>3. CASE Unregister(t)    BY <2>3 DEF Unregister
  <2>4. CASE Demolish(t)      BY <2>4 DEF Demolish
  <2>5. ASSUME NEW u \in Threads, AddRef(t, u) PROVE MapInv'
    BY <2>5 DEF AddRef
  <2>6. QED
    BY <1>5, <2>1, <2>2, <2>3, <2>4, <2>5, ConstructKeepsMap, EnrollKeepsMap DEF Lives
<1>6. CASE Reset(t)
  <2>1. CASE BeginReset(t)       BY <2>1 DEF BeginReset
  <2>2. CASE Snapshot(t)         BY <2>2 DEF Snapshot
  <2>3. CASE SnapshotSkips(t)    BY <2>3 DEF SnapshotSkips
  <2>4. CASE FreeInner(t)        BY <2>4 DEF FreeInner
  <2>5. CASE DeviceReset(t)      BY <2>5 DEF DeviceReset
  <2>6. CASE DeviceResetFails(t) BY <2>6 DEF DeviceResetFails
  <2>7. QED
    BY <1>6, <2>1, <2>2, <2>3, <2>4, <2>5, <2>6, DetachKeepsMap, EraseKeepsMap DEF Reset
<1>7. QED BY <1>1, <1>2, <1>3, <1>4, <1>5, <1>6

LEMMA MapInvHolds == Spec => []MapInv
<1>1. Init => MapInv
  BY DEF Init, MapInv, InnerIsMapped, EnrollsAlone, PublishesItsOwn, ErasesDetached,
         UnbornIsUnknown
<1>2. LifeInv /\ CountInv /\ MapInv /\ [Next]_vars => MapInv'
  <2>1. MapInv /\ UNCHANGED vars => MapInv'
    BY DEF vars, lifeVars, registryVars, driverVars, MapInv, InnerIsMapped, EnrollsAlone,
           PublishesItsOwn, ErasesDetached, UnbornIsUnknown
  <2>2. QED BY <2>1, StepKeepsMap DEF Next
<1>3. QED BY <1>1, <1>2, LifeInvHolds, CountInvHolds, PTL DEF Spec

(* However binds, resets and the destructor interleave, GetTexture can     *)
(* lead the texture that inner_ holds back to its wrapper, or the thread   *)
(* that installed it is about to make that so.                             *)
THEOREM PublishedInnerIsMapped == Spec => []InnerIsMapped
<1>1. MapInv => InnerIsMapped
  BY DEF MapInv
<1>2. QED BY <1>1, MapInvHolds, PTL

-----------------------------------------------------------------------------
(* The debt of uploads, with one thread that binds                         *)

OneBinder == \A t, u \in Binders : t = u

BindersFlush == \A t \in Threads : task[t] \in {"bind", "upload"} => t \in Binders
UnbornIsBlank == life = "unborn" => valid = {}
OwesWhileFlushing ==
  \A t \in Threads : owed[t] /= {} =>
    task[t] = "upload" \/ (task[t] = "bind" /\ pc[t] \in {"map", "next"})

(* An upload under way that will not pay for its level: it is about to     *)
(* fail, its texture has been replaced, or its copy is out of date. So the *)
(* debt that counts is only what somebody will really pay.                 *)
Doomed(t) ==
  /\ task[t] = "upload"
  /\ \/ pc[t] = "make"
     \/ pc[t] \in {"copy", "put"} /\ mine[t] /= inner
     \/ pc[t] = "put" /\ ~current[t]
WillPay(t, l) == l \in owed[t] /\ ~(Doomed(t) /\ level[t] = l)
Vouches(t, l) == WillPay(t, l) \/ Restoring(t, inner) \/ Unlocking(t, l)
DebtWillBePaid ==
  inner /= NoInner =>
    \A l \in valid \ dropped :
      l \in fresh[inner] \cup dirty \/ \E t \in Threads : Vouches(t, l)

(* An upload of an outdated copy spoils nothing that was current.          *)
StaleOverStale ==
  \A t \in Threads : pc[t] = "put" /\ ~current[t] => level[t] \notin fresh[mine[t]]

(* What is in dirty_ while a thread flushes came there after its Take.     *)
Flushing(s, k) == k = "upload" \/ (k = "bind" /\ s \in {"map", "next", "grab"})
MissesAreLate == \A t \in Threads : Flushing(pc[t], task[t]) => dirty \subseteq late[t]

(* A bind carries, from Grab to SetTexture, a texture that shows what was  *)
(* written.                                                                *)
Carrying(s, k, m) ==
  s \in {"unpin", "unregister", "demolish", "set"} /\ k = "bind" /\ m /= NoInner
Shows(t, l) == \/ l \in fresh[mine[t]] \cup late[t] \cup dropped
               \/ \E u \in Threads : Unlocking(u, l) \/ Restoring(u, mine[t])
CarriesWhatWasWritten ==
  \A t \in Threads : Carrying(pc[t], task[t], mine[t]) => \A l \in valid : Shows(t, l)

DebtInv == /\ BindersFlush /\ UnbornIsBlank /\ OwesWhileFlushing
           /\ DebtWillBePaid /\ StaleOverStale
           /\ MissesAreLate /\ CarriesWhatWasWritten

AllTyped == LifeInv /\ CountInv /\ FlushTypes /\ NamesLevel

(* What a texture in t's hands shows when t has flushed everything.        *)
LEMMA FlushedShows ==
  ASSUME OneBinder, AllTyped, DebtInv, NEW t \in Threads, NEW l \in valid,
         pc[t] = "grab", task[t] = "bind", inner /= NoInner
  PROVE  \/ l \in fresh[inner] \cup late[t] \cup dropped
         \/ \E u \in Threads : Unlocking(u, l) \/ Restoring(u, inner)
<1>1. ASSUME NEW u \in Threads PROVE ~WillPay(u, l)
  <2>1. u /= t => task[u] \notin {"bind", "upload"}
    BY DEF OneBinder, DebtInv, BindersFlush
  <2>2. owed[u] = {}
    BY <2>1 DEF DebtInv, OwesWhileFlushing
  <2>3. QED BY <2>2 DEF WillPay
<1>2. dirty \subseteq late[t]
  BY DEF DebtInv, MissesAreLate, Flushing
<1>3. QED BY <1>1, <1>2 DEF DebtInv, DebtWillBePaid, Vouches

(* A step of t after which every level is shown or owed as well as before: *)
(* t goes on to step s of call k with texture m and level n in hand, owing *)
(* w, and c says whether its copy is current. Written levels and dirty_    *)
(* stay as they are.                                                       *)
Quiet(t, s, k, m, n, w, c) ==
  /\ pc' = [pc EXCEPT ![t] = s] /\ task' = [task EXCEPT ![t] = k]
  /\ mine' = [mine EXCEPT ![t] = m] /\ level' = [level EXCEPT ![t] = n]
  /\ owed' = [owed EXCEPT ![t] = w] /\ current' = [current EXCEPT ![t] = c]
  /\ UNCHANGED <<valid, dirty>> /\ dropped \subseteq dropped'
  /\ late' = late \/ (late' = [late EXCEPT ![t] = {}] /\ ~Flushing(s, k) /\ ~Carrying(s, k, m))
  /\ \/ inner' \in {inner, NoInner}
     \/ inner' = m /\ s = "register"
     \/ valid = {}
  /\ \A i \in Inners : /\ fresh'[i] \subseteq fresh[i] \/ pc[t] = "put"
                       /\ fresh[i] \subseteq fresh'[i] \/ innerRefs[i] = 0
  /\ life' = "unborn" => life = "unborn"

(* Nobody who relied on t before is let down after it.                     *)
Reliable(t, s, k, m, n, w, c) ==
  /\ k \in {"bind", "upload"} => t \in Binders
  /\ w /= {} => k = "upload" \/ (k = "bind" /\ s \in {"map", "next"})
  /\ w \subseteq owed[t]
  /\ inner /= NoInner => \A l \in owed[t] \ w : \/ Doomed(t) /\ level[t] = l
                                                \/ l \in fresh'[inner] \cup dropped'
  /\ pc[t] \in {"register", "owe"} => s \in {"register", "owe"} /\ m = mine[t]
  /\ pc[t] \notin {"markValid", "markDirty"}
  /\ k = "upload" => /\ s = "make" => inner = NoInner
                     /\ s = "copy" => m = inner
  /\ s = "put" => pc[t] = "copy" /\ k = task[t] /\ m = mine[t] /\ n = level[t] /\ c
  /\ Flushing(s, k) => Flushing(pc[t], task[t])
  /\ Carrying(s, k, m) =>
       \/ Carrying(pc[t], task[t], mine[t]) /\ m = mine[t]
       \/ pc[t] = "grab" /\ task[t] = "bind" /\ m = inner

(* Nobody shows or waits for the texture at an address that has no owner.  *)
LEMMA FreshStaysWhereOwned ==
  ASSUME AllTyped, NEW i \in Inners, innerRefs[i] = 0, NEW u \in Threads
  PROVE  inner /= i /\ ~(mine[u] = i /\ Carrying(pc[u], task[u], mine[u]))
                    /\ ~(mine[u] = i /\ pc[u] \in {"grab", "put"})
BY NoOwners DEF AllTyped, Carrying

LEMMA QuietKeepsDebt ==
  ASSUME OneBinder, AllTyped, DebtInv, NEW t \in Threads, NEW s \in Steps, NEW k \in Tasks,
         NEW m \in InnerOrNone, NEW n \in Nat, NEW w \in SUBSET Levels, NEW c \in BOOLEAN,
         Quiet(t, s, k, m, n, w, c), Reliable(t, s, k, m, n, w, c)
  PROVE  DebtInv'
<1>1. \A u \in Threads : /\ pc'[u] = IF u = t THEN s ELSE pc[u]
                         /\ task'[u] = IF u = t THEN k ELSE task[u]
                         /\ mine'[u] = IF u = t THEN m ELSE mine[u]
                         /\ level'[u] = IF u = t THEN n ELSE level[u]
  BY DEF Quiet, AllTyped, LifeInv, LifeTypes, CountInv, Types, FlushTypes
<1>2. \A u \in Threads : /\ owed'[u] = IF u = t THEN w ELSE owed[u]
                         /\ (current'[u] <=> IF u = t THEN c ELSE current[u])
                         /\ u /= t => late'[u] = late[u]
  BY DEF Quiet, AllTyped, FlushTypes
<1>3. UNCHANGED <<valid, dirty>> /\ dropped \subseteq dropped'
  BY DEF Quiet
<1>4. Flushing(s, k) \/ Carrying(s, k, m) => late'[t] = late[t]
  BY DEF Quiet
<1>5. \A i \in Inners : \A u \in Threads :
        i = inner \/ (i = mine[u] /\ (Carrying(pc[u], task[u], mine[u]))) =>
          fresh[i] \subseteq fresh'[i]
  BY FreshStaysWhereOwned DEF Quiet
<1>6. BindersFlush' /\ UnbornIsBlank'
  BY <1>1, <1>3 DEF DebtInv, BindersFlush, UnbornIsBlank, Reliable, Quiet
<1>7. OwesWhileFlushing'
  BY <1>1, <1>2 DEF DebtInv, OwesWhileFlushing, Reliable
<1>8. DebtWillBePaid'
  <2> SUFFICES ASSUME inner' /= NoInner, NEW l \in valid' \ dropped'
               PROVE  l \in fresh'[inner'] \cup dirty' \/ \E u \in Threads : Vouches(u, l)'
    BY DEF DebtWillBePaid
  <2>1. CASE valid = {}
    BY <1>3, <2>1
  <2>2. CASE inner' = m /\ s = "register"
    BY <1>1, <2>2 DEF Vouches, Restoring
  <2>3. CASE inner' = inner
    <3>1. inner \in Inners /\ fresh[inner] \subseteq fresh'[inner] /\ l \in valid \ dropped
      BY <1>3, <1>5, <2>3 DEF AllTyped, CountInv, Types, InnerOrNone
    <3>2. ASSUME NEW u \in Threads, Vouches(u, l)
          PROVE  Vouches(u, l)' \/ l \in fresh'[inner]
      <4>1. CASE u = t
        <5>1. CASE WillPay(t, l)
          <6>1. CASE l \in w
            BY <1>1, <1>2, <2>3, <4>1, <5>1, <6>1
               DEF Vouches, WillPay, Doomed, Reliable
          <6>2. CASE l \notin w
            BY <2>3, <5>1, <6>2 DEF WillPay, Reliable
          <6>3. QED BY <6>1, <6>2
        <5>2. CASE Restoring(t, inner) \/ Unlocking(t, l)
          BY <1>1, <2>3, <4>1, <5>2 DEF Vouches, Restoring, Unlocking, Reliable
        <5>3. QED BY <3>2, <4>1, <5>1, <5>2 DEF Vouches
      <4>2. CASE u /= t
        BY <1>1, <1>2, <2>3, <3>2, <4>2 DEF Vouches, WillPay, Doomed, Restoring, Unlocking
      <4>3. QED BY <4>1, <4>2
    <3>3. QED BY <1>3, <2>3, <3>1, <3>2 DEF DebtInv, DebtWillBePaid
  <2>4. QED BY <2>1, <2>2, <2>3 DEF Quiet
<1>9. StaleOverStale'
  <2> SUFFICES ASSUME NEW u \in Threads, pc'[u] = "put", ~current'[u]
               PROVE  level'[u] \notin fresh'[mine'[u]]
    BY DEF StaleOverStale
  <2>1. u /= t /\ pc[u] = "put" /\ ~current[u] /\ level'[u] = level[u] /\ mine'[u] = mine[u]
    BY <1>1, <1>2 DEF Reliable
  <2>2. mine[u] \in Inners /\ level[u] \notin fresh[mine[u]] /\ task[u] = "upload"
    BY <2>1, MoverFacts
       DEF AllTyped, MayHold, Entitled, InCall, DestroySteps, DebtInv, StaleOverStale
  <2>3. pc[t] /= "put"
    BY <2>1, <2>2, MoverFacts
       DEF AllTyped, Entitled, InCall, DestroySteps, DebtInv, BindersFlush, OneBinder
  <2>4. QED BY <2>1, <2>2, <2>3 DEF Quiet
<1>10. MissesAreLate'
  BY <1>1, <1>2, <1>3, <1>4 DEF DebtInv, MissesAreLate, Reliable
<1>11. CarriesWhatWasWritten'
  <2> SUFFICES ASSUME NEW u \in Threads, Carrying(pc'[u], task'[u], mine'[u]),
                      NEW l \in valid
               PROVE  Shows(u, l)'
    BY <1>3 DEF CarriesWhatWasWritten
  <2>1. ASSUME NEW v \in Threads, NEW i, Unlocking(v, l) \/ Restoring(v, i)
        PROVE  (Unlocking(v, l) \/ \A j : j = i => Restoring(v, j))'
    BY <1>1, <2>1 DEF Unlocking, Restoring, Reliable
  <2>2. ASSUME NEW i \in Inners, mine'[u] = i, fresh[i] \subseteq fresh'[i],
               late'[u] = late[u],
               \/ l \in fresh[i] \cup late[u] \cup dropped
               \/ \E v \in Threads : Unlocking(v, l) \/ Restoring(v, i)
        PROVE  Shows(u, l)'
    BY <1>3, <2>1, <2>2 DEF Shows
  <2>3. CASE Carrying(pc[u], task[u], mine[u]) /\ mine'[u] = mine[u] /\ late'[u] = late[u]
    <3>1. mine[u] \in Inners /\ Shows(u, l)
      BY <2>3, MoverFacts DEF AllTyped, Carrying, InnerOrNone, DebtInv, CarriesWhatWasWritten
    <3>2. QED BY <1>5, <2>2, <2>3, <3>1 DEF Shows
  <2>4. CASE u = t /\ pc[t] = "grab" /\ task[t] = "bind" /\ m = inner
    <3>1. mine'[t] = inner /\ late'[t] = late[t] /\ inner \in Inners
      BY <1>1, <1>4, <2>4, MoverFacts DEF AllTyped, Carrying, InnerOrNone
    <3>2. QED
      BY <1>5, <2>2, <2>4, <3>1, FlushedShows, InnersAssumption
  <2>5. QED BY <1>1, <1>2, <1>4, <2>3, <2>4 DEF Reliable
<1>12. QED BY <1>6, <1>7, <1>8, <1>9, <1>10, <1>11 DEF DebtInv

QuietMove(t, s, k, m, n, w, c) ==
  /\ s \in Steps /\ k \in Tasks /\ m \in InnerOrNone
  /\ n \in Nat /\ w \in SUBSET Levels /\ c \in BOOLEAN
  /\ Quiet(t, s, k, m, n, w, c) /\ Reliable(t, s, k, m, n, w, c)

LEMMA QuietMoveKeepsDebt ==
  ASSUME OneBinder, AllTyped, DebtInv, NEW t \in Threads, NEW s, NEW k, NEW m, NEW n, NEW w,
         NEW c, QuietMove(t, s, k, m, n, w, c)
  PROVE  DebtInv'
BY QuietKeepsDebt DEF QuietMove

(* What the invariants say of thread t before a quiet step.                *)
LEMMA QuietFacts ==
  ASSUME AllTyped, DebtInv, NEW t \in Threads
  PROVE  /\ pc[t] \in Steps /\ task[t] \in Tasks /\ mine[t] \in InnerOrNone /\ level[t] \in Nat
         /\ owed[t] \in SUBSET Levels /\ current[t] \in BOOLEAN
         /\ inner \in InnerOrNone /\ bound \in InnerOrNone /\ NoInner \in InnerOrNone
         /\ pc = [pc EXCEPT ![t] = pc[t]] /\ task = [task EXCEPT ![t] = task[t]]
         /\ mine = [mine EXCEPT ![t] = mine[t]] /\ level = [level EXCEPT ![t] = level[t]]
         /\ owed = [owed EXCEPT ![t] = owed[t]] /\ current = [current EXCEPT ![t] = current[t]]
         /\ Entitled(t, pc[t], task[t]) /\ MayHold(pc[t], task[t], mine[t])
         /\ task[t] \in {"bind", "upload"} => t \in Binders
         /\ owed[t] /= {} =>
              task[t] = "upload" \/ (task[t] = "bind" /\ pc[t] \in {"map", "next"})
BY MoverFacts DEF AllTyped, DebtInv, BindersFlush, OwesWhileFlushing, FlushTypes, LifeInv,
                  LifeTypes

LEMMA EnsureKeepsDebt ==
  ASSUME OneBinder, AllTyped, DebtInv, NEW t \in Threads, EnsureInner(t),
         ~Owe(t)
  PROVE  DebtInv'
<1> USE QuietFacts
<1> USE DEF Goto, Start, MoveTo, DropReference, AfterEnsure, AfterNoInner, AfterUnpin, Entitled,
            MayHold, InCall, Steps, Tasks, HandSteps, DestroySteps, lifeVars, registryVars,
            driverVars, levelVars, flushVars
<1>1. CASE Check(t)
  <2> DEFINE s == IF inner = NoInner THEN "make" ELSE AfterEnsure(task[t])
             k == IF s = "idle" THEN "none" ELSE task[t]
  <2>1. s \in Steps /\ k \in Tasks
    BY <1>1 DEF Check
  <2>2. Quiet(t, s, k, mine[t], level[t], owed[t], current[t])
    BY <1>1 DEF Check, Quiet
  <2>3. Reliable(t, s, k, mine[t], level[t], owed[t], current[t])
    BY <1>1 DEF Check, Reliable, Flushing, Carrying
  <2> HIDE DEF s, k
  <2>4. QuietMove(t, s, k, mine[t], level[t], owed[t], current[t])
    BY <2>1, <2>2, <2>3 DEF QuietMove
  <2>5. QED BY <2>4, QuietMoveKeepsDebt
<1>2. CASE MakeFails(t)
  <2> DEFINE s == AfterNoInner(task[t])
             k == IF s = "idle" THEN "none" ELSE task[t]
             w == IF task[t] = "upload" THEN owed[t] \ {level[t]} ELSE owed[t]
  <2>1. s \in Steps /\ k \in Tasks /\ w \in SUBSET Levels
    BY <1>2 DEF MakeFails, GiveUp
  <2>2. Quiet(t, s, k, mine[t], level[t], w, current[t])
    BY <1>2 DEF MakeFails, GiveUp, Quiet
  <2>3. Reliable(t, s, k, mine[t], level[t], w, current[t])
    BY <1>2 DEF MakeFails, GiveUp, Reliable, Flushing, Carrying, Doomed
  <2> HIDE DEF s, k, w
  <2>4. QuietMove(t, s, k, mine[t], level[t], w, current[t])
    BY <2>1, <2>2, <2>3 DEF QuietMove
  <2>5. QED BY <2>4, QuietMoveKeepsDebt
<1>3. CASE Make(t)
  <2> PICK i \in Inners : mine' = [mine EXCEPT ![t] = i] /\ innerRefs[i] = 0 /\ fresh' = [fresh EXCEPT ![i] = {}]
    BY <1>3 DEF Make
  <2> DEFINE s == "publish"
             k == task[t]
  <2>1. s \in Steps /\ k \in Tasks /\ i \in InnerOrNone
    BY <1>3 DEF Make, InnerOrNone
  <2>2. Quiet(t, s, k, i, level[t], owed[t], current[t])
    BY <1>3 DEF Make, Quiet
  <2>3. Reliable(t, s, k, i, level[t], owed[t], current[t])
    BY <1>3 DEF Make, Reliable, Flushing, Carrying
  <2> HIDE DEF s, k
  <2>4. QuietMove(t, s, k, i, level[t], owed[t], current[t])
    BY <2>1, <2>2, <2>3 DEF QuietMove
  <2>5. QED BY <2>4, QuietMoveKeepsDebt
<1>4. CASE PublishLoses(t)
  <2> DEFINE s == AfterEnsure(task[t])
             k == IF s = "idle" THEN "none" ELSE task[t]
  <2>1. s \in Steps /\ k \in Tasks
    BY <1>4 DEF PublishLoses
  <2>2. Quiet(t, s, k, NoInner, level[t], owed[t], current[t])
    BY <1>4 DEF PublishLoses, Quiet
  <2>3. Reliable(t, s, k, NoInner, level[t], owed[t], current[t])
    BY <1>4 DEF PublishLoses, Reliable, Flushing, Carrying
  <2> HIDE DEF s, k
  <2>4. QuietMove(t, s, k, NoInner, level[t], owed[t], current[t])
    BY <2>1, <2>2, <2>3 DEF QuietMove
  <2>5. QED BY <2>4, QuietMoveKeepsDebt
<1>5. CASE Publish(t)
  <2> DEFINE s == "register"
             k == task[t]
  <2>1. s \in Steps /\ k \in Tasks
    BY <1>5 DEF Publish
  <2>2. Quiet(t, s, k, mine[t], level[t], owed[t], current[t])
    BY <1>5 DEF Publish, Quiet
  <2>3. Reliable(t, s, k, mine[t], level[t], owed[t], current[t])
    BY <1>5 DEF Publish, Reliable, Flushing, Carrying
  <2> HIDE DEF s, k
  <2>4. QuietMove(t, s, k, mine[t], level[t], owed[t], current[t])
    BY <2>1, <2>2, <2>3 DEF QuietMove
  <2>5. QED BY <2>4, QuietMoveKeepsDebt
<1>6. CASE Register(t)
  <2> DEFINE s == "owe"
             k == task[t]
  <2>1. s \in Steps /\ k \in Tasks
    BY <1>6 DEF Register
  <2>2. Quiet(t, s, k, mine[t], level[t], owed[t], current[t])
    BY <1>6 DEF Register, Quiet
  <2>3. Reliable(t, s, k, mine[t], level[t], owed[t], current[t])
    BY <1>6 DEF Register, Reliable, Flushing, Carrying
  <2> HIDE DEF s, k
  <2>4. QuietMove(t, s, k, mine[t], level[t], owed[t], current[t])
    BY <2>1, <2>2, <2>3 DEF QuietMove
  <2>5. QED BY <2>4, QuietMoveKeepsDebt
<1>7. QED
  BY <1>1, <1>2, <1>3, <1>4, <1>5, <1>6 DEF EnsureInner

LEMMA FlushKeepsDebt ==
  ASSUME OneBinder, AllTyped, DebtInv, NEW t \in Threads, Flush(t),
         ~Take(t), ~MapFails(t)
  PROVE  DebtInv'
<1> USE QuietFacts
<1> USE DEF Goto, Start, MoveTo, DropReference, AfterEnsure, AfterNoInner, AfterUnpin, Entitled,
            MayHold, InCall, Steps, Tasks, HandSteps, DestroySteps, lifeVars, registryVars,
            driverVars, levelVars, flushVars
<1>1. CASE MapSection(t)
  <2> DEFINE s == "next"
             k == task[t]
  <2>1. s \in Steps /\ k \in Tasks
    BY <1>1 DEF MapSection
  <2>2. Quiet(t, s, k, mine[t], level[t], owed[t], current[t])
    BY <1>1 DEF MapSection, Quiet
  <2>3. Reliable(t, s, k, mine[t], level[t], owed[t], current[t])
    BY <1>1 DEF MapSection, Reliable, Flushing, Carrying
  <2> HIDE DEF s, k
  <2>4. QuietMove(t, s, k, mine[t], level[t], owed[t], current[t])
    BY <2>1, <2>2, <2>3 DEF QuietMove
  <2>5. QED BY <2>4, QuietMoveKeepsDebt
<1>2. CASE NextLevel(t)
  <2> PICK i \in owed[t] : level' = [level EXCEPT ![t] = i]
    BY <1>2 DEF NextLevel
  <2> DEFINE s == "check"
             k == "upload"
  <2>1. s \in Steps /\ k \in Tasks /\ i \in Nat
    BY <1>2, LevelsAssumption DEF NextLevel
  <2>2. Quiet(t, s, k, mine[t], i, owed[t], current[t])
    BY <1>2 DEF NextLevel, Quiet
  <2>3. Reliable(t, s, k, mine[t], i, owed[t], current[t])
    BY <1>2 DEF NextLevel, Reliable, Flushing, Carrying
  <2> HIDE DEF s, k
  <2>4. QuietMove(t, s, k, mine[t], i, owed[t], current[t])
    BY <2>1, <2>2, <2>3 DEF QuietMove
  <2>5. QED BY <2>4, QuietMoveKeepsDebt
<1>3. CASE NoMoreLevels(t)
  <2> DEFINE s == "grab"
             k == "bind"
  <2>1. s \in Steps /\ k \in Tasks
    BY <1>3 DEF NoMoreLevels
  <2>2. Quiet(t, s, k, mine[t], 0, owed[t], current[t])
    BY <1>3 DEF NoMoreLevels, Quiet
  <2>3. Reliable(t, s, k, mine[t], 0, owed[t], current[t])
    BY <1>3 DEF NoMoreLevels, Reliable, Flushing, Carrying
  <2> HIDE DEF s, k
  <2>4. QuietMove(t, s, k, mine[t], 0, owed[t], current[t])
    BY <2>1, <2>2, <2>3 DEF QuietMove
  <2>5. QED BY <2>4, QuietMoveKeepsDebt
<1>4. CASE Grab(t)
  <2> DEFINE s == CASE task[t] = "upload" -> "copy"
                    [] task[t] = "touch"  -> "letGo"
                    [] OTHER              -> "unpin"
             k == task[t]
  <2>1. s \in Steps /\ k \in Tasks
    BY <1>4 DEF Grab
  <2>2. Quiet(t, s, k, inner, level[t], owed[t], current[t])
    BY <1>4 DEF Grab, Quiet
  <2>3. Reliable(t, s, k, inner, level[t], owed[t], current[t])
    BY <1>4 DEF Grab, Reliable, Flushing, Carrying
  <2> HIDE DEF s, k
  <2>4. QuietMove(t, s, k, inner, level[t], owed[t], current[t])
    BY <2>1, <2>2, <2>3 DEF QuietMove
  <2>5. QED BY <2>4, QuietMoveKeepsDebt
<1>5. CASE GrabNothing(t)
  <2> DEFINE s == AfterNoInner(task[t])
             k == IF s = "idle" THEN "none" ELSE task[t]
             w == IF task[t] = "upload" THEN owed[t] \ {level[t]} ELSE owed[t]
  <2>1. s \in Steps /\ k \in Tasks /\ w \in SUBSET Levels
    BY <1>5 DEF GrabNothing, GiveUp
  <2>2. Quiet(t, s, k, mine[t], level[t], w, current[t])
    BY <1>5 DEF GrabNothing, GiveUp, Quiet
  <2>3. Reliable(t, s, k, mine[t], level[t], w, current[t])
    BY <1>5 DEF GrabNothing, GiveUp, Reliable, Flushing, Carrying, Doomed
  <2> HIDE DEF s, k, w
  <2>4. QuietMove(t, s, k, mine[t], level[t], w, current[t])
    BY <2>1, <2>2, <2>3 DEF QuietMove
  <2>5. QED BY <2>4, QuietMoveKeepsDebt
<1>6. CASE Copy(t)
  <2> DEFINE s == "put"
             k == task[t]
  <2>1. s \in Steps /\ k \in Tasks
    BY <1>6 DEF Copy
  <2>2. Quiet(t, s, k, mine[t], level[t], owed[t], TRUE)
    BY <1>6 DEF Copy, Quiet
  <2>3. Reliable(t, s, k, mine[t], level[t], owed[t], TRUE)
    BY <1>6 DEF Copy, Reliable, Flushing, Carrying
  <2> HIDE DEF s, k
  <2>4. QuietMove(t, s, k, mine[t], level[t], owed[t], TRUE)
    BY <2>1, <2>2, <2>3 DEF QuietMove
  <2>5. QED BY <2>4, QuietMoveKeepsDebt
<1>7. CASE Put(t)
  <2> DEFINE s == "letGo"
             k == task[t]
             w == IF task[t] = "upload" THEN owed[t] \ {level[t]} ELSE owed[t]
  <2>1. s \in Steps /\ k \in Tasks /\ w \in SUBSET Levels
    BY <1>7 DEF Put, GiveUp
  <2>2. mine[t] \in Inners /\ pc[t] = "put" /\ task[t] = "upload"
    BY <1>7 DEF Put
  <2>3. ~current[t] => level[t] \notin fresh[mine[t]]
    BY <2>2 DEF DebtInv, StaleOverStale
  <2>4. /\ \A j \in Inners : fresh[j] \subseteq fresh'[j]
        /\ current[t] => level[t] \in fresh'[mine[t]]
    BY <1>7, <2>2, <2>3 DEF Put, AllTyped, FlushTypes
  <2>5. Quiet(t, s, k, mine[t], level[t], w, FALSE)
    BY <1>7, <2>3, <2>4 DEF Put, GiveUp, Quiet
  <2>6. Reliable(t, s, k, mine[t], level[t], w, FALSE)
    BY <1>7, <2>2, <2>3, <2>4 DEF Put, GiveUp, Reliable, Flushing, Carrying, Doomed
  <2> HIDE DEF s, k, w
  <2>7. QuietMove(t, s, k, mine[t], level[t], w, FALSE)
    BY <2>1, <2>5, <2>6 DEF QuietMove
  <2>8. QED BY <2>7, QuietMoveKeepsDebt
<1>8. CASE UploadFails(t)
  <2> DEFINE s == "letGo"
             k == task[t]
             w == IF task[t] = "upload" THEN owed[t] \ {level[t]} ELSE owed[t]
  <2>1. s \in Steps /\ k \in Tasks /\ w \in SUBSET Levels
    BY <1>8 DEF UploadFails, GiveUp
  <2>2. Quiet(t, s, k, mine[t], level[t], w, FALSE)
    BY <1>8 DEF UploadFails, GiveUp, Quiet
  <2>3. Reliable(t, s, k, mine[t], level[t], w, FALSE)
    BY <1>8 DEF UploadFails, GiveUp, Reliable, Flushing, Carrying, Doomed
  <2> HIDE DEF s, k, w
  <2>4. QuietMove(t, s, k, mine[t], level[t], w, FALSE)
    BY <2>1, <2>2, <2>3 DEF QuietMove
  <2>5. QED BY <2>4, QuietMoveKeepsDebt
<1>9. CASE LetGo(t)
  <2> DEFINE s == AfterNoInner(task[t])
             k == IF s = "idle" THEN "none" ELSE task[t]
  <2>1. s \in Steps /\ k \in Tasks
    BY <1>9 DEF LetGo
  <2>2. Quiet(t, s, k, NoInner, level[t], owed[t], current[t])
    BY <1>9 DEF LetGo, Quiet
  <2>3. Reliable(t, s, k, NoInner, level[t], owed[t], current[t])
    BY <1>9 DEF LetGo, Reliable, Flushing, Carrying
  <2> HIDE DEF s, k
  <2>4. QuietMove(t, s, k, NoInner, level[t], owed[t], current[t])
    BY <2>1, <2>2, <2>3 DEF QuietMove
  <2>5. QED BY <2>4, QuietMoveKeepsDebt
<1>10. QED
  BY <1>1, <1>2, <1>3, <1>4, <1>5, <1>6, <1>7, <1>8, <1>9 DEF Flush

LEMMA StageKeepsDebt ==
  ASSUME OneBinder, AllTyped, DebtInv, NEW t \in Threads, Stage(t)
  PROVE  DebtInv'
<1> USE QuietFacts
<1> USE DEF Goto, Start, MoveTo, DropReference, AfterEnsure, AfterNoInner, AfterUnpin, Entitled,
            MayHold, InCall, Steps, Tasks, HandSteps, DestroySteps, lifeVars, registryVars,
            driverVars, levelVars, flushVars
<1>1. CASE Bind(t)
  <2> DEFINE s == "check"
             k == "bind"
  <2>1. s \in Steps /\ k \in Tasks
    BY <1>1 DEF Bind, Pin
  <2>2. Quiet(t, s, k, mine[t], level[t], owed[t], current[t])
    BY <1>1 DEF Bind, Pin, Quiet
  <2>3. Reliable(t, s, k, mine[t], level[t], owed[t], current[t])
    BY <1>1 DEF Bind, Pin, Reliable, Flushing, Carrying
  <2> HIDE DEF s, k
  <2>4. QuietMove(t, s, k, mine[t], level[t], owed[t], current[t])
    BY <2>1, <2>2, <2>3 DEF QuietMove
  <2>5. QED BY <2>4, QuietMoveKeepsDebt
<1>2. CASE Unpin(t)
  <2> DEFINE s == IF refs = 1 THEN "unregister" ELSE AfterUnpin(task[t])
             k == IF s = "idle" THEN "none" ELSE task[t]
  <2>1. s \in Steps /\ k \in Tasks
    BY <1>2 DEF Unpin
  <2>2. Quiet(t, s, k, mine[t], level[t], owed[t], current[t])
    BY <1>2 DEF Unpin, Quiet
  <2>3. Reliable(t, s, k, mine[t], level[t], owed[t], current[t])
    BY <1>2 DEF Unpin, Reliable, Flushing, Carrying
  <2> HIDE DEF s, k
  <2>4. QuietMove(t, s, k, mine[t], level[t], owed[t], current[t])
    BY <2>1, <2>2, <2>3 DEF QuietMove
  <2>5. QED BY <2>4, QuietMoveKeepsDebt
<1>3. CASE SetTexture(t)
  <2> DEFINE s == "idle"
             k == "none"
  <2>1. s \in Steps /\ k \in Tasks
    BY <1>3 DEF SetTexture
  <2>2. Quiet(t, s, k, NoInner, level[t], owed[t], current[t])
    BY <1>3 DEF SetTexture, Quiet, Flushing, Carrying
  <2>3. Reliable(t, s, k, NoInner, level[t], owed[t], current[t])
    BY <1>3 DEF SetTexture, Reliable, Flushing, Carrying
  <2> HIDE DEF s, k
  <2>4. QuietMove(t, s, k, NoInner, level[t], owed[t], current[t])
    BY <2>1, <2>2, <2>3 DEF QuietMove
  <2>5. QED BY <2>4, QuietMoveKeepsDebt
<1>4. CASE BindOther(t)
  <2> DEFINE s == pc[t]
             k == task[t]
  <2>1. s \in Steps /\ k \in Tasks
    BY <1>4 DEF BindOther
  <2>2. Quiet(t, s, k, mine[t], level[t], owed[t], current[t])
    BY <1>4 DEF BindOther, Quiet
  <2>3. Reliable(t, s, k, mine[t], level[t], owed[t], current[t])
    BY <1>4 DEF BindOther, Reliable, Flushing, Carrying
  <2> HIDE DEF s, k
  <2>4. QuietMove(t, s, k, mine[t], level[t], owed[t], current[t])
    BY <2>1, <2>2, <2>3 DEF QuietMove
  <2>5. QED BY <2>4, QuietMoveKeepsDebt
<1>5. CASE GetTexture(t)
  <2> DEFINE s == "rewrap"
             k == "get"
  <2>1. s \in Steps /\ k \in Tasks
    BY <1>5 DEF GetTexture, GetRaw
  <2>2. Quiet(t, s, k, bound, level[t], owed[t], current[t])
    BY <1>5 DEF GetTexture, GetRaw, Quiet
  <2>3. Reliable(t, s, k, bound, level[t], owed[t], current[t])
    BY <1>5 DEF GetTexture, GetRaw, Reliable, Flushing, Carrying
  <2> HIDE DEF s, k
  <2>4. QuietMove(t, s, k, bound, level[t], owed[t], current[t])
    BY <2>1, <2>2, <2>3 DEF QuietMove
  <2>5. QED BY <2>4, QuietMoveKeepsDebt
<1>6. CASE Rewrap(t)
  <2> DEFINE s == "swap"
             k == task[t]
  <2>1. s \in Steps /\ k \in Tasks
    BY <1>6 DEF Rewrap, Pin
  <2>2. Quiet(t, s, k, mine[t], level[t], owed[t], current[t])
    BY <1>6 DEF Rewrap, Pin, Quiet
  <2>3. Reliable(t, s, k, mine[t], level[t], owed[t], current[t])
    BY <1>6 DEF Rewrap, Pin, Reliable, Flushing, Carrying
  <2> HIDE DEF s, k
  <2>4. QuietMove(t, s, k, mine[t], level[t], owed[t], current[t])
    BY <2>1, <2>2, <2>3 DEF QuietMove
  <2>5. QED BY <2>4, QuietMoveKeepsDebt
<1>7. CASE RewrapMisses(t)
  <2> DEFINE s == "idle"
             k == "none"
  <2>1. s \in Steps /\ k \in Tasks
    BY <1>7 DEF RewrapMisses
  <2>2. Quiet(t, s, k, NoInner, level[t], owed[t], current[t])
    BY <1>7 DEF RewrapMisses, Quiet
  <2>3. Reliable(t, s, k, NoInner, level[t], owed[t], current[t])
    BY <1>7 DEF RewrapMisses, Reliable, Flushing, Carrying
  <2> HIDE DEF s, k
  <2>4. QuietMove(t, s, k, NoInner, level[t], owed[t], current[t])
    BY <2>1, <2>2, <2>3 DEF QuietMove
  <2>5. QED BY <2>4, QuietMoveKeepsDebt
<1>8. CASE Swap(t)
  <2> DEFINE s == "unpin"
             k == task[t]
  <2>1. s \in Steps /\ k \in Tasks
    BY <1>8 DEF Swap
  <2>2. Quiet(t, s, k, NoInner, level[t], owed[t], current[t])
    BY <1>8 DEF Swap, Quiet
  <2>3. Reliable(t, s, k, NoInner, level[t], owed[t], current[t])
    BY <1>8 DEF Swap, Reliable, Flushing, Carrying
  <2> HIDE DEF s, k
  <2>4. QuietMove(t, s, k, NoInner, level[t], owed[t], current[t])
    BY <2>1, <2>2, <2>3 DEF QuietMove
  <2>5. QED BY <2>4, QuietMoveKeepsDebt
<1>9. CASE Touch(t)
  <2> DEFINE s == "check"
             k == "touch"
  <2>1. s \in Steps /\ k \in Tasks
    BY <1>9 DEF Touch
  <2>2. Quiet(t, s, k, mine[t], level[t], owed[t], current[t])
    BY <1>9 DEF Touch, Quiet
  <2>3. Reliable(t, s, k, mine[t], level[t], owed[t], current[t])
    BY <1>9 DEF Touch, Reliable, Flushing, Carrying
  <2> HIDE DEF s, k
  <2>4. QuietMove(t, s, k, mine[t], level[t], owed[t], current[t])
    BY <2>1, <2>2, <2>3 DEF QuietMove
  <2>5. QED BY <2>4, QuietMoveKeepsDebt
<1>10. QED
  BY <1>1, <1>2, <1>3, <1>4, <1>5, <1>6, <1>7, <1>8, <1>9 DEF Stage

LEMMA LockKeepsDebt ==
  ASSUME OneBinder, AllTyped, DebtInv, NEW t \in Threads, Lock(t),
         \A l \in Levels : ~UnlockRect(t, l), ~MarkValid(t), ~MarkDirty(t)
  PROVE  DebtInv'
<1> USE QuietFacts
<1> USE DEF Goto, Start, MoveTo, DropReference, AfterEnsure, AfterNoInner, AfterUnpin, Entitled,
            MayHold, InCall, Steps, Tasks, HandSteps, DestroySteps, lifeVars, registryVars,
            driverVars, levelVars, flushVars
<1>1. ASSUME NEW l \in Levels, NEW mode \in {"read", "write"}, LockRect(t, l, mode) PROVE DebtInv'
  <2> DEFINE s == pc[t]
             k == task[t]
  <2>1. s \in Steps /\ k \in Tasks
    BY <1>1 DEF LockRect
  <2>2. Quiet(t, s, k, mine[t], level[t], owed[t], current[t])
    BY <1>1 DEF LockRect, Quiet
  <2>3. Reliable(t, s, k, mine[t], level[t], owed[t], current[t])
    BY <1>1 DEF LockRect, Reliable, Flushing, Carrying
  <2> HIDE DEF s, k
  <2>4. QuietMove(t, s, k, mine[t], level[t], owed[t], current[t])
    BY <2>1, <2>2, <2>3 DEF QuietMove
  <2>5. QED BY <2>4, QuietMoveKeepsDebt
<1>2. ASSUME NEW l \in Levels, UnlockReadOnly(t, l) PROVE DebtInv'
  <2> DEFINE s == pc[t]
             k == task[t]
  <2>1. s \in Steps /\ k \in Tasks
    BY <1>2 DEF UnlockReadOnly
  <2>2. Quiet(t, s, k, mine[t], level[t], owed[t], current[t])
    BY <1>2 DEF UnlockReadOnly, Quiet
  <2>3. Reliable(t, s, k, mine[t], level[t], owed[t], current[t])
    BY <1>2 DEF UnlockReadOnly, Reliable, Flushing, Carrying
  <2> HIDE DEF s, k
  <2>4. QuietMove(t, s, k, mine[t], level[t], owed[t], current[t])
    BY <2>1, <2>2, <2>3 DEF QuietMove
  <2>5. QED BY <2>4, QuietMoveKeepsDebt
<1>3. QED
  BY <1>1, <1>2 DEF Lock

LEMMA LivesKeepsDebt ==
  ASSUME OneBinder, AllTyped, DebtInv, NEW t \in Threads, Lives(t)
  PROVE  DebtInv'
<1> USE QuietFacts
<1> USE DEF Goto, Start, MoveTo, DropReference, AfterEnsure, AfterNoInner, AfterUnpin, Entitled,
            MayHold, InCall, Steps, Tasks, HandSteps, DestroySteps, lifeVars, registryVars,
            driverVars, levelVars, flushVars
<1>1. CASE Construct(t)
  <2> PICK i \in Inners : mine' = [mine EXCEPT ![t] = i] /\ innerRefs[i] = 0 /\ fresh' = [fresh EXCEPT ![i] = {}]
    BY <1>1 DEF Construct
  <2> DEFINE s == "enroll"
             k == "create"
  <2>1. s \in Steps /\ k \in Tasks /\ i \in InnerOrNone
    BY <1>1 DEF Construct, InnerOrNone
  <2>2. Quiet(t, s, k, i, level[t], owed[t], current[t])
    <3>1. valid = {} /\ life' = "live"
      BY <1>1 DEF Construct, DebtInv, UnbornIsBlank
    <3>2. \A j \in Inners : fresh'[j] \subseteq fresh[j] /\ (fresh[j] \subseteq fresh'[j] \/ j = i)
      BY <1>1 DEF AllTyped, FlushTypes
    <3>3. QED BY <1>1, <3>1, <3>2 DEF Construct, Quiet
  <2>3. Reliable(t, s, k, i, level[t], owed[t], current[t])
    BY <1>1 DEF Construct, Reliable, Flushing, Carrying
  <2> HIDE DEF s, k
  <2>4. QuietMove(t, s, k, i, level[t], owed[t], current[t])
    BY <2>1, <2>2, <2>3 DEF QuietMove
  <2>5. QED BY <2>4, QuietMoveKeepsDebt
<1>2. CASE Enroll(t)
  <2> DEFINE s == "handOver"
             k == task[t]
  <2>1. s \in Steps /\ k \in Tasks
    BY <1>2 DEF Enroll
  <2>2. Quiet(t, s, k, mine[t], level[t], owed[t], current[t])
    BY <1>2 DEF Enroll, Quiet
  <2>3. Reliable(t, s, k, mine[t], level[t], owed[t], current[t])
    BY <1>2 DEF Enroll, Reliable, Flushing, Carrying
  <2> HIDE DEF s, k
  <2>4. QuietMove(t, s, k, mine[t], level[t], owed[t], current[t])
    BY <2>1, <2>2, <2>3 DEF QuietMove
  <2>5. QED BY <2>4, QuietMoveKeepsDebt
<1>3. CASE HandOver(t)
  <2> DEFINE s == "idle"
             k == "none"
  <2>1. s \in Steps /\ k \in Tasks
    BY <1>3 DEF HandOver
  <2>2. Quiet(t, s, k, NoInner, level[t], owed[t], current[t])
    BY <1>3 DEF HandOver, Quiet
  <2>3. Reliable(t, s, k, NoInner, level[t], owed[t], current[t])
    BY <1>3 DEF HandOver, Reliable, Flushing, Carrying
  <2> HIDE DEF s, k
  <2>4. QuietMove(t, s, k, NoInner, level[t], owed[t], current[t])
    BY <2>1, <2>2, <2>3 DEF QuietMove
  <2>5. QED BY <2>4, QuietMoveKeepsDebt
<1>4. CASE Release(t)
  <2> DEFINE s == IF refs = 1 THEN "unregister" ELSE "idle"
             k == IF s = "idle" THEN "none" ELSE task[t]
  <2>1. s \in Steps /\ k \in Tasks
    BY <1>4 DEF Release
  <2>2. Quiet(t, s, k, mine[t], level[t], owed[t], current[t])
    BY <1>4 DEF Release, Quiet
  <2>3. Reliable(t, s, k, mine[t], level[t], owed[t], current[t])
    BY <1>4 DEF Release, Reliable, Flushing, Carrying
  <2> HIDE DEF s, k
  <2>4. QuietMove(t, s, k, mine[t], level[t], owed[t], current[t])
    BY <2>1, <2>2, <2>3 DEF QuietMove
  <2>5. QED BY <2>4, QuietMoveKeepsDebt
<1>5. CASE Unregister(t)
  <2> DEFINE s == "demolish"
             k == task[t]
  <2>1. s \in Steps /\ k \in Tasks
    BY <1>5 DEF Unregister
  <2>2. Quiet(t, s, k, mine[t], level[t], owed[t], current[t])
    BY <1>5 DEF Unregister, Quiet
  <2>3. Reliable(t, s, k, mine[t], level[t], owed[t], current[t])
    BY <1>5 DEF Unregister, Reliable, Flushing, Carrying
  <2> HIDE DEF s, k
  <2>4. QuietMove(t, s, k, mine[t], level[t], owed[t], current[t])
    BY <2>1, <2>2, <2>3 DEF QuietMove
  <2>5. QED BY <2>4, QuietMoveKeepsDebt
<1>6. CASE Demolish(t)
  <2> DEFINE s == AfterUnpin(task[t])
             k == IF s = "idle" THEN "none" ELSE task[t]
  <2>1. s \in Steps /\ k \in Tasks
    BY <1>6 DEF Demolish
  <2>2. Quiet(t, s, k, mine[t], level[t], owed[t], current[t])
    BY <1>6 DEF Demolish, Quiet
  <2>3. Reliable(t, s, k, mine[t], level[t], owed[t], current[t])
    BY <1>6 DEF Demolish, Reliable, Flushing, Carrying
  <2> HIDE DEF s, k
  <2>4. QuietMove(t, s, k, mine[t], level[t], owed[t], current[t])
    BY <2>1, <2>2, <2>3 DEF QuietMove
  <2>5. QED BY <2>4, QuietMoveKeepsDebt
<1>7. ASSUME NEW u \in Threads, AddRef(t, u) PROVE DebtInv'
  <2> DEFINE s == pc[t]
             k == task[t]
  <2>1. s \in Steps /\ k \in Tasks
    BY <1>7 DEF AddRef
  <2>2. Quiet(t, s, k, mine[t], level[t], owed[t], current[t])
    BY <1>7 DEF AddRef, Quiet
  <2>3. Reliable(t, s, k, mine[t], level[t], owed[t], current[t])
    BY <1>7 DEF AddRef, Reliable, Flushing, Carrying
  <2> HIDE DEF s, k
  <2>4. QuietMove(t, s, k, mine[t], level[t], owed[t], current[t])
    BY <2>1, <2>2, <2>3 DEF QuietMove
  <2>5. QED BY <2>4, QuietMoveKeepsDebt
<1>8. QED
  BY <1>1, <1>2, <1>3, <1>4, <1>5, <1>6, <1>7 DEF Lives

LEMMA ResetKeepsDebt ==
  ASSUME OneBinder, AllTyped, DebtInv, NEW t \in Threads, Reset(t)
  PROVE  DebtInv'
<1> USE QuietFacts
<1> USE DEF Goto, Start, MoveTo, DropReference, AfterEnsure, AfterNoInner, AfterUnpin, Entitled,
            MayHold, InCall, Steps, Tasks, HandSteps, DestroySteps, lifeVars, registryVars,
            driverVars, levelVars, flushVars
<1>1. CASE BeginReset(t)
  <2> DEFINE s == "snapshot"
             k == "reset"
  <2>1. s \in Steps /\ k \in Tasks
    BY <1>1 DEF BeginReset
  <2>2. Quiet(t, s, k, mine[t], level[t], owed[t], current[t])
    BY <1>1 DEF BeginReset, Quiet
  <2>3. Reliable(t, s, k, mine[t], level[t], owed[t], current[t])
    BY <1>1 DEF BeginReset, Reliable, Flushing, Carrying
  <2> HIDE DEF s, k
  <2>4. QuietMove(t, s, k, mine[t], level[t], owed[t], current[t])
    BY <2>1, <2>2, <2>3 DEF QuietMove
  <2>5. QED BY <2>4, QuietMoveKeepsDebt
<1>2. CASE Snapshot(t)
  <2> DEFINE s == IF task[t] = "reset" THEN "detach" ELSE "check"
             k == task[t]
  <2>1. s \in Steps /\ k \in Tasks
    BY <1>2 DEF Snapshot, Pin
  <2>2. Quiet(t, s, k, mine[t], level[t], owed[t], current[t])
    BY <1>2 DEF Snapshot, Pin, Quiet
  <2>3. Reliable(t, s, k, mine[t], level[t], owed[t], current[t])
    BY <1>2 DEF Snapshot, Pin, Reliable, Flushing, Carrying
  <2> HIDE DEF s, k
  <2>4. QuietMove(t, s, k, mine[t], level[t], owed[t], current[t])
    BY <2>1, <2>2, <2>3 DEF QuietMove
  <2>5. QED BY <2>4, QuietMoveKeepsDebt
<1>3. CASE SnapshotSkips(t)
  <2> DEFINE s == AfterUnpin(task[t])
             k == IF s = "idle" THEN "none" ELSE task[t]
  <2>1. s \in Steps /\ k \in Tasks
    BY <1>3 DEF SnapshotSkips
  <2>2. Quiet(t, s, k, mine[t], level[t], owed[t], current[t])
    BY <1>3 DEF SnapshotSkips, Quiet
  <2>3. Reliable(t, s, k, mine[t], level[t], owed[t], current[t])
    BY <1>3 DEF SnapshotSkips, Reliable, Flushing, Carrying
  <2> HIDE DEF s, k
  <2>4. QuietMove(t, s, k, mine[t], level[t], owed[t], current[t])
    BY <2>1, <2>2, <2>3 DEF QuietMove
  <2>5. QED BY <2>4, QuietMoveKeepsDebt
<1>4. CASE Detach(t)
  <2> DEFINE s == IF inner = NoInner THEN "unpin" ELSE "erase"
             k == task[t]
  <2>1. s \in Steps /\ k \in Tasks
    BY <1>4 DEF Detach
  <2>2. Quiet(t, s, k, inner, level[t], owed[t], current[t])
    BY <1>4 DEF Detach, Quiet
  <2>3. Reliable(t, s, k, inner, level[t], owed[t], current[t])
    BY <1>4 DEF Detach, Reliable, Flushing, Carrying
  <2> HIDE DEF s, k
  <2>4. QuietMove(t, s, k, inner, level[t], owed[t], current[t])
    BY <2>1, <2>2, <2>3 DEF QuietMove
  <2>5. QED BY <2>4, QuietMoveKeepsDebt
<1>5. CASE Erase(t)
  <2> DEFINE s == "freeInner"
             k == task[t]
  <2>1. s \in Steps /\ k \in Tasks
    BY <1>5 DEF Erase
  <2>2. Quiet(t, s, k, mine[t], level[t], owed[t], current[t])
    BY <1>5 DEF Erase, Quiet
  <2>3. Reliable(t, s, k, mine[t], level[t], owed[t], current[t])
    BY <1>5 DEF Erase, Reliable, Flushing, Carrying
  <2> HIDE DEF s, k
  <2>4. QuietMove(t, s, k, mine[t], level[t], owed[t], current[t])
    BY <2>1, <2>2, <2>3 DEF QuietMove
  <2>5. QED BY <2>4, QuietMoveKeepsDebt
<1>6. CASE FreeInner(t)
  <2> DEFINE s == "unpin"
             k == task[t]
  <2>1. s \in Steps /\ k \in Tasks
    BY <1>6 DEF FreeInner
  <2>2. Quiet(t, s, k, NoInner, level[t], owed[t], current[t])
    BY <1>6 DEF FreeInner, Quiet
  <2>3. Reliable(t, s, k, NoInner, level[t], owed[t], current[t])
    BY <1>6 DEF FreeInner, Reliable, Flushing, Carrying
  <2> HIDE DEF s, k
  <2>4. QuietMove(t, s, k, NoInner, level[t], owed[t], current[t])
    BY <2>1, <2>2, <2>3 DEF QuietMove
  <2>5. QED BY <2>4, QuietMoveKeepsDebt
<1>7. CASE DeviceReset(t)
  <2> DEFINE s == "snapshot"
             k == "restore"
  <2>1. s \in Steps /\ k \in Tasks
    BY <1>7 DEF DeviceReset
  <2>2. Quiet(t, s, k, mine[t], level[t], owed[t], current[t])
    BY <1>7 DEF DeviceReset, Quiet
  <2>3. Reliable(t, s, k, mine[t], level[t], owed[t], current[t])
    BY <1>7 DEF DeviceReset, Reliable, Flushing, Carrying
  <2> HIDE DEF s, k
  <2>4. QuietMove(t, s, k, mine[t], level[t], owed[t], current[t])
    BY <2>1, <2>2, <2>3 DEF QuietMove
  <2>5. QED BY <2>4, QuietMoveKeepsDebt
<1>8. CASE DeviceResetFails(t)
  <2> DEFINE s == "idle"
             k == "none"
  <2>1. s \in Steps /\ k \in Tasks
    BY <1>8 DEF DeviceResetFails
  <2>2. Quiet(t, s, k, mine[t], level[t], owed[t], current[t])
    BY <1>8 DEF DeviceResetFails, Quiet
  <2>3. Reliable(t, s, k, mine[t], level[t], owed[t], current[t])
    BY <1>8 DEF DeviceResetFails, Reliable, Flushing, Carrying
  <2> HIDE DEF s, k
  <2>4. QuietMove(t, s, k, mine[t], level[t], owed[t], current[t])
    BY <2>1, <2>2, <2>3 DEF QuietMove
  <2>5. QED BY <2>4, QuietMoveKeepsDebt
<1>9. QED
  BY <1>1, <1>2, <1>3, <1>4, <1>5, <1>6, <1>7, <1>8 DEF Reset

(* A step of t that marks the levels ls dirty and takes over every debt    *)
(* that t vouched for.                                                     *)
Marks(t, s, k, m, n, w, ls) ==
  /\ s \in Steps /\ k \in Tasks /\ m \in InnerOrNone
  /\ n \in Nat /\ w \in SUBSET Levels /\ ls \in SUBSET Levels
  /\ pc' = [pc EXCEPT ![t] = s] /\ task' = [task EXCEPT ![t] = k]
  /\ mine' = [mine EXCEPT ![t] = m] /\ level' = [level EXCEPT ![t] = n]
  /\ owed' = [owed EXCEPT ![t] = w]
  /\ MarkAll(ls) /\ UNCHANGED <<life, inner, fresh, valid, current>>
  /\ k \in {"bind", "upload"} => t \in Binders
  /\ w /= {} => k = "upload"
  /\ w \subseteq owed[t] /\ owed[t] \ w \subseteq ls
  /\ pc[t] \in {"register", "owe"} => ls = valid
  /\ pc[t] \in {"markValid", "markDirty"} => level[t] \in ls
  /\ s \notin {"make", "copy", "put"} /\ ~Carrying(s, k, m)
  /\ Flushing(s, k) => Flushing(pc[t], task[t])

LEMMA MarkingKeepsDebt ==
  ASSUME OneBinder, AllTyped, DebtInv, NEW t \in Threads, NEW s, NEW k, NEW m, NEW n, NEW w,
         NEW ls, Marks(t, s, k, m, n, w, ls)
  PROVE  DebtInv'
<1>1. \A u \in Threads : /\ pc'[u] = IF u = t THEN s ELSE pc[u]
                         /\ task'[u] = IF u = t THEN k ELSE task[u]
                         /\ mine'[u] = IF u = t THEN m ELSE mine[u]
                         /\ level'[u] = IF u = t THEN n ELSE level[u]
                         /\ owed'[u] = IF u = t THEN w ELSE owed[u]
  BY DEF Marks, AllTyped, LifeInv, LifeTypes, CountInv, Types, FlushTypes
<1>2. /\ dirty' = dirty \cup ls /\ dropped' = dropped \ ls
      /\ \A u \in Threads : /\ late[u] \subseteq late'[u]
                            /\ task[u] \in {"bind", "upload"} => late'[u] = late[u] \cup ls
  BY DEF Marks, MarkAll
<1>3. UNCHANGED <<life, inner, fresh, valid, current>>
  BY DEF Marks
<1>4. BindersFlush' /\ UnbornIsBlank'
  BY <1>1, <1>3 DEF DebtInv, BindersFlush, UnbornIsBlank, Marks
<1>5. OwesWhileFlushing'
  BY <1>1 DEF DebtInv, OwesWhileFlushing, Marks
<1>6. DebtWillBePaid'
  <2>1. ASSUME NEW l \in valid, NEW u \in Threads, Vouches(u, l), inner /= NoInner
        PROVE  Vouches(u, l)' \/ l \in ls
    <3>1. CASE u = t
      BY <1>1, <1>3, <2>1, <3>1 DEF Vouches, WillPay, Doomed, Restoring, Unlocking, Marks
    <3>2. CASE u /= t
      BY <1>1, <1>3, <2>1, <3>2 DEF Vouches, WillPay, Doomed, Restoring, Unlocking
    <3>3. QED BY <3>1, <3>2
  <2>2. QED BY <1>2, <1>3, <2>1 DEF DebtInv, DebtWillBePaid
<1>7. StaleOverStale'
  BY <1>1, <1>3 DEF DebtInv, StaleOverStale, Marks
<1>8. MissesAreLate'
  <2> SUFFICES ASSUME NEW u \in Threads, Flushing(pc'[u], task'[u])
               PROVE  dirty' \subseteq late'[u]
    BY DEF MissesAreLate
  <2>1. Flushing(pc[u], task[u])
    BY <1>1 DEF Marks
  <2>2. task[u] \in {"bind", "upload"} /\ dirty \subseteq late[u]
    BY <2>1 DEF Flushing, DebtInv, MissesAreLate
  <2>3. QED BY <1>2, <2>2
<1>9. CarriesWhatWasWritten'
  <2> SUFFICES ASSUME NEW u \in Threads, Carrying(pc'[u], task'[u], mine'[u]),
                      NEW l \in valid
               PROVE  Shows(u, l)'
    BY <1>3 DEF CarriesWhatWasWritten
  <2>1. u /= t /\ Carrying(pc[u], task[u], mine[u]) /\ mine'[u] = mine[u]
    BY <1>1 DEF Marks
  <2>2. Shows(u, l) /\ late'[u] = late[u] \cup ls
    BY <1>2, <2>1 DEF DebtInv, CarriesWhatWasWritten, Carrying
  <2>3. ASSUME NEW v \in Threads, Unlocking(v, l) \/ Restoring(v, mine[u])
        PROVE  (Unlocking(v, l) \/ Restoring(v, mine[u]))' \/ l \in ls
    BY <1>1, <2>1, <2>3 DEF Unlocking, Restoring, Marks
  <2>4. QED BY <1>2, <1>3, <2>1, <2>2, <2>3 DEF Shows
<1>10. QED BY <1>4, <1>5, <1>6, <1>7, <1>8, <1>9 DEF DebtInv

LEMMA MarkingStepsKeepDebt ==
  ASSUME OneBinder, AllTyped, DebtInv, NEW t \in Threads,
         Owe(t) \/ MapFails(t) \/ MarkDirty(t)
  PROVE  DebtInv'
<1> USE QuietFacts
<1> USE DEF Goto, MoveTo, AfterEnsure, Entitled, MayHold, InCall, Steps, Tasks, HandSteps,
            DestroySteps, lifeVars, driverVars
<1>1. CASE Owe(t)
  <2> DEFINE s == AfterEnsure(task[t])
  <2>1. valid \in SUBSET Levels
    BY DEF AllTyped, FlushTypes
  <2>2. Marks(t, s, task[t], NoInner, level[t], owed[t], valid)
    BY <1>1, <2>1 DEF Owe, Marks, Flushing, Carrying
  <2> HIDE DEF s
  <2>3. QED BY <2>2, MarkingKeepsDebt
<1>2. CASE MapFails(t)
  <2>1. Marks(t, "grab", task[t], mine[t], level[t], {}, owed[t])
    BY <1>2 DEF MapFails, Marks, Flushing, Carrying
  <2>2. QED BY <2>1, MarkingKeepsDebt
<1>3. CASE MarkDirty(t)
  <2>1. level[t] \in Levels
    BY <1>3 DEF MarkDirty, AllTyped, NamesLevel
  <2>2. Marks(t, "idle", "none", mine[t], 0, owed[t], {level[t]})
    BY <1>3, <2>1 DEF MarkDirty, Marks, Flushing, Carrying
  <2>3. QED BY <2>2, MarkingKeepsDebt
<1>4. QED BY <1>1, <1>2, <1>3

(* flush_dirty takes the whole debt over from dirty_.                      *)
LEMMA TakeKeepsDebt ==
  ASSUME OneBinder, AllTyped, DebtInv, NEW t \in Threads, Take(t)
  PROVE  DebtInv'
<1> DEFINE s == IF dirty = {} THEN "grab" ELSE "map"
<1>1. /\ pc[t] = "take" /\ task[t] = "bind" /\ owed[t] = {} /\ t \in Binders
  BY QuietFacts DEF Take, Goto, Entitled, InCall, DestroySteps
<1>2. /\ pc' = [pc EXCEPT ![t] = s] /\ task' = [task EXCEPT ![t] = "bind"]
      /\ owed' = [owed EXCEPT ![t] = dirty] /\ dirty' = {}
      /\ late' = [late EXCEPT ![t] = {}]
      /\ UNCHANGED <<life, inner, fresh, valid, dropped, mine, level, current>>
  BY <1>1 DEF Take, Goto, MoveTo, lifeVars, driverVars
<1>3. s \in {"grab", "map"} /\ (s = "grab" => dirty = {})
  OBVIOUS
<1> HIDE DEF s
<1>4. \A u \in Threads : /\ pc'[u] = IF u = t THEN s ELSE pc[u]
                         /\ task'[u] = IF u = t THEN "bind" ELSE task[u]
                         /\ owed'[u] = IF u = t THEN dirty ELSE owed[u]
                         /\ late'[u] = IF u = t THEN {} ELSE late[u]
  BY <1>2 DEF AllTyped, LifeInv, LifeTypes, FlushTypes
<1>5. BindersFlush' /\ UnbornIsBlank' /\ OwesWhileFlushing'
  BY <1>1, <1>2, <1>3, <1>4 DEF DebtInv, BindersFlush, UnbornIsBlank, OwesWhileFlushing
<1>6. DebtWillBePaid'
  <2>1. ASSUME NEW l \in valid, NEW u \in Threads, Vouches(u, l)
        PROVE  Vouches(u, l)'
    BY <1>1, <1>2, <1>3, <1>4, <2>1 DEF Vouches, WillPay, Doomed, Restoring, Unlocking
  <2>2. ASSUME NEW l \in dirty PROVE Vouches(t, l)'
    BY <1>4, <2>2 DEF Vouches, WillPay, Doomed
  <2>3. QED BY <1>2, <2>1, <2>2 DEF DebtInv, DebtWillBePaid
<1>7. StaleOverStale'
  BY <1>2, <1>3, <1>4 DEF DebtInv, StaleOverStale
<1>8. MissesAreLate'
  BY <1>2 DEF MissesAreLate
<1>9. CarriesWhatWasWritten'
  <2> SUFFICES ASSUME NEW u \in Threads, Carrying(pc'[u], task'[u], mine'[u]),
                      NEW l \in valid
               PROVE  Shows(u, l)'
    BY <1>2 DEF CarriesWhatWasWritten
  <2>1. u /= t /\ Carrying(pc[u], task[u], mine[u])
    BY <1>2, <1>3, <1>4 DEF Carrying
  <2>2. ASSUME NEW v \in Threads, Unlocking(v, l) \/ Restoring(v, mine[u])
        PROVE  (Unlocking(v, l) \/ Restoring(v, mine[u]))'
    BY <1>1, <1>2, <1>4, <2>2 DEF Unlocking, Restoring
  <2>3. QED BY <1>2, <1>4, <2>1, <2>2 DEF DebtInv, CarriesWhatWasWritten, Shows
<1>10. QED BY <1>5, <1>6, <1>7, <1>8, <1>9 DEF DebtInv

(* The game has written level l again: every copy of it is out of date,    *)
(* and the thread that unlocks it answers for it.                          *)
LEMMA UnlockKeepsDebt ==
  ASSUME OneBinder, AllTyped, DebtInv, NEW t \in Threads, NEW l \in Levels, UnlockRect(t, l)
  PROVE  DebtInv'
<1>1. /\ pc[t] = "idle" /\ task[t] = "none" /\ owed[t] = {}
      /\ pc' = [pc EXCEPT ![t] = "markValid"] /\ task' = [task EXCEPT ![t] = "unlock"]
      /\ level' = [level EXCEPT ![t] = l]
      /\ UNCHANGED <<life, inner, valid, dirty, dropped, mine, owed, late>>
  BY QuietFacts DEF UnlockRect, Start, MoveTo, lifeVars, Entitled, InCall, DestroySteps
<1>2. \A u \in Threads : /\ pc'[u] = IF u = t THEN "markValid" ELSE pc[u]
                         /\ task'[u] = IF u = t THEN "unlock" ELSE task[u]
                         /\ level'[u] = IF u = t THEN l ELSE level[u]
                         /\ current'[u] <=> current[u] /\ level[u] /= l
  BY <1>1 DEF UnlockRect, AllTyped, LifeInv, LifeTypes, FlushTypes
<1>3. \A i \in Inners : fresh'[i] = fresh[i] \ {l}
  BY DEF UnlockRect
<1>4. Unlocking(t, l)'
  BY <1>2 DEF Unlocking
<1>5. BindersFlush' /\ UnbornIsBlank' /\ OwesWhileFlushing'
  BY <1>1, <1>2 DEF DebtInv, BindersFlush, UnbornIsBlank, OwesWhileFlushing
<1>6. DebtWillBePaid'
  <2>1. ASSUME NEW h \in valid, h /= l, NEW u \in Threads, Vouches(u, h)
        PROVE  Vouches(u, h)'
    BY <1>1, <1>2, <2>1 DEF Vouches, WillPay, Doomed, Restoring, Unlocking
  <2>2. inner /= NoInner => inner \in Inners
    BY DEF AllTyped, CountInv, Types, InnerOrNone
  <2>3. QED BY <1>1, <1>3, <1>4, <2>1, <2>2 DEF DebtInv, DebtWillBePaid, Vouches
<1>7. StaleOverStale'
  <2> SUFFICES ASSUME NEW u \in Threads, pc'[u] = "put", ~current'[u]
               PROVE  level'[u] \notin fresh'[mine'[u]]
    BY DEF StaleOverStale
  <2>1. u /= t /\ pc[u] = "put" /\ mine'[u] = mine[u] /\ level'[u] = level[u]
    BY <1>1, <1>2
  <2>2. mine[u] \in Inners
    BY <2>1, QuietFacts DEF MayHold
  <2>3. QED BY <1>2, <1>3, <2>1, <2>2 DEF DebtInv, StaleOverStale
<1>8. MissesAreLate'
  BY <1>1, <1>2 DEF DebtInv, MissesAreLate, Flushing
<1>9. CarriesWhatWasWritten'
  <2> SUFFICES ASSUME NEW u \in Threads, Carrying(pc'[u], task'[u], mine'[u]),
                      NEW h \in valid
               PROVE  Shows(u, h)'
    BY <1>1 DEF CarriesWhatWasWritten
  <2>1. Carrying(pc[u], task[u], mine[u]) /\ mine[u] \in Inners
    BY <1>1, <1>2, QuietFacts DEF Carrying, InnerOrNone
  <2>2. ASSUME NEW v \in Threads, Unlocking(v, h) \/ Restoring(v, mine[u])
        PROVE  (Unlocking(v, h) \/ Restoring(v, mine[u]))'
    BY <1>1, <1>2, <2>2 DEF Unlocking, Restoring
  <2>3. CASE h = l
    BY <1>4, <2>3 DEF Shows
  <2>4. CASE h /= l
    BY <1>1, <1>3, <2>1, <2>2, <2>4 DEF DebtInv, CarriesWhatWasWritten, Shows
  <2>5. QED BY <2>3, <2>4
<1>10. QED BY <1>5, <1>6, <1>7, <1>8, <1>9 DEF DebtInv

LEMMA MarkValidKeepsDebt ==
  ASSUME OneBinder, AllTyped, DebtInv, NEW t \in Threads, MarkValid(t)
  PROVE  DebtInv'
<1>1. /\ pc[t] = "markValid" /\ task[t] = "unlock" /\ life = "live"
      /\ pc' = [pc EXCEPT ![t] = "markDirty"] /\ task' = [task EXCEPT ![t] = "unlock"]
      /\ valid' = valid \cup {level[t]}
      /\ UNCHANGED <<life, inner, fresh, dirty, dropped, mine, owed, level, current, late>>
  BY QuietFacts, OwnersCounted
     DEF MarkValid, Goto, MoveTo, lifeVars, driverVars, flushVars, Entitled, InCall,
         DestroySteps, AllTyped
<1>2. \A u \in Threads : /\ pc'[u] = IF u = t THEN "markDirty" ELSE pc[u]
                         /\ task'[u] = IF u = t THEN "unlock" ELSE task[u]
  BY <1>1 DEF AllTyped, LifeInv, LifeTypes
<1>3. Unlocking(t, level[t])'
  BY <1>1, <1>2 DEF Unlocking
<1>4. ASSUME NEW u \in Threads, NEW h
      PROVE  /\ Vouches(u, h) => Vouches(u, h)'
             /\ Unlocking(u, h) => Unlocking(u, h)'
             /\ \A i : Restoring(u, i) => \A j : j = i => Restoring(u, j)'
  BY <1>1, <1>2 DEF Vouches, WillPay, Doomed, Restoring, Unlocking
<1>5. BindersFlush' /\ UnbornIsBlank' /\ OwesWhileFlushing'
  BY <1>1, <1>2 DEF DebtInv, BindersFlush, UnbornIsBlank, OwesWhileFlushing
<1>6. DebtWillBePaid'
  BY <1>1, <1>3, <1>4 DEF DebtInv, DebtWillBePaid, Vouches
<1>7. StaleOverStale' /\ MissesAreLate'
  BY <1>1, <1>2 DEF DebtInv, StaleOverStale, MissesAreLate, Flushing
<1>8. CarriesWhatWasWritten'
  <2> SUFFICES ASSUME NEW u \in Threads, Carrying(pc'[u], task'[u], mine'[u]),
                      NEW h \in valid'
               PROVE  Shows(u, h)'
    BY DEF CarriesWhatWasWritten
  <2>1. Carrying(pc[u], task[u], mine[u])
    BY <1>1, <1>2 DEF Carrying
  <2>2. CASE h = level[t]
    <3>1. Unlocking(t, h)'
      BY <1>1, <1>2, <2>2 DEF Unlocking
    <3>2. QED BY <3>1 DEF Shows
  <2>3. CASE h \in valid
    BY <1>1, <1>4, <2>1, <2>3 DEF DebtInv, CarriesWhatWasWritten, Shows
  <2>4. QED BY <1>1, <2>2, <2>3
<1>9. QED BY <1>5, <1>6, <1>7, <1>8 DEF DebtInv

LEMMA DebtInvHolds ==
  ASSUME OneBinder
  PROVE  Spec => []DebtInv
<1>1. Init => DebtInv
  BY DEF Init, DebtInv, BindersFlush, UnbornIsBlank, OwesWhileFlushing, DebtWillBePaid,
         StaleOverStale, MissesAreLate, Flushing, CarriesWhatWasWritten, Carrying
<1>2. LifeInv /\ CountInv /\ FlushTypes /\ NamesLevel /\ DebtInv /\ [Next]_vars => DebtInv'
  <2> SUFFICES ASSUME AllTyped, DebtInv, [Next]_vars PROVE DebtInv'
    BY DEF AllTyped
  <2>1. CASE UNCHANGED vars
    BY <2>1 DEF vars, lifeVars, driverVars, levelVars, flushVars, DebtInv, BindersFlush,
                UnbornIsBlank, OwesWhileFlushing, DebtWillBePaid, Vouches, WillPay, Doomed,
                StaleOverStale, MissesAreLate, CarriesWhatWasWritten, Shows, Restoring, Unlocking
  <2>2. ASSUME NEW t \in Threads,
               EnsureInner(t) \/ Flush(t) \/ Stage(t) \/ Lock(t) \/ Lives(t) \/ Reset(t)
        PROVE  DebtInv'
    BY <2>2, EnsureKeepsDebt, FlushKeepsDebt, StageKeepsDebt, LockKeepsDebt, LivesKeepsDebt,
       ResetKeepsDebt, MarkingStepsKeepDebt, TakeKeepsDebt, UnlockKeepsDebt, MarkValidKeepsDebt
  <2>3. QED BY <2>1, <2>2 DEF Next
<1>3. QED BY <1>1, <1>2, LifeInvHolds, CountInvHolds, FlushTypesHold, PTL DEF Spec

(* With one thread that binds, as Direct3D 9 asks for, no written level is *)
(* lost: it is current on the GPU or somebody owes it, unless its own      *)
(* upload failed.                                                          *)
THEOREM NoWrittenLevelIsLost ==
  ASSUME OneBinder
  PROVE  Spec => []DebtKept
<1>1. DebtInv => DebtKept
  BY DEF DebtInv, DebtWillBePaid, Vouches, WillPay, DebtKept, DebtKeptExcept, OwedSomewhere
<1>2. QED BY <1>1, DebtInvHolds, PTL

(* And what a bind hands to the device shows every level written before    *)
(* its flush took the debt.                                                *)
THEOREM BindsShowWhatWasWritten ==
  ASSUME OneBinder
  PROVE  Spec => []BindsWhatWasWritten
<1>1. LifeInv /\ DebtInv => BindsWhatWasWritten
  BY DEF LifeInv, Flow, InCall, DestroySteps, DebtInv, CarriesWhatWasWritten, Carrying, Shows,
         BindsWhatWasWritten
<1>2. QED BY <1>1, DebtInvHolds, LifeInvHolds, PTL
=============================================================================
