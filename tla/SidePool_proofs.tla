-------------------------- MODULE SidePool_proofs --------------------------
(***************************************************************************)
(* Proofs about SidePool, for any threads, places and configurations.      *)
(*                                                                         *)
(* StartInv says what each stage of the start-up leaves behind it, and     *)
(* that nothing is taken back once the side pool is published. AllocInv    *)
(* says what a thread in pool_alloc has seen, and which blocks can be in   *)
(* use. ClaimedOnce follows from both: a block in the arena was served by  *)
(* a pool that was published, therefore probed, therefore is the one that  *)
(* contains it.                                                            *)
(***************************************************************************)
EXTENDS SidePool, FiniteSetTheorems, TLAPS

-----------------------------------------------------------------------------
(* The invariant                                                           *)

NotYet    == start \notin {"publish", "done"} => published = {}
SlotSince == slot = "side pool" =>
               /\ start \in {"register", "probe", "publish", "done"}
               /\ planned /= 0 /\ hooked /\ arena = "committed"
Underway  == start \in {"register", "probe", "publish"} => slot = "side pool"
Answered  == start = "probe" =>
               region \in {{}, ArenaPlaces} /\ serves \in {{}, {Elsewhere}, ArenaPlaces}
Proved    == start = "publish" \/ "pool" \in published =>
               slot = "side pool" /\ region = ArenaPlaces /\ serves = ArenaPlaces
Whole     == "pool" \in published => start = "done" /\ Needs \subseteq published
Paid      == /\ start = "patch" => planned = Planned.side
             /\ patched => budget = Planned.budget /\ planned = Planned.side
StartInv  == NotYet /\ SlotSince /\ Underway /\ Answered /\ Proved /\ Whole /\ Paid

Large(r)    == config.threshold /= 0 /\ r.size >= config.threshold /\ ~r.tagged
Busy        == \A t \in Threads : pc[t] /= "idle" => built
Seen        == \A t \in Threads : pc[t] \in {"route", "side"} => "pool" \in published
Chosen      == \A t \in Threads : pc[t] = "side" => Large(request[t])
MainLive    == \A a \in MainPlaces : live[a] /= NoBlock => built
ArenaLive   == \A a \in ArenaPlaces :
                 live[a] /= NoBlock => "pool" \in published /\ Large(live[a])
NowhereElse == live[Elsewhere] = NoBlock
AllocInv    == Busy /\ Seen /\ Chosen /\ MainLive /\ ArenaLive /\ NowhereElse

IInv == TypeOK /\ StartInv /\ AllocInv

-----------------------------------------------------------------------------
(* The split                                                               *)

(* plan_pool_split: whatever lyrium.ini says, a side pool that is granted  *)
(* on a 2 GB image fits with the main pool, which is not starved for it.   *)
LEMMA SplitFits ==
  ASSUME NEW configured \in Nat, NEW side \in Nat
  PROVE  LET s == PlanPoolSplit(configured, side, FALSE) IN
         /\ s.budget \in Nat /\ s.side \in Nat
         /\ s.side /= 0 => /\ s.budget + s.side <= MaxNonLaaPool
                           /\ ExpectedMainPool(s.budget) >= MinimumMainPool
  BY DEF PlanPoolSplit, Split, Starves, ExpectedMainPool, MaxNonLaaPool, NonLaaSide,
         MinimumMainPool, StringsPool

LEMMA SplitType ==
  ASSUME NEW configured \in Nat, NEW side \in Nat, NEW laa \in BOOLEAN
  PROVE  PlanPoolSplit(configured, side, laa) \in [budget : Nat, side : Nat]
  BY DEF PlanPoolSplit, Split, Starves, ExpectedMainPool, MaxNonLaaPool, NonLaaSide,
         MinimumMainPool, StringsPool

LEMMA PlannedType ==
  ASSUME config \in Configs
  PROVE  /\ Configured \in Nat /\ config.side \in Nat /\ config.laa \in BOOLEAN
         /\ Planned \in [budget : Nat, side : Nat]
  <1>1. config.main \in Nat /\ config.side \in Nat /\ config.laa \in BOOLEAN
    BY ConfigsAssumption
  <1>2. Configured \in Nat
    BY <1>1 DEF Configured, StockBudget
  <1> QED
    BY <1>1, <1>2, SplitType DEF Planned

-----------------------------------------------------------------------------
(* Type correctness                                                        *)

LEMMA TypeInit == Init => TypeOK
  <1> SUFFICES ASSUME Init PROVE TypeOK
    OBVIOUS
  <1>1. live \in [Places -> Requests \cup {NoBlock}]
    BY DEF Init
  <1>2. /\ pc \in [Threads -> {"idle", "detour", "route", "side", "trampoline", "original"}]
        /\ request \in [Threads -> Requests \cup {NoBlock}]
    BY DEF Init
  <1>3. {patched, built, jump, hooked, crashed} \subseteq BOOLEAN
    BY DEF Init
  <1>4. matches \subseteq Groups /\ config \in Configs
    BY DEF Init
  <1>5. budget = 850 /\ planned = 0 /\ start = "attach"
    BY DEF Init, StockBudget
  <1>6. budget \in Nat /\ planned \in Nat /\ start \in Stages
    BY <1>5 DEF Stages
  <1>7. /\ slot \in {"block pool", "taken", "side pool"} /\ arena \in {"none", "committed", "freed"}
        /\ region \subseteq ArenaPlaces /\ serves \subseteq Places /\ published \subseteq Needs \cup {"pool"}
    BY DEF Init
  <1> QED
    BY <1>1, <1>2, <1>3, <1>4, <1>6, <1>7 DEF TypeOK

(* The start-up leaves the blocks, the calls and the configuration alone.  *)
LEMMA TypeStarting ==
  ASSUME TypeOK, Starting \/ BuildPools
  PROVE  TypeOK'
  <1>1. CASE Attach
    BY <1>1, PlannedType
    DEF Attach, TypeOK, Stages, Places, Needs, attachVars, hookVars, poolVars,
        allocVars
  <1>2. CASE AttachSkips
    BY <1>2
    DEF AttachSkips, TypeOK, Stages, Places, Needs, attachVars, hookVars, poolVars,
        allocVars
  <1>3. CASE PatchMainPool
    BY <1>3, PlannedType
    DEF PatchMainPool, TypeOK, Stages, Places, Needs, attachVars, hookVars,
        poolVars, allocVars
  <1>4. CASE PatchFails
    BY <1>4
    DEF PatchFails, TypeOK, Stages, Places, Needs, attachVars, hookVars, poolVars,
        allocVars
  <1>5. CASE BuildPools
    BY <1>5
    DEF BuildPools, TypeOK, Stages, Places, Needs, attachVars, hookVars, poolVars,
        allocVars
  <1>6. CASE InstallWithoutPool
    BY <1>6
    DEF InstallWithoutPool, TypeOK, Stages, Places, Needs, attachVars, hookVars,
        poolVars, allocVars
  <1>7. CASE CommitFails
    BY <1>7
    DEF CommitFails, TypeOK, Stages, Places, Needs, attachVars, hookVars, poolVars,
        allocVars
  <1>8. CASE WriteJump
    BY <1>8
    DEF WriteJump, TypeOK, Stages, Places, Needs, attachVars, hookVars, poolVars,
        allocVars
  <1>9. CASE StoreTrampoline
    BY <1>9
    DEF StoreTrampoline, TypeOK, Stages, Places, Needs, attachVars, hookVars,
        poolVars, allocVars
  <1>10. CASE Decline
    BY <1>10
    DEF Decline, TypeOK, Stages, Places, Needs, attachVars, hookVars, poolVars,
        allocVars
  <1>11. CASE ConstructPool
    BY <1>11
    DEF ConstructPool, TypeOK, Stages, Places, Needs, attachVars, hookVars,
        poolVars, allocVars
  <1>12. CASE RegisterPool
    BY <1>12
    DEF RegisterPool, TypeOK, Stages, Places, Needs, attachVars, hookVars, poolVars,
        allocVars
  <1>13. CASE ProbePool
    BY <1>13
    DEF ProbePool, TypeOK, Stages, Places, Needs, attachVars, hookVars, poolVars,
        allocVars
  <1>14. CASE ProbeFails
    BY <1>14
    DEF ProbeFails, TypeOK, Stages, Places, Needs, attachVars, hookVars, poolVars,
        allocVars
  <1>15. CASE Publish
    BY <1>15
    DEF Publish, TypeOK, Stages, Places, Needs, attachVars, hookVars, poolVars,
        allocVars
  <1>16. CASE PublishPool
    BY <1>16
    DEF PublishPool, TypeOK, Stages, Places, Needs, attachVars, hookVars, poolVars,
        allocVars
  <1> QED
    BY <1>1, <1>2, <1>3, <1>4, <1>5, <1>6, <1>7, <1>8, <1>9, <1>10, <1>11, <1>12, <1>13, <1>14, <1>15, <1>16
    DEF Starting

LEMMA TypeAlloc ==
  ASSUME TypeOK, NEW t \in Threads, PoolAlloc(t)
  PROVE  TypeOK'
  <1>1. CASE Request(t)
    BY <1>1
    DEF Request, Goto, Serve, Free, EntryPoint, TypeOK, Stages, attachVars,
        hookVars, poolVars, allocVars
  <1>2. CASE LoadSidePool(t)
    BY <1>2
    DEF LoadSidePool, Goto, Serve, Free, EntryPoint, TypeOK, Stages, attachVars,
        hookVars, poolVars, allocVars
  <1>3. CASE Route(t)
    BY <1>3
    DEF Route, Goto, Serve, Free, EntryPoint, TypeOK, Stages, attachVars, hookVars,
        poolVars, allocVars
  <1>4. CASE SideAllocates(t)
    BY <1>4
    DEF SideAllocates, Goto, Serve, Free, EntryPoint, TypeOK, Stages, attachVars,
        hookVars, poolVars, allocVars
  <1>5. CASE SideIsFull(t)
    BY <1>5
    DEF SideIsFull, Goto, Serve, Free, EntryPoint, TypeOK, Stages, attachVars,
        hookVars, poolVars, allocVars
  <1>6. CASE CallOriginal(t)
    BY <1>6
    DEF CallOriginal, Goto, Serve, Free, EntryPoint, TypeOK, Stages, attachVars,
        hookVars, poolVars, allocVars
  <1>7. CASE CallNull(t)
    BY <1>7
    DEF CallNull, Goto, Serve, Free, EntryPoint, TypeOK, Stages, attachVars,
        hookVars, poolVars, allocVars
  <1>8. CASE MainAllocates(t)
    BY <1>8
    DEF MainAllocates, Goto, Serve, Free, EntryPoint, TypeOK, Stages, attachVars,
        hookVars, poolVars, allocVars
  <1>9. CASE MainIsFull(t)
    BY <1>9
    DEF MainIsFull, Goto, Serve, Free, EntryPoint, TypeOK, Stages, attachVars,
        hookVars, poolVars, allocVars
  <1> QED
    BY <1>1, <1>2, <1>3, <1>4, <1>5, <1>6, <1>7, <1>8, <1>9 DEF PoolAlloc

LEMMA TypeFree ==
  ASSUME TypeOK, NEW a \in Places, FreeBlock(a)
  PROVE  TypeOK'
  BY DEF FreeBlock, TypeOK, Stages, attachVars, hookVars, poolVars

-----------------------------------------------------------------------------
(* StartInv                                                                *)

LEMMA StartInit == Init => StartInv
  BY DEF Init, StartInv, NotYet, SlotSince, Underway, Answered, Proved, Whole, Paid, Needs

LEMMA StartStarting ==
  ASSUME TypeOK, StartInv, Starting \/ BuildPools
  PROVE  StartInv'
  <1> USE DEF StartInv, NotYet, SlotSince, Underway, Answered, Proved, Whole, Paid
  <1>1. CASE Attach
    BY <1>1 DEF Attach, TypeOK, Needs, Planned, Configured, attachVars, hookVars, poolVars
  <1>2. CASE AttachSkips
    BY <1>2
    DEF AttachSkips, TypeOK, Needs, Planned, Configured, attachVars, hookVars,
        poolVars
  <1>3. CASE PatchMainPool
    BY <1>3
    DEF PatchMainPool, TypeOK, Needs, Planned, Configured, attachVars, hookVars,
        poolVars
  <1>4. CASE PatchFails
    BY <1>4
    DEF PatchFails, TypeOK, Needs, Planned, Configured, attachVars, hookVars,
        poolVars
  <1>5. CASE BuildPools
    BY <1>5
    DEF BuildPools, TypeOK, Needs, Planned, Configured, attachVars, hookVars,
        poolVars
  <1>6. CASE InstallWithoutPool
    BY <1>6
    DEF InstallWithoutPool, TypeOK, Needs, Planned, Configured, attachVars,
        hookVars, poolVars
  <1>7. CASE CommitFails
    BY <1>7
    DEF CommitFails, TypeOK, Needs, Planned, Configured, attachVars, hookVars,
        poolVars
  <1>8. CASE WriteJump
    BY <1>8
    DEF WriteJump, TypeOK, Needs, Planned, Configured, attachVars, hookVars,
        poolVars
  <1>9. CASE StoreTrampoline
    BY <1>9
    DEF StoreTrampoline, TypeOK, Needs, Planned, Configured, attachVars, hookVars,
        poolVars
  <1>10. CASE Decline
    BY <1>10 DEF Decline, TypeOK, Needs, Planned, Configured, attachVars, hookVars, poolVars
  <1>11. CASE ConstructPool
    BY <1>11
    DEF ConstructPool, TypeOK, Needs, Planned, Configured, attachVars, hookVars,
        poolVars, MayCreate
  <1>12. CASE RegisterPool
    BY <1>12
    DEF RegisterPool, TypeOK, Needs, Planned, Configured, attachVars, hookVars,
        poolVars
  <1>13. CASE ProbePool
    <2>1. region = ArenaPlaces /\ serves = ArenaPlaces
      <3>1. PICK a \in Places : ProbePasses(a)
        BY <1>13 DEF ProbePool
      <3>2. region /= {} /\ a \in serves /\ a \in ArenaPlaces
        BY <3>1 DEF ProbePasses
      <3> QED
        BY <1>13, <3>2, PlacesAssumption DEF ProbePool
    <2> QED
      BY <1>13, <2>1 DEF ProbePool, Planned, Configured, attachVars, hookVars, poolVars
  <1>14. CASE ProbeFails
    BY <1>14
    DEF ProbeFails, TypeOK, Needs, Planned, Configured, attachVars, hookVars,
        poolVars
  <1>15. CASE Publish
    BY <1>15 DEF Publish, TypeOK, Needs, Planned, Configured, attachVars, hookVars, poolVars
  <1>16. CASE PublishPool
    BY <1>16
    DEF PublishPool, TypeOK, Needs, Planned, Configured, attachVars, hookVars,
        poolVars
  <1> QED
    BY <1>1, <1>2, <1>3, <1>4, <1>5, <1>6, <1>7, <1>8, <1>9, <1>10, <1>11, <1>12, <1>13, <1>14, <1>15, <1>16
    DEF Starting

(* The threads of the engine change none of what StartInv speaks of.       *)
LEMMA StartEngine ==
  ASSUME StartInv, UNCHANGED <<attachVars, start, hookVars, poolVars>>
  PROVE  StartInv'
  BY DEF StartInv, NotYet, SlotSince, Underway, Answered, Proved, Whole, Paid,
         Planned, Configured, attachVars, hookVars, poolVars

-----------------------------------------------------------------------------
(* AllocInv                                                                *)

LEMMA AllocInit == Init => AllocInv
  BY PlacesAssumption
  DEF Init, AllocInv, Busy, Seen, Chosen, MainLive, ArenaLive, NowhereElse, Places

(* The start-up only ever adds to what the calls have seen.                *)
LEMMA AllocStarting ==
  ASSUME TypeOK, StartInv, AllocInv, Starting \/ BuildPools
  PROVE  AllocInv'
  <1>1. built => built'
    BY
    DEF Starting, BuildPools, Attach, AttachSkips, PatchMainPool, PatchFails,
        InstallWithoutPool,
       CommitFails, WriteJump, StoreTrampoline, Decline, ConstructPool, RegisterPool,
       ProbePool, ProbeFails, Publish, PublishPool,
       attachVars
  <1>2. published \subseteq published'
    BY
    DEF Starting, BuildPools, Attach, AttachSkips, PatchMainPool, PatchFails,
        InstallWithoutPool,
       CommitFails, WriteJump, StoreTrampoline, Decline, ConstructPool, RegisterPool,
       ProbePool, ProbeFails, Publish, PublishPool,
       poolVars
  <1>3. UNCHANGED <<config, allocVars>>
    BY
    DEF Starting, BuildPools, Attach, AttachSkips, PatchMainPool, PatchFails,
        InstallWithoutPool,
       CommitFails, WriteJump, StoreTrampoline, Decline, ConstructPool, RegisterPool,
       ProbePool, ProbeFails, Publish, PublishPool,
       attachVars, allocVars
  <1> QED
    BY <1>1, <1>2, <1>3
    DEF AllocInv, Busy, Seen, Chosen, MainLive, ArenaLive, NowhereElse, Large, allocVars

LEMMA AllocAlloc ==
  ASSUME TypeOK, StartInv, AllocInv, NEW t \in Threads, PoolAlloc(t)
  PROVE  AllocInv'
  <1> USE DEF AllocInv, Busy, Seen, Chosen, MainLive, ArenaLive, NowhereElse, Large, TypeOK
  <1>1. CASE Request(t)
    BY <1>1, PlacesAssumption
    DEF Request, Goto, Serve, Free, EntryPoint, ShouldRoute, Threshold, StartInv,
        Whole, Proved, Places, attachVars, hookVars, poolVars, allocVars
  <1>2. CASE LoadSidePool(t)
    BY <1>2, PlacesAssumption
    DEF LoadSidePool, Goto, Serve, Free, EntryPoint, ShouldRoute, Threshold,
        StartInv, Whole, Proved, Places, attachVars, hookVars, poolVars, allocVars
  <1>3. CASE Route(t)
    BY <1>3, PlacesAssumption
    DEF Route, Goto, Serve, Free, EntryPoint, ShouldRoute, Threshold, StartInv,
        Whole, Proved, Places, attachVars, hookVars, poolVars, allocVars
  <1>4. CASE SideAllocates(t)
    <2>1. PICK a \in serves : live' = [live EXCEPT ![a] = request[t]]
      BY <1>4 DEF SideAllocates, Serve, Free
    <2>2. "pool" \in published /\ Large(request[t])
      BY <1>4 DEF SideAllocates, Goto
    <2>3. a \in ArenaPlaces /\ a \notin MainPlaces /\ a /= Elsewhere
      BY <2>1, <2>2, PlacesAssumption DEF StartInv, Proved
    <2>4. /\ UNCHANGED <<attachVars, built, published>>
          /\ \A u \in Threads : pc'[u] = IF u = t THEN "idle" ELSE pc[u]
          /\ \A u \in Threads \ {t} : request'[u] = request[u]
      BY <1>4 DEF SideAllocates, Goto, Serve, poolVars
    <2>5. \A b \in Places : live'[b] = IF b = a THEN request[t] ELSE live[b]
      BY <2>1
    <2>6. Busy' /\ Seen' /\ Chosen'
      BY <2>4 DEF attachVars
    <2>7. MainLive' /\ NowhereElse'
      BY <2>3, <2>4, <2>5 DEF Places
    <2>8. ArenaLive'
      BY <2>2, <2>3, <2>4, <2>5 DEF Places, attachVars
    <2> QED
      BY <2>6, <2>7, <2>8
  <1>5. CASE SideIsFull(t)
    BY <1>5, PlacesAssumption
    DEF SideIsFull, Goto, Serve, Free, EntryPoint, ShouldRoute, Threshold, StartInv,
        Whole, Proved, Places, attachVars, hookVars, poolVars, allocVars
  <1>6. CASE CallOriginal(t)
    BY <1>6, PlacesAssumption
    DEF CallOriginal, Goto, Serve, Free, EntryPoint, ShouldRoute, Threshold,
        StartInv, Whole, Proved, Places, attachVars, hookVars, poolVars, allocVars
  <1>7. CASE CallNull(t)
    BY <1>7, PlacesAssumption
    DEF CallNull, Goto, Serve, Free, EntryPoint, ShouldRoute, Threshold, StartInv,
        Whole, Proved, Places, attachVars, hookVars, poolVars, allocVars
  <1>8. CASE MainAllocates(t)
    BY <1>8, PlacesAssumption
    DEF MainAllocates, Goto, Serve, Free, EntryPoint, ShouldRoute, Threshold,
        StartInv, Whole, Proved, Places, attachVars, hookVars, poolVars, allocVars
  <1>9. CASE MainIsFull(t)
    BY <1>9, PlacesAssumption
    DEF MainIsFull, Goto, Serve, Free, EntryPoint, ShouldRoute, Threshold, StartInv,
        Whole, Proved, Places, attachVars, hookVars, poolVars, allocVars
  <1> QED
    BY <1>1, <1>2, <1>3, <1>4, <1>5, <1>6, <1>7, <1>8, <1>9 DEF PoolAlloc

LEMMA AllocFree ==
  ASSUME TypeOK, AllocInv, NEW a \in Places, FreeBlock(a)
  PROVE  AllocInv'
  BY PlacesAssumption
  DEF FreeBlock, TypeOK, AllocInv, Busy, Seen, Chosen, MainLive, ArenaLive, NowhereElse,
      Large, Places, attachVars, poolVars

-----------------------------------------------------------------------------
LEMMA Initially == Init => IInv
  BY TypeInit, StartInit, AllocInit DEF IInv

LEMMA Inductive == IInv /\ [Next]_vars => IInv'
  <1> SUFFICES ASSUME IInv, [Next]_vars PROVE IInv'
    OBVIOUS
  <1>1. CASE Starting \/ BuildPools
    BY <1>1, TypeStarting, StartStarting, AllocStarting DEF IInv
  <1>2. ASSUME NEW t \in Threads, PoolAlloc(t) PROVE IInv'
    <2>1. UNCHANGED <<attachVars, start, hookVars, poolVars>>
      BY <1>2 DEF PoolAlloc, Request, LoadSidePool, Route, SideAllocates, SideIsFull,
                  CallOriginal, CallNull, MainAllocates, MainIsFull
    <2> QED
      BY <1>2, <2>1, TypeAlloc, StartEngine, AllocAlloc DEF IInv
  <1>3. ASSUME NEW a \in Places, FreeBlock(a) PROVE IInv'
    BY <1>3, TypeFree, StartEngine, AllocFree DEF IInv, FreeBlock
  <1>4. CASE UNCHANGED vars
    BY <1>4 DEF vars, attachVars, hookVars, poolVars, allocVars, IInv, TypeOK, StartInv,
       NotYet, SlotSince, Underway, Answered, Proved, Whole, Paid, Planned, Configured,
       AllocInv, Busy, Seen, Chosen, MainLive, ArenaLive, NowhereElse, Large
  <1> QED
    BY <1>1, <1>2, <1>3, <1>4 DEF Next

LEMMA Invariance == Spec => []IInv
  BY Initially, Inductive, PTL DEF Spec

-----------------------------------------------------------------------------
(* Every variable has its type in every reachable state.                   *)
THEOREM TypeCorrect == Spec => []TypeOK
  <1>1. IInv => TypeOK
    BY DEF IInv
  <1> QED
    BY <1>1, Invariance, PTL

(* A block the engine holds lies in memory that exists, and exactly one    *)
(* registered pool claims it, so that the engine frees it into that pool   *)
(* (create_side_pool, pool_alloc_detour).                                  *)
THEOREM BlocksClaimedOnce == Spec => []ClaimedOnce
  <1>1. ASSUME IInv, NEW a \in Places, live[a] /= NoBlock
        PROVE  Cardinality(Claimers(a)) = 1 /\ (a \in ArenaPlaces => arena = "committed")
    <2>1. \E p : Claimers(a) = {p}
      <3>1. CASE a \in MainPlaces
        <4>1. built /\ a \notin region
          BY <1>1, <3>1, PlacesAssumption DEF IInv, AllocInv, MainLive, TypeOK
        <4>2. Claimers(a) = {"main pool"}
          BY <3>1, <4>1 DEF Claimers, Pools, Contains
        <4> QED
          BY <4>2
      <3>2. CASE a \in ArenaPlaces
        <4>1. slot = "side pool" /\ a \in region /\ a \notin MainPlaces
          BY <1>1, <3>2, PlacesAssumption DEF IInv, AllocInv, ArenaLive, StartInv, Proved
        <4>2. Claimers(a) = {"side pool"}
          BY <4>1 DEF Claimers, Pools, Contains
        <4> QED
          BY <4>2
      <3> QED
        BY <1>1, <3>1, <3>2 DEF Places, IInv, AllocInv, NowhereElse
    <2>2. Cardinality(Claimers(a)) = 1
      BY <2>1, FS_Singleton
    <2>3. a \in ArenaPlaces => arena = "committed"
      BY <1>1 DEF IInv, AllocInv, ArenaLive, StartInv, Proved, SlotSince
    <2> QED
      BY <2>2, <2>3
  <1>2. IInv => ClaimedOnce
    BY <1>1 DEF ClaimedOnce
  <1> QED
    BY <1>2, Invariance, PTL

(* A thread that saw side_pool finds everything that was stored before it, *)
(* and a trampoline (pool_alloc_detour).                                   *)
THEOREM PoolPublishedWhole == Spec => []PublishedWhole
  <1>1. IInv => PublishedWhole
    BY DEF IInv, AllocInv, Seen, StartInv, Whole, Proved, SlotSince, PublishedWhole
  <1> QED
    BY <1>1, Invariance, PTL

(* The side pool holds nothing that is small or that the engine chose a    *)
(* pool for (should_route).                                                *)
THEOREM OnlyLargeBlocksMoved == Spec => []OnlyLargeMoved
  <1>1. IInv => OnlyLargeMoved
    BY DEF IInv, AllocInv, ArenaLive, Large, OnlyLargeMoved
  <1> QED
    BY <1>1, Invariance, PTL

(* Where the budget was patched, a 2 GB image carries both pools, for      *)
(* every lyrium.ini (plan_pool_split, patch_main_pool).                    *)
THEOREM PatchedPoolsFit == Spec => []PaidPoolsFit
  <1>1. ASSUME IInv, patched, ~config.laa, slot = "side pool"
        PROVE  /\ budget + planned <= MaxNonLaaPool
               /\ ExpectedMainPool(budget) >= MinimumMainPool
    <2>1. Configured \in Nat /\ config.side \in Nat /\ config.laa = FALSE
      BY <1>1, PlannedType DEF IInv, TypeOK
    <2>2. budget = Planned.budget /\ planned = Planned.side /\ planned /= 0
      BY <1>1 DEF IInv, StartInv, Paid, SlotSince
    <2> QED
      BY <2>1, <2>2, SplitFits DEF Planned
  <1>2. IInv => PaidPoolsFit
    BY <1>1 DEF PaidPoolsFit, PoolsFitIf
  <1> QED
    BY <1>2, Invariance, PTL
=============================================================================
