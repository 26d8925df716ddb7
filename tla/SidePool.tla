----------------------------- MODULE SidePool -----------------------------
(***************************************************************************)
(* How lyrium starts, from DllMain (src/d3d9.cpp) to a side pool that      *)
(* serves the engine's large allocations (src/engine_hooks.cpp), while the *)
(* engine's own threads allocate and free.                                 *)
(*                                                                         *)
(* Two things happen far apart: at attach the budget of the main pool is   *)
(* patched to pay for the side pool, and in the first Direct3DCreate9 the  *)
(* hooks are installed and the side pool made, or not. The engine builds   *)
(* its pools at some point of its own between them or after them.          *)
(*                                                                         *)
(* A place is where one block fits. Which pool a block is freed into is    *)
(* decided as the engine decides it: by the registered pool that contains  *)
(* its address.                                                            *)
(*                                                                         *)
(* A definition marked as a fault is what a plausible mistake would make   *)
(* of the one that follows it; nothing here uses it.                       *)
(***************************************************************************)
EXTENDS PoolBudget, FiniteSets

CONSTANTS
  Threads,      (* threads of the engine that allocate                      *)
  MainPlaces,   (* where the main pool can put a block                      *)
  ArenaPlaces,  (* where the arena has room for one                         *)
  Elsewhere,    (* an address in neither                                    *)
  Configs,      (* configurations: main and side pool in megabytes, whether *)
                (* the image is large-address-aware, pool_hooks, threshold  *)
  MaxSize       (* bound: sizes of requests are 1..MaxSize                  *)

ASSUME PlacesAssumption ==
  /\ MainPlaces \cap ArenaPlaces = {} /\ Elsewhere \notin MainPlaces \cup ArenaPlaces
  /\ MaxSize \in Nat
ASSUME ConfigsAssumption ==
  Configs \subseteq [main : Nat, side : Nat, laa : BOOLEAN, hookPool : BOOLEAN, threshold : Nat]

VARIABLES
  config,      (* lyrium.ini and the image flags                           *)
  matches,     (* groups of targets.h whose bytes are in this executable   *)
  start,       (* where the thread that starts lyrium is                   *)
  budget,      (* the immediate the engine builds its pools from           *)
  patched,     (* pool_patch_result.applied                                *)
  planned,     (* planned_side_pool_bytes                                  *)
  built,       (* the engine has built its pools                           *)
  jump,        (* the jump to pool_alloc_detour is in place                *)
  hooked,      (* hook_pool_alloc: trampoline_ and Status::installed       *)
  slot,        (* the manager's third slot                                 *)
  arena,       (* none, committed or freed                                 *)
  region,      (* the places that the side pool object contains            *)
  serves,      (* the places that its Allocate returns                     *)
  published,   (* which of side_pool and what it needs have been stored    *)
  live,        (* the request that a block the engine holds was made for   *)
  pc,          (* where a thread of the engine is in pool_alloc            *)
  request,     (* what it asks for                                         *)
  crashed      (* a null function was called: the process is gone          *)

attachVars == <<config, matches, budget, patched, planned>>
hookVars   == <<jump, hooked>>
poolVars   == <<slot, arena, region, serves, published>>
allocVars  == <<live, pc, request>>
vars == <<attachVars, start, built, hookVars, poolVars, allocVars, crashed>>

(* The rows of targets.h: what every configuration hooks, pool_alloc, and  *)
(* what is called and never patched.                                       *)
Groups   == {"engine", "pool_alloc", "call_only"}
Places   == MainPlaces \cup ArenaPlaces \cup {Elsewhere}
Requests == [size : 1..MaxSize, tagged : BOOLEAN]
NoBlock  == [size |-> 0, tagged |-> FALSE]

Init ==
  /\ config \in Configs /\ matches \in SUBSET Groups
  /\ start = "attach"
  /\ budget = StockBudget /\ patched = FALSE /\ planned = 0
  /\ built = FALSE
  /\ jump = FALSE /\ hooked = FALSE
  /\ slot \in {"block pool", "taken"} /\ arena = "none"
  /\ region = {} /\ serves = {} /\ published = {}
  /\ live = [a \in Places |-> NoBlock]
  /\ pc = [t \in Threads |-> "idle"]
  /\ request = [t \in Threads |-> NoBlock]
  /\ crashed = FALSE

Goto(t, from, to) == pc[t] = from /\ pc' = [pc EXCEPT ![t] = to]

-----------------------------------------------------------------------------
(* DLL_PROCESS_ATTACH                                                      *)

Configured == IF config.main = 0 THEN StockBudget ELSE config.main
Planned    == PlanPoolSplit(Configured, config.side, config.laa)

(* targets_verify_clean leaves the opt-in and the call-only rows out.      *)
VerifiesClean == "engine" \in matches

Attach ==
  /\ start = "attach" /\ VerifiesClean
  /\ start' = IF Planned.side /= 0 \/ config.main /= 0 THEN "patch" ELSE "hooks"
  /\ planned' = Planned.side
  /\ UNCHANGED <<config, matches, budget, patched, built, hookVars, poolVars, allocVars, crashed>>

AttachSkips ==
  /\ start = "attach" /\ ~VerifiesClean
  /\ start' = "hooks"
  /\ UNCHANGED <<attachVars, built, hookVars, poolVars, allocVars, crashed>>

PatchMainPool ==
  /\ start = "patch"
  /\ start' = "hooks"
  /\ budget' = Planned.budget /\ patched' = TRUE
  /\ UNCHANGED <<config, matches, planned, built, hookVars, poolVars, allocVars, crashed>>

(* The site does not hold the stock immediate, or cannot be written. The   *)
(* result is kept for the log.                                             *)
PatchFails ==
  /\ start = "patch"
  /\ start' = "hooks"
  /\ UNCHANGED <<attachVars, built, hookVars, poolVars, allocVars, crashed>>

(* The engine's lazy getter, at any time after attach.                     *)
BuildPools ==
  /\ start \notin {"attach", "patch"} /\ ~built
  /\ built' = TRUE
  /\ UNCHANGED <<attachVars, start, hookVars, poolVars, allocVars, crashed>>

-----------------------------------------------------------------------------
(* install_engine_hooks: every planned row is verified before one is       *)
(* patched. A side pool implies the pool hooks; the engine's own rows are  *)
(* taken to be wanted. The commit of a row can still fail.                 *)

WantsPoolHook == config.hookPool \/ planned /= 0
InstallAborts == \/ "engine" \notin matches
                 \/ WantsPoolHook /\ "pool_alloc" \notin matches

InstallWithoutPool ==
  /\ start = "hooks" /\ (InstallAborts \/ ~WantsPoolHook)
  /\ start' = "create"
  /\ UNCHANGED <<attachVars, built, hookVars, poolVars, allocVars, crashed>>

CommitFails ==
  /\ start = "hooks" /\ ~InstallAborts /\ WantsPoolHook
  /\ start' = "create"
  /\ UNCHANGED <<attachVars, built, hookVars, poolVars, allocVars, crashed>>

(* InlineHook::install: the jump is written with the other threads frozen, *)
(* who run on before the trampoline is stored.                             *)
WriteJump ==
  /\ start = "hooks" /\ ~InstallAborts /\ WantsPoolHook
  /\ start' = "trampoline"
  /\ jump' = TRUE
  /\ UNCHANGED <<attachVars, built, hooked, poolVars, allocVars, crashed>>

StoreTrampoline ==
  /\ start = "trampoline"
  /\ start' = "create"
  /\ hooked' = TRUE
  /\ UNCHANGED <<attachVars, built, jump, poolVars, allocVars, crashed>>

-----------------------------------------------------------------------------
(* create_side_pool                                                        *)

MayCreate ==
  /\ planned /= 0
  /\ "call_only" \in matches
  /\ hooked
  /\ built
  /\ slot = "block pool"

(* Not wanted, refused by a check, or no room for the arena.               *)
Decline ==
  /\ start = "create"
  /\ start' = "done"
  /\ UNCHANGED <<attachVars, built, hookVars, poolVars, allocVars, crashed>>

(* VirtualAlloc, the engine's constructor, and the store into the slot.    *)
ConstructPool ==
  /\ start = "create" /\ MayCreate
  /\ start' = "register"
  /\ arena' = "committed" /\ slot' = "side pool"
  /\ UNCHANGED <<attachVars, built, hookVars, region, serves, published, allocVars, crashed>>

(* The engine's registrar, which reports success whatever its attach did:  *)
(* the pool may contain nothing, refuse every request, or hand out blocks  *)
(* that are not in the arena.                                              *)
RegisterPool ==
  /\ start = "register"
  /\ start' = "probe"
  /\ region' \in {{}, ArenaPlaces}
  /\ serves' \in {{}, {Elsewhere}, ArenaPlaces}
  /\ UNCHANGED <<attachVars, built, hookVars, slot, arena, published, allocVars, crashed>>

(* The registered pools and what they contain; what the engine's free asks.*)
Pools == (IF built THEN {"main pool"} ELSE {})
           \cup (IF slot = "side pool" THEN {"side pool"} ELSE {})
Contains(p) == IF p = "main pool" THEN MainPlaces ELSE region
Claimers(a) == {p \in Pools : a \in Contains(p)}

(* side_pool_is_attached and probe_side_pool with a block it allocates.    *)
ProbeTrusts(a) == region /= {} /\ a \in serves                     (* fault *)
ProbePasses(a) ==
  /\ region /= {}
  /\ a \in serves \cap ArenaPlaces
  /\ Claimers(a) = {"side pool"}

ProbePool ==
  /\ start = "probe" /\ \E a \in Places : ProbePasses(a)
  /\ start' = "publish"
  /\ UNCHANGED <<attachVars, built, hookVars, poolVars, allocVars, crashed>>

(* The slot gets its block pool back and the arena is returned.            *)
ProbeFails ==
  /\ start = "probe" /\ ~\E a \in Places : ProbePasses(a)
  /\ start' = "done"
  /\ slot' = "block pool" /\ arena' = "freed"
  /\ UNCHANGED <<attachVars, built, hookVars, region, serves, published, allocVars, crashed>>

(* Relaxed stores, then the release store of side_pool.                    *)
Needs == {"allocate", "tag", "threshold"}
PublishAnyOrder ==                                                 (* fault *)
  /\ start = "publish"
  /\ \E what \in (Needs \cup {"pool"}) \ published : published' = published \cup {what}
  /\ start' = IF published' = Needs \cup {"pool"} THEN "done" ELSE "publish"
  /\ UNCHANGED <<attachVars, built, hookVars, slot, arena, region, serves, allocVars, crashed>>

Publish ==
  /\ start = "publish"
  /\ \E what \in Needs \ published : published' = published \cup {what}
  /\ UNCHANGED <<attachVars, start, built, hookVars, slot, arena, region, serves, allocVars, crashed>>

PublishPool ==
  /\ start = "publish" /\ Needs \subseteq published
  /\ start' = "done"
  /\ published' = published \cup {"pool"}
  /\ UNCHANGED <<attachVars, built, hookVars, slot, arena, region, serves, allocVars, crashed>>

-----------------------------------------------------------------------------
(* pool_alloc and free on the engine's threads                             *)

EntryPoint == IF jump THEN "detour" ELSE "original"

Request(t) ==
  /\ pc[t] = "idle" /\ built
  /\ pc' = [pc EXCEPT ![t] = EntryPoint]
  /\ \E r \in Requests : request' = [request EXCEPT ![t] = r]
  /\ UNCHANGED <<attachVars, start, built, hookVars, poolVars, live, crashed>>

(* The acquire load of side_pool.                                          *)
LoadSidePool(t) ==
  /\ Goto(t, "detour", IF "pool" \in published THEN "route" ELSE "trampoline")
  /\ UNCHANGED <<attachVars, start, built, hookVars, poolVars, live, request, crashed>>

Threshold == IF "threshold" \in published THEN config.threshold ELSE 0
ShouldRoute(r) == Threshold /= 0 /\ r.size >= Threshold /\ ~r.tagged

Route(t) ==
  /\ Goto(t, "route", IF ShouldRoute(request[t]) THEN "side" ELSE "trampoline")
  /\ UNCHANGED <<attachVars, start, built, hookVars, poolVars, live, request, crashed>>

(* A pool returns a block; the call returns it to the engine.              *)
Free(from) == {a \in from : live[a] = NoBlock}
Serve(t, from) ==
  /\ \E a \in Free(from) : live' = [live EXCEPT ![a] = request[t]]
  /\ request' = [request EXCEPT ![t] = NoBlock]

SideAllocates(t) ==
  /\ Goto(t, "side", "idle")
  /\ Serve(t, serves)
  /\ UNCHANGED <<attachVars, start, built, hookVars, poolVars, crashed>>

SideIsFull(t) ==
  /\ Free(serves) = {}
  /\ Goto(t, "side", "trampoline")
  /\ UNCHANGED <<attachVars, start, built, hookVars, poolVars, live, request, crashed>>

(* The detour calls the original through the trampoline.                   *)
CallOriginal(t) ==
  /\ hooked
  /\ Goto(t, "trampoline", "original")
  /\ UNCHANGED <<attachVars, start, built, hookVars, poolVars, live, request, crashed>>

CallNull(t) ==
  /\ pc[t] = "trampoline" /\ ~hooked
  /\ crashed' = TRUE
  /\ UNCHANGED <<attachVars, start, built, hookVars, poolVars, allocVars>>

MainAllocates(t) ==
  /\ Goto(t, "original", "idle")
  /\ Serve(t, MainPlaces)
  /\ UNCHANGED <<attachVars, start, built, hookVars, poolVars, crashed>>

MainIsFull(t) ==
  /\ Free(MainPlaces) = {}
  /\ Goto(t, "original", "idle")
  /\ request' = [request EXCEPT ![t] = NoBlock]
  /\ UNCHANGED <<attachVars, start, built, hookVars, poolVars, live, crashed>>

(* The engine's free: the first registered pool that contains the block.   *)
FreeBlock(a) ==
  /\ live[a] /= NoBlock /\ Claimers(a) /= {}
  /\ live' = [live EXCEPT ![a] = NoBlock]
  /\ UNCHANGED <<attachVars, start, built, hookVars, poolVars, pc, request, crashed>>

-----------------------------------------------------------------------------
Starting == \/ Attach \/ AttachSkips \/ PatchMainPool \/ PatchFails
            \/ InstallWithoutPool \/ CommitFails \/ WriteJump \/ StoreTrampoline
            \/ Decline \/ ConstructPool \/ RegisterPool
            \/ ProbePool \/ ProbeFails \/ Publish \/ PublishPool
PoolAlloc(t) == \/ Request(t) \/ LoadSidePool(t) \/ Route(t)
                \/ SideAllocates(t) \/ SideIsFull(t)
                \/ CallOriginal(t) \/ CallNull(t) \/ MainAllocates(t) \/ MainIsFull(t)

Next == /\ ~crashed
        /\ \/ Starting \/ BuildPools
           \/ \E t \in Threads : PoolAlloc(t)
           \/ \E a \in Places : FreeBlock(a)

Spec == Init /\ [][Next]_vars

-----------------------------------------------------------------------------
(* Properties                                                              *)

Stages == {"attach", "patch", "hooks", "trampoline", "create", "register", "probe",
           "publish", "done"}
TypeOK ==
  /\ config \in Configs /\ matches \subseteq Groups
  /\ start \in Stages
  /\ budget \in Nat /\ planned \in Nat
  /\ {patched, built, jump, hooked, crashed} \subseteq BOOLEAN
  /\ slot \in {"block pool", "taken", "side pool"}
  /\ arena \in {"none", "committed", "freed"}
  /\ region \subseteq ArenaPlaces /\ serves \subseteq Places
  /\ published \subseteq Needs \cup {"pool"}
  /\ live \in [Places -> Requests \cup {NoBlock}]
  /\ pc \in [Threads -> {"idle", "detour", "route", "side", "trampoline", "original"}]
  /\ request \in [Threads -> Requests \cup {NoBlock}]

(* "Exactly one pool can ever claim a pointer": a block the engine holds   *)
(* lies in memory that exists and will be freed into the pool it came      *)
(* from, whatever the registrar did and however the side pool is declined  *)
(* (side_pool.h, probe_side_pool, decline).                                *)
ClaimedOnce ==
  \A a \in Places : live[a] /= NoBlock =>
    /\ Cardinality(Claimers(a)) = 1
    /\ a \in ArenaPlaces => arena = "committed"

(* A thread that saw side_pool finds everything it then reads: the tag     *)
(* function, the threshold, Allocate, and an original to fall back to      *)
(* (pool_alloc_detour, create_side_pool).                                  *)
PublishedWhole ==
  \A t \in Threads : pc[t] \in {"route", "side"} => Needs \subseteq published /\ hooked

(* Only the class the main pool cannot fit is moved, and never what the    *)
(* engine chose a pool for (should_route).                                 *)
OnlyLargeMoved ==
  \A a \in ArenaPlaces : live[a] /= NoBlock =>
    config.threshold /= 0 /\ live[a].size >= config.threshold /\ ~live[a].tagged

(* On a 2 GB image the pools the engine may ask for and the side pool fit  *)
(* what has run clean, and the main pool is not starved for it             *)
(* (plan_pool_split).                                                      *)
PoolsFitIf(paid) ==
  paid /\ ~config.laa /\ slot = "side pool" =>
    /\ budget + planned <= MaxNonLaaPool
    /\ ExpectedMainPool(budget) >= MinimumMainPool
PaidPoolsFit == PoolsFitIf(patched)

(* "The side pool has to be paid for before the budget is written" and     *)
(* "decided alongside the budget so the two can never disagree".           *)
PoolsFit == PoolsFitIf(TRUE)
=============================================================================
