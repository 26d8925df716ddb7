------------------------------ MODULE PoolWalk ------------------------------
(***************************************************************************)
(* How full the engine's pools are: walk_pool, store_occupancy and         *)
(* refresh_pool_occupancy (engine_hooks.cpp) with tally_block              *)
(* (pool_occupancy.h) and the histogram of sizes (size_histogram.h).       *)
(*                                                                         *)
(* The walk takes none of the engine's locks: it goes from header to       *)
(* header while the engine splits and merges the blocks. A cursor that     *)
(* stands where a block used to begin reads whatever is there now. Samples *)
(* are taken by the sampler's thread and, after a reset or a failed buffer,*)
(* by the game's threads (d3d9.cpp), each of which refreshes the cache.    *)
(*                                                                         *)
(* The unit is one of the header's two words, so a block has at least two. *)
(***************************************************************************)
EXTENDS Naturals, FiniteSetsExt, Tally

CONSTANTS
  Refreshers,     (* the threads that refresh the cache                     *)
  Pools,          (* the main pool and, once it is published, the side pool *)
  Main,           (* the one with a histogram, and walked first             *)
  Words,          (* usable: the extent of a pool                           *)
  MaxBlocks,      (* max_walk_blocks                                        *)
  MaxRefreshes,   (* bound: refreshes                                       *)
  MaxMoves        (* bound: splits and merges                               *)

Header == 2

ASSUME PoolAssumption ==
  /\ Main \in Pools /\ Words \in Nat /\ Words >= Header
  /\ MaxBlocks \in Nat \ {0} /\ MaxRefreshes \in Nat /\ MaxMoves \in Nat

VARIABLES
  chain,       (* the blocks of each pool, by where they begin             *)
  moves,
  refreshes,
  at,          (* where each thread is in refresh_pool_occupancy           *)
  walk,        (* its locals: pool, cursor, tally, capped, ok; and, history,*)
               (* quiet: the pool has not moved since the walk began       *)
  cache,       (* main_occupancy and side_occupancy                        *)
  usedSizes,   (* main_used_sizes, under used_sizes_mutex                  *)
  whole,       (* history: what the walks that reached the end came to     *)
  overlapped   (* history: two refreshes ran at the same time              *)

occupancyVars == <<chain, moves, refreshes, at, walk, cache, usedSizes, whole, overlapped>>

(* size_bucket: the index of the highest set bit.                          *)
Bucket(size) == Max({0} \cup {b \in 1 .. size : 2 ^ b <= size})

Buckets   == 0 .. Bucket(Words)
NoSizes   == [b \in Buckets |-> 0]
NoTally   == [blocks |-> 0, used |-> 0, free |-> 0, largest |-> 0]
NoCache   == [walked |-> FALSE, capped |-> FALSE, blocks |-> 0, used |-> 0, free |-> 0, largest |-> 0]
Figures   == DOMAIN NoTally

Fresh(p) == [pool |-> p, cursor |-> 0, tally |-> NoTally, sizes |-> NoSizes,
             capped |-> FALSE, ok |-> TRUE, quiet |-> TRUE]

(* How a pool may be cut into blocks.                                      *)
Tilings ==
  LET Next(starts, b) == Min({s \in starts : s > b} \cup {Words})
      Cuts == {starts \in SUBSET (0 .. Words - Header) :
                 0 \in starts /\ \A b \in starts : Next(starts, b) - b >= Header}
  IN UNION {{[b \in starts |-> [size |-> Next(starts, b) - b, used |-> uses[b]]] : uses \in [starts -> BOOLEAN]} :
              starts \in Cuts}

(* The header words at a position. Inside a block they are whatever the    *)
(* game wrote there, or a header from before a merge.                      *)
HeadersAt(p, position) ==
  IF position \in DOMAIN chain[p] THEN {chain[p][position]}
  ELSE [size : 0 .. Words + 1, used : BOOLEAN]

PoolInit ==
  /\ chain \in [Pools -> Tilings]
  /\ moves = 0 /\ refreshes = 0
  /\ at = [t \in Refreshers |-> "out"] /\ walk = [t \in Refreshers |-> Fresh(Main)]
  /\ cache = [p \in Pools |-> NoCache] /\ usedSizes = NoSizes
  /\ whole = [p \in Pools |-> {}] /\ overlapped = FALSE

----------------------------------------------------------------------------
(* External: the engine allocates from a pool and gives back to it.        *)

Moved(p, blocks) ==
  /\ moves < MaxMoves /\ moves' = moves + 1
  /\ chain' = [chain EXCEPT ![p] = blocks]
  /\ walk' = [t \in Refreshers |-> [walk[t] EXCEPT !.quiet = @ /\ walk[t].pool /= p]]
  /\ UNCHANGED <<refreshes, at, cache, usedSizes, whole, overlapped>>

EngineAllocates(p, b, size) ==
  LET block == chain[p][b] IN
  /\ ~block.used
  /\ size = block.size \/ size + Header <= block.size
  /\ Moved(p, [c \in DOMAIN chain[p] \cup IF size = block.size THEN {} ELSE {b + size} |->
                 CASE c = b        -> [size |-> size, used |-> TRUE]
                   [] c = b + size /\ size < block.size -> [size |-> block.size - size, used |-> FALSE]
                   [] c /= b /\ (c /= b + size \/ size = block.size) -> chain[p][c]])

(* A block given back joins its free neighbours.                           *)
EngineFrees(p, b) ==
  LET blocks == chain[p]
      after  == {c \in DOMAIN blocks : c = b + blocks[b].size /\ ~blocks[c].used}
      before == {c \in DOMAIN blocks : c + blocks[c].size = b /\ ~blocks[c].used}
      joined == after \cup before \cup {b}
      end    == Max({c + blocks[c].size : c \in joined})
  IN /\ blocks[b].used
     /\ Moved(p, [c \in (DOMAIN blocks \ joined) \cup {Min(joined)} |->
                    IF c \in joined
                    THEN [size |-> end - Min(joined), used |-> FALSE]
                    ELSE blocks[c]])

----------------------------------------------------------------------------
(* refresh_pool_occupancy on one thread.                                   *)

Goes(t, to) == at' = [at EXCEPT ![t] = to]

Refresh(t) ==
  /\ at[t] = "out" /\ refreshes < MaxRefreshes /\ refreshes' = refreshes + 1
  /\ Goes(t, "walk") /\ walk' = [walk EXCEPT ![t] = Fresh(Main)]
  /\ overlapped' = (overlapped \/ \E u \in Refreshers : at[u] /= "out")
  /\ UNCHANGED <<chain, moves, cache, usedSizes, whole>>

(* walk_pool without a pool, without a usable range, or with a range that  *)
(* one VirtualQuery does not prove committed.                              *)
Refused(t) ==
  /\ at[t] = "walk" /\ walk[t].tally.blocks = 0
  /\ walk' = [walk EXCEPT ![t].ok = FALSE] /\ Goes(t, "walked")
  /\ UNCHANGED <<chain, moves, refreshes, cache, usedSizes, whole, overlapped>>

Capped(t) ==
  /\ at[t] = "walk" /\ walk[t].cursor < Words /\ walk[t].tally.blocks >= MaxBlocks
  /\ walk' = [walk EXCEPT ![t].capped = TRUE] /\ Goes(t, "walked")
  /\ UNCHANGED <<chain, moves, refreshes, cache, usedSizes, whole, overlapped>>

(* tally_block refuses a block that cannot be believed.                    *)
Believed(size, remaining) == size /= 0 /\ size <= remaining

TallyBlock(tally, h) ==
  [blocks  |-> tally.blocks + 1,
   used    |-> IF h.used THEN tally.used + h.size ELSE tally.used,
   free    |-> IF h.used THEN tally.free ELSE tally.free + h.size,
   largest |-> IF h.used THEN tally.largest ELSE Max({tally.largest, h.size})]

NoteSize(sizes, size) == [sizes EXCEPT ![Bucket(size)] = @ + size]

ReadHeader(t) ==
  /\ at[t] = "walk" /\ walk[t].cursor < Words /\ walk[t].tally.blocks < MaxBlocks
  /\ \E h \in HeadersAt(walk[t].pool, walk[t].cursor) :
       IF Believed(h.size, Words - walk[t].cursor)
       THEN /\ walk' = [walk EXCEPT ![t].cursor = @ + h.size, ![t].tally = TallyBlock(@, h),
                                    ![t].sizes = IF h.used THEN NoteSize(@, h.size) ELSE @]
            /\ UNCHANGED at
       ELSE walk' = [walk EXCEPT ![t].ok = FALSE] /\ Goes(t, "walked")
  /\ UNCHANGED <<chain, moves, refreshes, cache, usedSizes, whole, overlapped>>

Walked(t) ==
  /\ at[t] = "walk" /\ walk[t].cursor >= Words
  /\ Goes(t, "walked")
  /\ whole' = [whole EXCEPT ![walk[t].pool] = @ \cup {[tally |-> walk[t].tally, sizes |-> walk[t].sizes]}]
  /\ UNCHANGED <<chain, moves, refreshes, walk, cache, usedSizes, overlapped>>

(* Fault: a truncated walk is kept.                                        *)
KeptCapped(w) == w.ok

(* Only a walk that came to the end is kept.                               *)
Kept(w) == w.ok /\ ~w.capped

(* store_occupancy: one relaxed store after the other, walked before the   *)
(* figures.                                                                *)
StoreFlag(t) ==
  LET p == walk[t].pool IN
  \/ /\ at[t] = "walked" /\ Goes(t, "capped")
     /\ cache' = [cache EXCEPT ![p].walked = Kept(walk[t])]
     /\ UNCHANGED <<chain, moves, refreshes, walk, usedSizes, whole, overlapped>>
  \/ /\ at[t] = "capped" /\ Goes(t, IF Kept(walk[t]) THEN "blocks" ELSE "stored")
     /\ cache' = [cache EXCEPT ![p].capped = walk[t].capped]
     /\ UNCHANGED <<chain, moves, refreshes, walk, usedSizes, whole, overlapped>>

AfterFigure == [blocks |-> "used", used |-> "free", free |-> "largest", largest |-> "sizes"]

StoreFigure(t, f) ==
  /\ at[t] = f /\ Goes(t, AfterFigure[f])
  /\ cache' = [cache EXCEPT ![walk[t].pool][f] = walk[t].tally[f]]
  /\ UNCHANGED <<chain, moves, refreshes, walk, usedSizes, whole, overlapped>>

StoreSizes(t) ==
  /\ at[t] = "sizes" /\ Goes(t, "stored")
  /\ usedSizes' = IF walk[t].pool = Main THEN walk[t].sizes ELSE usedSizes
  /\ UNCHANGED <<chain, moves, refreshes, walk, cache, whole, overlapped>>

(* The side pool is next, if it has been published by now.                 *)
NextPool(t) ==
  /\ at[t] = "stored"
  /\ \/ /\ Goes(t, "out") /\ UNCHANGED walk
     \/ \E side \in Pools \ {Main} :
          walk[t].pool = Main /\ Goes(t, "walk") /\ walk' = [walk EXCEPT ![t] = Fresh(side)]
  /\ UNCHANGED <<chain, moves, refreshes, cache, usedSizes, whole, overlapped>>

PoolNext ==
  \/ \E p \in Pools : \E b \in DOMAIN chain[p] :
       EngineFrees(p, b) \/ \E size \in Header .. Words : EngineAllocates(p, b, size)
  \/ \E t \in Refreshers :
       \/ Refresh(t) \/ Refused(t) \/ ReadHeader(t) \/ Capped(t) \/ Walked(t)
       \/ StoreFlag(t) \/ StoreSizes(t) \/ NextPool(t)
       \/ \E f \in Figures : StoreFigure(t, f)

OccupancySpec == PoolInit /\ [][PoolNext]_occupancyVars

----------------------------------------------------------------------------

UsedBlocks(p) == {b \in DOMAIN chain[p] : chain[p][b].used}
UsedBytes(p)  == Total([b \in UsedBlocks(p) |-> chain[p][b].size])

Storing(p) == \E t \in Refreshers : walk[t].pool = p /\ at[t] \notin {"out", "walk", "stored"}

(* What the log and the overlay say of a pool was seen by a walk that came *)
(* to its end, and is the whole of it, although the walk takes no lock. No *)
(* figure comes from a walk that was cut short or abandoned; a walk that   *)
(* nothing disturbed reports the pool as it is, and one that was disturbed *)
(* still accounts for every word once, in the total and in the histogram.  *)
(* Between refreshes the figures belong together, unless two refreshes ran *)
(* at once: nothing orders their stores. (walk_pool, tally_block,          *)
(* store_occupancy)                                                        *)
OccupancyWhole ==
  \A p \in Pools :
    /\ \A f \in Figures : cache[p][f] \in {0} \cup {w.tally[f] : w \in whole[p]}
    /\ \A w \in whole[p] : /\ w.tally.used + w.tally.free = Words
                           /\ w.tally.largest <= w.tally.free /\ Total(w.sizes) = w.tally.used
    /\ \A t \in Refreshers :
         (at[t] = "walked" /\ walk[t].pool = p /\ walk[t].quiet /\ Kept(walk[t])) =>
            /\ walk[t].tally.used = UsedBytes(p)
            /\ walk[t].tally.blocks = Cardinality(DOMAIN chain[p])
    /\ (~overlapped /\ ~Storing(p) /\ cache[p].walked) => cache[p].used + cache[p].free = Words
=============================================================================
