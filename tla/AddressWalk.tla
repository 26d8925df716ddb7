---------------------------- MODULE AddressWalk ----------------------------
(***************************************************************************)
(* The walk over the address space: sample_va (va_space.h) with the        *)
(* arithmetic it is made of (va_region.h, free_size_classes.h), the        *)
(* figures sample_now leaves for the rescue and the overlay (sampler.h),   *)
(* and what those two make of them.                                        *)
(*                                                                         *)
(* Nothing holds the address space still. One VirtualQuery answers for one *)
(* region, and between two of them any thread of the game reserves,        *)
(* commits or gives back memory on either side of the cursor. The unit is  *)
(* a page; sizes and thresholds are numbers of pages.                      *)
(***************************************************************************)
EXTENDS Naturals, Sequences, SequencesExt, FiniteSetsExt, Functions

CONSTANTS
  Samplers,          (* the threads that call sample_now                   *)
  Pages,             (* lpMaximumApplicationAddress                        *)
  Line,              (* two_gigabytes                                      *)
  LargeAddressAware,
  Thresholds,        (* free_bucket_thresholds, largest first              *)
  Tracked,           (* tracked_regions                                    *)
  MaxUpsets,         (* bound: changes of the address space and failed     *)
                     (* queries                                          *)
  MaxSamples         (* bound: calls of sample_now                         *)

(* A process that is not large-address-aware has nothing above the line.   *)
ASSUME AddressAssumption ==
  /\ Pages \in Nat \ {0} /\ Line \in Nat /\ Tracked \in Nat \ {0}
  /\ MaxUpsets \in Nat /\ MaxSamples \in Nat
  /\ LargeAddressAware \in BOOLEAN /\ (~LargeAddressAware => Pages <= Line)
  /\ Thresholds \in Seq(Nat) /\ Len(Thresholds) > 1
  /\ \A i, j \in DOMAIN Thresholds : i < j => Thresholds[i] > Thresholds[j]

Addresses == 0 .. Pages - 1
States    == {"free", "reserved", "committed"}
Stages    == {"idle", "walk", "snapshot", "anywhere", "below"}

VARIABLES
  memory,      (* what each page is                                        *)
  upsets,      (* how often it changed or a query failed                   *)
  samples,     (* how many calls of sample_now there were                  *)
  stage,       (* where each thread is in sample_now: in sample_va, or     *)
               (* before the store it names                                *)
  scan,        (* its walk: cursor, stats and, history, queried (the       *)
               (* regions it was told of), standing (the pages free from   *)
               (* its start on) and widest (the largest hole since then)   *)
  snapshot,    (* both figures of snapshot_, under snapshot_mutex_         *)
  published,   (* last_largest_free_ and last_largest_free_below_2g_       *)
  loaded       (* what a rescue got from the first of its two loads        *)

addressVars == <<memory, upsets, samples, stage, scan, snapshot, published, loaded>>

(* The stretches of equal pages within a set of pages.                     *)
Stretches(pages) == {r \in Addresses \X Addresses : r[1] <= r[2] /\ r[1] .. r[2] \subseteq pages}

Largest(sizes) == IF sizes = {} THEN 0 ELSE Max(sizes)

Holes(pages) == {r[2] + 1 - r[1] : r \in Stretches(pages)}

FreeIn(m) == {p \in Addresses : m[p] = "free"}

(* What VirtualQuery says of a page: the stretch of pages like it that     *)
(* begins there.                                                           *)
RegionAt(c) ==
  LET end == Largest({p \in c .. Pages - 1 : \A q \in c .. p : memory[q] = memory[c]})
  IN [base |-> c, size |-> end + 1 - c, state |-> memory[c]]

UsableBelow(base, size) ==
  IF base >= Line THEN 0 ELSE IF size <= Line - base THEN size ELSE Line - base

Minus(a, b) == IF a >= b THEN a - b ELSE 0

(* Fault: the walk fills its buckets smallest threshold first.             *)
AccumulateAscending(buckets, size) ==
  [i \in DOMAIN buckets |-> IF size >= Thresholds[Len(Thresholds) + 1 - i] THEN buckets[i] + 1 ELSE buckets[i]]

(* accumulate_free_buckets: cumulative, one count for every threshold that *)
(* the block clears.                                                       *)
Accumulate(buckets, size) ==
  [i \in DOMAIN buckets |-> IF size >= Thresholds[i] THEN buckets[i] + 1 ELSE buckets[i]]

(* free_size_classes: the differences, and what no threshold counted.      *)
SizeClasses(buckets, freeRegions) ==
  [i \in 1 .. Len(buckets) + 1 |->
     CASE i = 1               -> buckets[1]
       [] i = Len(buckets) + 1 -> Minus(freeRegions, Last(buckets))
       [] i \in 2 .. Len(buckets) -> Minus(buckets[i], buckets[i - 1])]

Slivers(classes) == classes[Len(classes) - 1] + Last(classes)

(* largest_committed: a chain of swaps. Each slot keeps the larger of what *)
(* it has and what is carried on, the smallest of the newcomer and all     *)
(* slots before; what is carried past the end is dropped.                  *)
Rank(ranked, size) ==
  LET Carried(i) == Min({size} \cup {ranked[j] : j \in 1 .. i - 1})
  IN  [i \in DOMAIN ranked |-> Largest({ranked[i], Carried(i)})]

NoStats == [largestFree |-> 0, largestBelow |-> 0, totalFree |-> 0, totalBelow |-> 0,
            reserved |-> 0, committed |-> 0, freeRegions |-> 0,
            buckets |-> [i \in DOMAIN Thresholds |-> 0], ranked |-> [i \in 1 .. Tracked |-> 0]]

TallyFree(s, r) ==
  LET usable == UsableBelow(r.base, r.size) IN
  [s EXCEPT !.freeRegions = @ + 1, !.totalFree = @ + r.size,
            !.largestFree = Largest({@, r.size}),
            !.totalBelow = @ + usable, !.largestBelow = Largest({@, usable}),
            !.buckets = Accumulate(@, r.size)]

TallyRegion(s, r) ==
  CASE r.state = "free"      -> TallyFree(s, r)
    [] r.state = "reserved"  -> [s EXCEPT !.reserved = @ + r.size]
    [] r.state = "committed" -> [s EXCEPT !.committed = @ + r.size, !.ranked = Rank(@, r.size)]

(* Fault: the figure that binds on the other kind of process.              *)
HeadroomSwapped(anywhere, below) ==
  IF LargeAddressAware
  THEN IF below /= 0 THEN below ELSE anywhere
  ELSE IF anywhere /= 0 THEN anywhere ELSE below

(* headroom_bytes: zero means "not known yet", on either figure.           *)
Headroom(anywhere, below) ==
  IF LargeAddressAware
  THEN IF anywhere /= 0 THEN anywhere ELSE below
  ELSE IF below /= 0 THEN below ELSE anywhere

(* A figure, with what is known of the walk it is from: the largest hole   *)
(* that stood throughout and was passed, and the largest that existed.     *)
Unknown   == [size |-> 0, held |-> 0, widest |-> 0]
Passed(w) == {p \in w.standing : p < w.cursor}
Anywhere(w) ==
  [size |-> w.stats.largestFree, held |-> Largest(Holes(Passed(w))), widest |-> w.widest]
Below(w) ==
  [size |-> w.stats.largestBelow, held |-> Largest(Holes({p \in Passed(w) : p < Line})), widest |-> w.widest]

(* largest_free_bytes of SamplerFreeSpaceProbe (d3d9.cpp), which loads one *)
(* figure after the other, and binding_headroom of the overlay, which has  *)
(* copied both.                                                            *)
RescueHeadroom  == Headroom(loaded.size, published.below.size)
OverlayHeadroom == Headroom(snapshot.anywhere.size, snapshot.below.size)

NoScan == [cursor |-> 0, stats |-> NoStats, queried |-> << >>, standing |-> {}, widest |-> 0]

AddressInit ==
  /\ memory \in [Addresses -> States] /\ upsets = 0 /\ samples = 0
  /\ stage = [s \in Samplers |-> "idle"] /\ scan = [s \in Samplers |-> NoScan]
  /\ snapshot = [anywhere |-> Unknown, below |-> Unknown]
  /\ published = [anywhere |-> Unknown, below |-> Unknown] /\ loaded = Unknown

(* External: a thread of the game changes a stretch of pages. It reserves  *)
(* or commits what is free, commits what it reserved, or gives back.       *)
Witnessed(w) ==
  LET free == FreeIn(memory') IN
  [cursor |-> w.cursor, stats |-> w.stats, queried |-> w.queried,
   standing |-> w.standing \cap free, widest |-> Largest({w.widest} \cup Holes(free))]

Change(first, last, state) ==
  /\ upsets < MaxUpsets /\ upsets' = upsets + 1
  /\ \A p \in first .. last : memory[p] = memory[first]
  /\ state \in CASE memory[first] = "free"      -> {"reserved", "committed"}
                 [] memory[first] = "reserved"  -> {"committed", "free"}
                 [] memory[first] = "committed" -> {"free"}
  /\ memory' = [p \in Addresses |-> IF p \in first .. last THEN state ELSE memory[p]]
  /\ scan' = [s \in Samplers |-> IF stage[s] = "walk" THEN Witnessed(scan[s]) ELSE scan[s]]
  /\ UNCHANGED <<samples, stage, snapshot, published, loaded>>

-----------------------------------------------------------------------------
(* sample_now                                                              *)

Advance(s, from, to) == stage[s] = from /\ stage' = [stage EXCEPT ![s] = to]

FreshScan ==
  [cursor |-> 0, stats |-> NoStats, queried |-> << >>,
   standing |-> FreeIn(memory), widest |-> Largest(Holes(FreeIn(memory)))]

Begin(s) ==
  /\ samples < MaxSamples /\ samples' = samples + 1
  /\ Advance(s, "idle", "walk")
  /\ scan' = [scan EXCEPT ![s] = FreshScan]
  /\ UNCHANGED <<memory, upsets, snapshot, published, loaded>>

(* walk_stalled: a region that does not advance the cursor ends the walk.  *)
Stalled(w, r) == r.base + r.size <= w.cursor

Asked(w, r) ==
  [cursor |-> IF Stalled(w, r) THEN w.cursor ELSE r.base + r.size,
   stats |-> TallyRegion(w.stats, r), queried |-> Append(w.queried, r),
   standing |-> w.standing, widest |-> w.widest]

Query(s) ==
  LET r    == RegionAt(scan[s].cursor)
      over == Stalled(scan[s], r) \/ r.base + r.size >= Pages
  IN /\ Advance(s, "walk", IF over THEN "snapshot" ELSE "walk")
     /\ scan' = [scan EXCEPT ![s] = Asked(scan[s], r)]
     /\ UNCHANGED <<memory, upsets, samples, snapshot, published, loaded>>

(* VirtualQuery fails: the figures are those of the part that was walked.  *)
QueryFails(s) ==
  /\ upsets < MaxUpsets /\ upsets' = upsets + 1
  /\ Advance(s, "walk", "snapshot")
  /\ UNCHANGED <<memory, samples, scan, snapshot, published, loaded>>

StoreSnapshot(s) ==
  /\ Advance(s, "snapshot", "anywhere")
  /\ snapshot' = [anywhere |-> Anywhere(scan[s]), below |-> Below(scan[s])]
  /\ UNCHANGED <<memory, upsets, samples, scan, published, loaded>>

(* Two relaxed stores, between which another thread may make its own.      *)
StoreAnywhere(s) ==
  /\ Advance(s, "anywhere", "below")
  /\ published' = [anywhere |-> Anywhere(scan[s]), below |-> published.below]
  /\ UNCHANGED <<memory, upsets, samples, scan, snapshot, loaded>>

StoreBelow(s) ==
  /\ Advance(s, "below", "idle")
  /\ published' = [anywhere |-> published.anywhere, below |-> Below(scan[s])]
  /\ scan' = [scan EXCEPT ![s] = NoScan]
  /\ UNCHANGED <<memory, upsets, samples, snapshot, loaded>>

(* A rescue loads the first figure. It loads the second whenever           *)
(* RescueHeadroom is looked at.                                            *)
LoadAnywhere ==
  /\ loaded' = published.anywhere
  /\ UNCHANGED <<memory, upsets, samples, stage, scan, snapshot, published>>

Sample(s) == \/ Begin(s) \/ Query(s) \/ QueryFails(s)
             \/ StoreSnapshot(s) \/ StoreAnywhere(s) \/ StoreBelow(s)

AddressNext ==
  \/ \E s \in Samplers : Sample(s)
  \/ LoadAnywhere
  \/ \E first, last \in Addresses, state \in States :
       first <= last /\ Change(first, last, state)

AddressSpec == AddressInit /\ [][AddressNext]_addressVars

-----------------------------------------------------------------------------

(* The figures are about this process, although no walk ever saw it at     *)
(* rest and several threads walk and store at once. Each is no smaller     *)
(* than a hole that stood while the walk it is from ran and that the walk  *)
(* passed, and no larger than a hole that existed meanwhile; the           *)
(* constrained one counts no page above the line. So is the headroom that  *)
(* starts a rescue, although its two loads may meet the stores of two      *)
(* walks. The two figures of the snapshot are of one walk, so there the    *)
(* constrained one is the smaller, and the overlay's headroom covers every *)
(* hole that stood. (sample_va, usable_below_2g, sample_now,               *)
(* headroom_bytes, largest_free_bytes, binding_headroom)                   *)
Honest(f) == f.held <= f.size /\ f.size <= f.widest
Binding   == IF LargeAddressAware THEN loaded ELSE published.below
HeadroomHonest ==
  /\ Honest(published.anywhere) /\ Honest(published.below) /\ published.below.size <= Line
  /\ Binding.held <= RescueHeadroom
  /\ RescueHeadroom <= loaded.widest \/ RescueHeadroom <= published.below.widest
  /\ snapshot.below.size <= snapshot.anywhere.size
  /\ snapshot.anywhere.held <= OverlayHeadroom /\ OverlayHeadroom <= snapshot.anywhere.widest

(* "The rescue policy reads the smaller of the two" (va_region.h).         *)
ReadsTheSmaller ==
  loaded.size /= 0 /\ published.below.size /= 0 =>
    RescueHeadroom = Min({loaded.size, published.below.size})

(* The regions in a state, from one size to below another.                 *)
Told(queried, state, low, high) ==
  {i \in DOMAIN queried : queried[i].state = state /\ queried[i].size >= low /\ queried[i].size < high}

(* The overlay's bars are the blocks a walk saw: each class counts those   *)
(* between its two thresholds, the last those below the smallest, slivers  *)
(* are the two smallest classes, although the walk counts cumulatively and *)
(* the overlay differences. The largest committed regions are in order and *)
(* none is missing: the i-th has at least a size exactly if i regions have *)
(* it. No page is counted twice or left out. (accumulate_free_buckets,     *)
(* free_size_classes, sliver_count, sample_va)                             *)
ExactOf(w) ==
  LET stats   == w.stats
      classes == SizeClasses(stats.buckets, stats.freeRegions)
      n       == Len(Thresholds)
      Low(i)  == IF i > n THEN 0 ELSE Thresholds[i]
      High(i) == IF i = 1 THEN Pages + 1 ELSE Thresholds[i - 1]
  IN /\ \A i \in 1 .. n + 1 : classes[i] = Cardinality(Told(w.queried, "free", Low(i), High(i)))
     /\ Slivers(classes) = Cardinality(Told(w.queried, "free", 0, Thresholds[n - 1]))
     /\ \A i \in 1 .. Tracked, size \in 1 .. Pages + 1 :
          stats.ranked[i] >= size <=> Cardinality(Told(w.queried, "committed", size, Pages + 1)) >= i
     /\ stats.totalFree + stats.reserved + stats.committed = w.cursor

FiguresExact == \A s \in Samplers : ExactOf(scan[s])
=============================================================================
