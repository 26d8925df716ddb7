--------------------------- MODULE Counting_proofs ---------------------------
(***************************************************************************)
(* Proofs about what the program counts, for values of any size and any    *)
(* number of them: the allocation watch, for any number of threads and of  *)
(* slots (AllocWatch), the address-space sampler, for any threads and      *)
(* memory (AddressWalk), the occupancy of the engine's pools, for any      *)
(* number of refreshing threads (PoolWalk), and the staging pool with the  *)
(* uploads that it serves, for any texture and any number of threads       *)
(* (StagingUpload). They share the lemmas about sums and about the least   *)
(* of a set of numbers.                                                    *)
(*                                                                         *)
(* What keeps two threads from one record is that the count never falls    *)
(* below a slot that was given out: it is stored over only by threads that *)
(* were given none, and what they store is the number of slots. The        *)
(* report's sums rest on WorthInv, which bounds what the records hold by   *)
(* what was counted, and on ReportInv, which bounds what was read by what  *)
(* the records hold.                                                       *)
(*                                                                         *)
(* The sampler's headroom rests on WalkInv, for each thread's walk: what   *)
(* stood throughout and was passed was reported whole, and what was        *)
(* reported existed. A stored figure keeps what its walk knew, whichever   *)
(* thread stores the other one. The figures themselves rest on FiguresInv: *)
(* the ranking is the largest regions that were told, and a size class     *)
(* holds those of its range.                                               *)
(*                                                                         *)
(* A pool's occupancy rests on WalkerInv: what a walk has tallied is the   *)
(* words behind its cursor, each once, and a walk that nothing disturbed   *)
(* stands where a block starts and has tallied the blocks behind it.       *)
(*                                                                         *)
(* A staging texture has one owner by OwnersInv, which says who; and what  *)
(* the GPU shows rests on LevelShown: until a level is owed to nobody,     *)
(* somebody carries what was written last, or whoever carries anything     *)
(* else knows that it was passed. Its section rests on no invariant: the   *)
(* layout of every texture is sound, by the least level where it is not.   *)
(***************************************************************************)
EXTENDS AllocWatch, AddressWalk, StagingUpload, PoolWalk,
        SequenceTheorems, FiniteSetTheorems, WellFoundedInduction, TLAPS

-----------------------------------------------------------------------------
(* Least numbers                                                           *)

Smaller == {p \in Nat \X Nat : p[1] < p[2]}

LEMMA LeastNumber ==
  ASSUME NEW S, S \subseteq Nat, S # {}
  PROVE  \E x \in S : \A y \in S : x <= y
<1>1. OpToRel(<, Nat) = Smaller
  BY DEF OpToRel, Smaller
<1>2. IsWellFoundedOn(Smaller, Nat)
  BY <1>1, NatLessThanWellFounded
<1>3. PICK x \in S : \A y \in S : <<y, x>> \notin Smaller
  BY <1>2, WFMin
<1>4. \A y \in S : x <= y
  <2> TAKE y \in S
  <2>1. <<y, x>> \in Nat \X Nat /\ <<y, x>>[1] = y /\ <<y, x>>[2] = x
    OBVIOUS
  <2>2. ~(y < x)
    BY <1>3, <2>1 DEF Smaller
  <2> QED
    BY <2>2
<1> QED
  BY <1>4

LEMMA LeastMember ==
  ASSUME NEW S, S \subseteq Nat, S # {}
  PROVE  Min(S) \in S
BY LeastNumber DEF Min

-----------------------------------------------------------------------------
(* Sums                                                                    *)

Tallied(f) == IsFiniteSet(DOMAIN f) /\ \A i \in DOMAIN f : f[i] \in Nat

LEMMA UnitsOf ==
  ASSUME NEW f, NEW x
  PROVE  x \in Units(f) <=> \E i \in DOMAIN f : \E n \in 1..f[i] : x = <<i, n>>
BY DEF Units

LEMMA UpTo ==
  ASSUME NEW n \in Nat
  PROVE  IsFiniteSet(1..n) /\ Cardinality(1..n) = n
<1>1. IsFiniteSet(1..n) /\ Cardinality(1..n) = IF 1 > n THEN 0 ELSE n - 1 + 1
  BY FS_Interval
<1> QED
  BY <1>1

LEMMA Column ==
  ASSUME NEW i, NEW n \in Nat
  PROVE  IsFiniteSet({i} \X (1..n)) /\ Cardinality({i} \X (1..n)) = n
<1> DEFINE A == {i}
           B == 1..n
<1>1. IsFiniteSet(A) /\ Cardinality(A) = 1 /\ IsFiniteSet(B) /\ Cardinality(B) = n
  BY FS_Singleton, UpTo
<1> HIDE DEF A, B
<1>2. IsFiniteSet(A \X B) /\ Cardinality(A \X B) = Cardinality(A) * Cardinality(B)
  BY <1>1, FS_Product
<1>3. IsFiniteSet(A \X B) /\ Cardinality(A \X B) = n
  BY <1>1, <1>2
<1> QED
  BY <1>3 DEF A, B

LEMMA TotalInNat ==
  ASSUME NEW f, Tallied(f)
  PROVE  IsFiniteSet(Units(f)) /\ Total(f) \in Nat
<1> DEFINE columns == {{i} \X (1..f[i]) : i \in DOMAIN f}
           column  == [i \in DOMAIN f |-> {i} \X (1..f[i])]
<1>1. column \in Surjection(DOMAIN f, columns)
  BY DEF Surjection
<1>2. \A c \in columns : IsFiniteSet(c)
  BY Column DEF Tallied
<1>3. Units(f) = UNION columns
  BY DEF Units
<1> HIDE DEF column, columns
<1>4. IsFiniteSet(columns)
  BY <1>1, FS_Surjection DEF Tallied
<1>5. IsFiniteSet(Units(f))
  BY <1>2, <1>3, <1>4, FS_UNION
<1> QED
  BY <1>5, FS_CardinalityType DEF Total

LEMMA SameTotal ==
  ASSUME NEW f, NEW g, DOMAIN f = DOMAIN g, \A i \in DOMAIN g : f[i] = g[i]
  PROVE  Total(f) = Total(g)
<1>1. \A x : x \in Units(f) <=> x \in Units(g)
  BY UnitsOf
<1>2. Units(f) = Units(g)
  BY <1>1
<1> QED
  BY <1>2 DEF Total

LEMMA NothingToCount ==
  ASSUME NEW f, DOMAIN f = {}
  PROVE  Tallied(f) /\ Total(f) = 0
<1>1. \A x : x \notin Units(f)
  BY UnitsOf
<1>2. Units(f) = {}
  BY <1>1
<1> QED
  BY <1>2, FS_EmptySet DEF Total, Tallied

(* One value more.                                                         *)
LEMMA OneMore ==
  ASSUME NEW f, NEW g, NEW i, i \notin DOMAIN g, DOMAIN f = DOMAIN g \cup {i},
         f[i] \in Nat, \A j \in DOMAIN g : f[j] = g[j], Tallied(g)
  PROVE  Tallied(f) /\ Total(f) = Total(g) + f[i] /\ Total(g) \in Nat
<1> DEFINE new == {i} \X (1..f[i])
<1>1. IsFiniteSet(new) /\ Cardinality(new) = f[i]
  BY Column
<1>2. Units(f) = Units(g) \cup new
  <2>1. \A x : x \in new <=> \E n \in 1..f[i] : x = <<i, n>>
    OBVIOUS
  <2> HIDE DEF new
  <2>2. \A x : x \in Units(f) <=> x \in Units(g) \/ x \in new
    BY <2>1, UnitsOf
  <2> QED
    BY <2>2
<1>3. Units(g) \cap new = {}
  <2>1. \A x \in Units(g) : \E j \in DOMAIN g : \E n \in 1..g[j] : x = <<j, n>>
    BY UnitsOf
  <2> QED
    BY <2>1
<1>4. IsFiniteSet(Units(g)) /\ Cardinality(Units(g)) \in Nat
  BY TotalInNat DEF Total
<1> HIDE DEF new
<1>5. Cardinality(Units(g) \cup new) = Cardinality(Units(g)) + Cardinality(new) - Cardinality(Units(g) \cap new)
  BY <1>1, <1>4, FS_Union
<1>6. Cardinality(Units(g) \cap new) = 0
  BY <1>3, FS_EmptySet
<1>7. IsFiniteSet(DOMAIN f)
  BY FS_AddElement DEF Tallied
<1> QED
  BY <1>1, <1>2, <1>4, <1>5, <1>6, <1>7 DEF Total, Tallied

(* One value less.                                                         *)
LEMMA OneLess ==
  ASSUME NEW f, NEW g, NEW i, i \in DOMAIN f, DOMAIN g = DOMAIN f \ {i},
         \A j \in DOMAIN g : f[j] = g[j], Tallied(f)
  PROVE  Tallied(g) /\ Total(f) = Total(g) + f[i] /\ Total(g) \in Nat /\ f[i] \in Nat
<1>1. IsFiniteSet(DOMAIN g)
  BY FS_Subset DEF Tallied
<1>2. Tallied(g) /\ f[i] \in Nat
  BY <1>1 DEF Tallied
<1>3. i \notin DOMAIN g /\ DOMAIN f = DOMAIN g \cup {i}
  OBVIOUS
<1> QED
  BY <1>2, <1>3, OneMore

(* One value changed.                                                      *)
LEMMA OneChanged ==
  ASSUME NEW f, NEW g, NEW i, i \in DOMAIN f, DOMAIN g = DOMAIN f,
         g[i] \in Nat, \A j \in DOMAIN f \ {i} : g[j] = f[j], Tallied(f)
  PROVE  /\ Tallied(g) /\ Total(g) + f[i] = Total(f) + g[i]
         /\ Total(f) \in Nat /\ Total(g) \in Nat /\ f[i] \in Nat
<1> DEFINE h == [j \in DOMAIN f \ {i} |-> f[j]]
<1>1. DOMAIN h = DOMAIN f \ {i} /\ \A j \in DOMAIN h : h[j] = f[j] /\ h[j] = g[j]
  OBVIOUS
<1> HIDE DEF h
<1>2. Tallied(h) /\ Total(f) = Total(h) + f[i] /\ Total(h) \in Nat /\ f[i] \in Nat
  BY <1>1, OneLess
<1>3. i \notin DOMAIN h /\ DOMAIN g = DOMAIN h \cup {i}
  BY <1>1
<1>4. Tallied(g) /\ Total(g) = Total(h) + g[i]
  BY <1>1, <1>2, <1>3, OneMore
<1> QED
  BY <1>2, <1>4

(* More indices and larger values add up to no less.                       *)
LEMMA NoLess ==
  ASSUME NEW f, NEW g, Tallied(f), Tallied(g),
         \A i \in DOMAIN f : i \in DOMAIN g /\ f[i] <= g[i]
  PROVE  Total(f) <= Total(g) /\ Total(f) \in Nat /\ Total(g) \in Nat
<1>1. \A i \in DOMAIN f : \A n \in 1..f[i] : n \in 1..g[i]
  BY DEF Tallied
<1>2. Units(f) \subseteq Units(g)
  BY <1>1, UnitsOf
<1>3. IsFiniteSet(Units(g)) /\ Total(f) \in Nat /\ Total(g) \in Nat
  BY TotalInNat
<1> QED
  BY <1>2, <1>3, FS_Subset DEF Total

-----------------------------------------------------------------------------
(* AllocWatch                                                              *)

Writers  == At("write")
Holders  == At("write") \cup At("frames")
OnTheWay == At("claim") \cup At("write") \cup At("cap") \cup At("drop")
Recorded == {i \in DOMAIN records : records[i].size # 0 /\ \A t \in Writers : call[t].slot # i}

Sized == \A t \in Threads : call[t].step # "none" => call[t].size \in Sizes

SlotsInv ==
  /\ \A t \in Holders : call[t].slot \in 0..(Slots - 1) /\ call[t].slot < claimed
  /\ \A t, u \in Holders : call[t].slot = call[u].slot => t = u
  /\ \A i \in 0..(Slots - 1) : i >= claimed => records[i] = NoRecord

CapInv ==
  /\ claimed <= Slots + Cardinality(At("cap"))
  /\ \A t \in At("cap") : claimed >= Slots

CountInv == totals.count = Cardinality(Recorded) + dropped + Cardinality(OnTheWay)

(* A function that is being patched has its original before the first byte *)
(* of the jump is there.                                                   *)
PatchInv ==
  /\ install.kind < 4 /\ install.step \in {"half", "done"} => original
  /\ ~refused

Inv == TypeOK /\ Sized /\ SlotsInv /\ CapInv /\ CountInv /\ PatchInv

-----------------------------------------------------------------------------
(* A thread goes from one step to another.                                 *)
LEMMA Moves ==
  ASSUME TypeOK, NEW t \in Threads, NEW from, NEW to, call[t].step = from, call'[t].step = to,
         \A u \in Threads \ {t} : call'[u] = call[u]
  PROVE  \A s : At(s)' = (At(s) \ (IF s = from THEN {t} ELSE {})) \cup (IF s = to THEN {t} ELSE {})
BY DEF At

(* What a thread is doing, and for what; and how it goes on.               *)
Steps == {"none", "note", "claim", "write", "frames", "cap", "drop"}
Calls == [step : Steps, size : Sizes \cup {0}, landed : BOOLEAN, slot : Nat]

LEMMA CallTyped ==
  ASSUME TypeOK, NEW t \in Threads
  PROVE  /\ call \in [Threads -> Calls] /\ call[t].size \in Nat /\ call[t].slot \in Nat
         /\ call[t].landed \in BOOLEAN
         /\ \A step \in Steps : [call EXCEPT ![t].step = step] \in [Threads -> Calls]
         /\ \A step \in Steps, slot \in Nat :
              [call EXCEPT ![t].slot = slot, ![t].step = step] \in [Threads -> Calls]
<1>1. call \in [Threads -> Calls] /\ call[t] \in Calls
  BY DEF TypeOK, Calls, Steps
<1>2. PICK a \in Steps, n \in Sizes \cup {0}, l \in BOOLEAN, k \in Nat :
        call[t] = [step |-> a, size |-> n, landed |-> l, slot |-> k]
  BY <1>1 DEF Calls
<1>3. n \in Nat
  <2>1. Sizes \subseteq Nat
    BY WatchAssumption
  <2> QED
    BY <2>1
<1>4. call[t].size = n /\ call[t].slot = k /\ call[t].landed = l
  BY <1>2
<1>5. \A step \in Steps : [call[t] EXCEPT !.step = step] \in Calls
  <2> TAKE step \in Steps
  <2>1. [call[t] EXCEPT !.step = step] = [step |-> step, size |-> n, landed |-> l, slot |-> k]
    BY <1>2
  <2> QED
    BY <2>1 DEF Calls
<1>6. \A step \in Steps, slot \in Nat : [[call[t] EXCEPT !.slot = slot] EXCEPT !.step = step] \in Calls
  <2> TAKE step \in Steps, slot \in Nat
  <2> DEFINE c == [call[t] EXCEPT !.slot = slot]
  <2>1. c = [step |-> a, size |-> n, landed |-> l, slot |-> slot]
    BY <1>2
  <2> HIDE DEF c
  <2>2. [c EXCEPT !.step = step] = [step |-> step, size |-> n, landed |-> l, slot |-> slot]
    BY <2>1
  <2>3. [c EXCEPT !.step = step] \in Calls
    BY <2>2 DEF Calls
  <2> QED
    BY <2>3 DEF c
<1> QED
  BY <1>1, <1>3, <1>4, <1>5, <1>6

LEMMA Finite ==
  /\ \A s : IsFiniteSet(At(s)) /\ Cardinality(At(s)) \in Nat
  /\ IsFiniteSet(OnTheWay) /\ Cardinality(OnTheWay) \in Nat
  /\ TypeOK => IsFiniteSet(Recorded) /\ Cardinality(Recorded) \in Nat
<1>1. \A S : S \subseteq Threads => IsFiniteSet(S) /\ Cardinality(S) \in Nat
  BY WatchAssumption, FS_Subset, FS_CardinalityType
<1>2. \A s : At(s) \subseteq Threads
  BY DEF At
<1>3. OnTheWay \subseteq Threads
  BY <1>2 DEF OnTheWay
<1>4. ASSUME TypeOK PROVE IsFiniteSet(Recorded) /\ Cardinality(Recorded) \in Nat
  <2>1. IsFiniteSet(0..(Slots - 1))
    BY WatchAssumption, FS_Interval
  <2>2. Recorded \subseteq 0..(Slots - 1)
    BY <1>4 DEF TypeOK, Recorded
  <2> QED
    BY <2>1, <2>2, FS_Subset, FS_CardinalityType
<1> QED
  BY <1>1, <1>2, <1>3, <1>4

LEMMA InvInit == Init => Inv
<1> SUFFICES ASSUME Init PROVE Inv
  OBVIOUS
<1> USE WatchAssumption
<1>1. /\ install = [kind |-> 1, step |-> "look"] /\ original = FALSE /\ adrift = FALSE /\ refused = FALSE
      /\ call = [t \in Threads |-> Quiet] /\ totals = [count |-> 0, bytes |-> 0]
      /\ claimed = 0 /\ dropped = 0 /\ records = [i \in 0..(Slots - 1) |-> NoRecord]
  BY DEF Init
<1>2. TypeOK
  <2>1. call \in [Threads -> [step : {"none", "note", "claim", "write", "frames", "cap", "drop"},
                              size : Sizes \cup {0}, landed : BOOLEAN, slot : Nat]]
    BY <1>1 DEF Quiet
  <2>2. records \in [0..(Slots - 1) -> [size : Sizes \cup {0}, landed : BOOLEAN, frames : Backtraces \cup {<< >>}]]
    BY <1>1 DEF NoRecord
  <2>3. install \in [kind : 1..4, step : {"look", "protect", "patch", "half", "done"}] /\ totals \in [count : Nat, bytes : Nat]
    BY <1>1
  <2>4. original \in BOOLEAN /\ adrift \in BOOLEAN /\ refused \in BOOLEAN
    BY <1>1
  <2>5. claimed \in Nat /\ dropped \in Nat
    BY <1>1
  <2> QED
    BY <2>1, <2>2, <2>3, <2>4, <2>5 DEF TypeOK
<1>q. Quiet.step = "none" /\ \A t \in Threads : call[t] = Quiet
  BY <1>1 DEF Quiet
<1>3. At("claim") = {} /\ At("write") = {} /\ At("frames") = {} /\ At("cap") = {} /\ At("drop") = {}
  BY <1>q DEF At
<1>r. \A i \in 0..(Slots - 1) : records[i] = NoRecord /\ records[i].size = 0
  BY <1>1 DEF NoRecord
<1>4. Sized /\ SlotsInv
  BY <1>q, <1>r, <1>3 DEF Sized, SlotsInv, Holders
<1>5. CapInv
  <2>1. claimed = 0 /\ Cardinality(At("cap")) = 0
    BY <1>1, <1>3, FS_EmptySet
  <2> QED
    BY <1>3, <2>1 DEF CapInv
<1>6. CountInv
  <2>1. Recorded = {} /\ OnTheWay = {}
    BY <1>1, <1>3, <1>r DEF Recorded, OnTheWay
  <2> QED
    BY <1>1, <2>1, FS_EmptySet DEF CountInv
<1>7. PatchInv
  BY <1>1 DEF PatchInv
<1> QED
  BY <1>2, <1>4, <1>5, <1>6, <1>7 DEF Inv

-----------------------------------------------------------------------------
(* Installation touches no record, the detours no installation.            *)

LEMMA InstallKeeps ==
  ASSUME Inv, Install
  PROVE  Inv'
<1>1. UNCHANGED watchRest
  BY DEF Install, TryNext, Find, Unprotect, PatchFirst, PatchSecond
<1>2. UNCHANGED <<adrift, refused, call, totals, claimed, dropped, records>>
  BY <1>1 DEF watchRest
<1>3. install' \in [kind : 1..4, step : {"look", "protect", "patch", "half", "done"}]
  BY DEF Install, TryNext, Find, Unprotect, PatchFirst, PatchSecond, To, Inv, TypeOK
<1>4. original' \in BOOLEAN
  <2>1. original' = TRUE \/ original' = FALSE \/ original' = original \/ original' = (Kind \in Inline)
    BY DEF Install, TryNext, Find, Unprotect, PatchFirst, PatchSecond
  <2>2. (Kind \in Inline) \in BOOLEAN /\ original \in BOOLEAN
    BY DEF Inv, TypeOK
  <2> QED
    BY <2>1, <2>2
<1>5. TypeOK'
  BY <1>2, <1>3, <1>4 DEF Inv, TypeOK
<1>6. Sized' /\ SlotsInv' /\ CapInv' /\ CountInv'
  BY <1>2 DEF Inv, Sized, SlotsInv, CapInv, CountInv, Holders, Writers, OnTheWay, Recorded, At
<1>7. PatchInv'
  <2>1. CASE TryNext
    BY <1>2, <2>1 DEF TryNext, Inv, PatchInv, TypeOK
  <2>2. CASE Find \/ Unprotect
    BY <1>2, <2>2 DEF Find, Unprotect, To, Inv, PatchInv, TypeOK
  <2>3. CASE PatchFirst
    BY <1>2, <2>3 DEF PatchFirst, Inv, PatchInv
  <2>4. CASE PatchSecond
    BY <1>2, <2>4 DEF PatchSecond, To, Inv, PatchInv, TypeOK
  <2> QED
    BY <2>1, <2>2, <2>3, <2>4 DEF Install
<1> QED
  BY <1>5, <1>6, <1>7 DEF Inv

LEMMA ReportKeeps ==
  ASSUME Inv, Report \/ UNCHANGED vars
  PROVE  Inv'
<1>1. UNCHANGED reportRest
  BY DEF Report, StartReport, SkipRecord, AttributeRecord, TallyRecord, vars, reportRest
<1> QED
  BY <1>1 DEF reportRest, Inv, TypeOK, Sized, SlotsInv, CapInv, CountInv, PatchInv, Holders, Writers, OnTheWay,
              Recorded, At

LEMMA ReserveKeeps ==
  ASSUME Inv, NEW t \in Threads, NEW size \in Sizes, NEW landed \in BOOLEAN, Reserve(t, size, landed)
  PROVE  Inv'
<1> USE WatchAssumption
<1>1. /\ call[t] = Quiet /\ adrift' = Torn /\ refused' = (refused \/ (Watching /\ ~original))
      /\ UNCHANGED <<install, original, totals, claimed, dropped, records>>
  BY DEF Reserve
<1>2. \/ call' = call
      \/ call' = [call EXCEPT ![t] = [step |-> "note", size |-> size, landed |-> landed, slot |-> 0]]
  BY DEF Reserve, Observed
<1>3. PatchInv'
  BY <1>1 DEF Watching, Inv, PatchInv
<1>4. TypeOK'
  <2>1. adrift' \in BOOLEAN /\ refused' \in BOOLEAN
    BY <1>1 DEF Torn, Inv, TypeOK
  <2>2. call' \in [Threads -> [step : {"none", "note", "claim", "write", "frames", "cap", "drop"},
                               size : Sizes \cup {0}, landed : BOOLEAN, slot : Nat]]
    BY <1>2 DEF Inv, TypeOK
  <2> QED
    BY <1>1, <2>1, <2>2 DEF Inv, TypeOK
<1>a. /\ call[t].step = "none" /\ call'[t].step \in {"none", "note"}
      /\ (call'[t].step = "note" => call'[t].size = size)
      /\ \A u \in Threads \ {t} : call'[u] = call[u]
  <2>1. Quiet.step = "none"
    BY DEF Quiet
  <2> QED
    BY <1>1, <1>2, <2>1 DEF Inv, TypeOK
<1>5. \A s : s \notin {"none", "note"} => At(s)' = At(s)
  BY <1>a DEF At
<1>6. \A u \in Holders : call'[u] = call[u]
  BY <1>a DEF Holders, At
<1>7. Holders' = Holders /\ Writers' = Writers /\ OnTheWay' = OnTheWay
  BY <1>5 DEF Holders, Writers, OnTheWay
<1>8. Recorded' = Recorded
  BY <1>1, <1>6, <1>7 DEF Recorded, Writers, Holders
<1>9. Sized'
  BY <1>a DEF Sized, Inv
<1>10. SlotsInv' /\ CapInv' /\ CountInv'
  BY <1>1, <1>5, <1>6, <1>7, <1>8 DEF Inv, SlotsInv, CapInv, CountInv
<1> QED
  BY <1>3, <1>4, <1>9, <1>10 DEF Inv
LEMMA NoteKeeps ==
  ASSUME Inv, NEW t \in Threads, Note(t)
  PROVE  Inv'
<1> USE WatchAssumption
<1>1. /\ call[t].step = "note" /\ call' = [call EXCEPT ![t].step = "claim"]
      /\ totals' = [count |-> totals.count + 1, bytes |-> totals.bytes + call[t].size]
      /\ UNCHANGED <<install, original, adrift, refused, claimed, dropped, records>>
  BY DEF Note, Goto, detourRest
<1>2. /\ call'[t].step = "claim" /\ call'[t].size = call[t].size
      /\ \A u \in Threads \ {t} : call'[u] = call[u]
  BY <1>1 DEF Inv, TypeOK
<1>3. \A s : At(s)' = (At(s) \ (IF s = "note" THEN {t} ELSE {})) \cup (IF s = "claim" THEN {t} ELSE {})
  BY <1>1, <1>2, Moves DEF Inv
<1>4. /\ Writers' = Writers /\ Holders' = Holders /\ At("cap")' = At("cap") /\ OnTheWay' = OnTheWay \cup {t}
      /\ t \notin OnTheWay /\ t \notin Holders
  <2>1. t \notin OnTheWay /\ t \notin Holders
    BY <1>1 DEF OnTheWay, Holders, At
  <2> QED
    BY <1>3, <2>1 DEF Writers, Holders, OnTheWay
<1>5. \A u \in Holders : call'[u] = call[u]
  BY <1>2, <1>4 DEF Holders, At
<1>6. Recorded' = Recorded
  BY <1>1, <1>4, <1>5 DEF Recorded, Holders, Writers
<1>7. TypeOK'
  <2>1. totals' \in [count : Nat, bytes : Nat]
    <3>1. totals.count \in Nat /\ totals.bytes \in Nat /\ call[t].size \in Nat
      BY CallTyped DEF Inv, TypeOK
    <3>2. totals.count + 1 \in Nat /\ totals.bytes + call[t].size \in Nat
      BY <3>1
    <3> QED
      BY <1>1, <3>2
  <2>2. call' \in [Threads -> Calls]
    BY <1>1, CallTyped DEF Inv, Steps
  <2> QED
    BY <1>1, <2>1, <2>2 DEF Inv, TypeOK, Calls, Steps
<1>8. CountInv'
  <2>1. Cardinality(OnTheWay') = Cardinality(OnTheWay) + 1 /\ Cardinality(OnTheWay) \in Nat
    BY <1>4, Finite, FS_AddElement
  <2>2. totals'.count = totals.count + 1 /\ totals.count \in Nat /\ dropped \in Nat /\ Cardinality(Recorded) \in Nat
    BY <1>1, Finite DEF Inv, TypeOK
  <2>3. dropped' = dropped
    BY <1>1
  <2> QED
    BY <1>6, <2>1, <2>2, <2>3 DEF Inv, CountInv
<1>9. Sized'
  BY <1>1, <1>2 DEF Inv, Sized
<1>10. SlotsInv' /\ CapInv' /\ PatchInv'
  BY <1>1, <1>4, <1>5 DEF Inv, SlotsInv, CapInv, PatchInv
<1> QED
  BY <1>7, <1>8, <1>9, <1>10 DEF Inv

(* A slot is given out once: the next one is higher, whatever was stored   *)
(* in between.                                                             *)
LEMMA ClaimKeeps ==
  ASSUME Inv, NEW t \in Threads, Claim(t)
  PROVE  Inv'
<1> USE WatchAssumption
<1> DEFINE to == IF claimed < Slots THEN "write" ELSE "cap"
<1>1. /\ call[t].step = "claim" /\ call' = [call EXCEPT ![t].slot = claimed, ![t].step = to]
      /\ claimed' = claimed + 1
      /\ UNCHANGED <<install, original, adrift, refused, totals, dropped, records>>
  BY DEF Claim, detourRest
<1>2. /\ call'[t].step = to /\ call'[t].size = call[t].size /\ call'[t].slot = claimed
      /\ \A u \in Threads \ {t} : call'[u] = call[u]
  BY <1>1 DEF Inv, TypeOK
<1>c. to \in {"write", "cap"} /\ (to = "write" <=> claimed < Slots) /\ claimed \in Nat /\ Slots \in Nat
  BY DEF Inv, TypeOK
<1> HIDE DEF to
<1>3. /\ \A s : s # "claim" /\ s # to => At(s)' = At(s)
      /\ At("claim")' = At("claim") \ {t} /\ (\A s : s = to => At(s)' = At(s) \cup {t})
  BY <1>1, <1>2, <1>c DEF At
<1>4. /\ t \notin Holders /\ t \notin At("cap") /\ OnTheWay' = OnTheWay
      /\ (to = "write" => Writers' = Writers \cup {t} /\ Holders' = Holders \cup {t} /\ At("cap")' = At("cap"))
      /\ (to = "cap" => Writers' = Writers /\ Holders' = Holders /\ At("cap")' = At("cap") \cup {t})
  <2>1. t \notin Holders /\ t \notin At("cap") /\ t \in At("claim")
    BY <1>1 DEF Holders, At
  <2>2. CASE to = "write"
    BY <1>3, <2>1, <2>2 DEF Writers, Holders, OnTheWay, Steps
  <2>3. CASE to = "cap"
    BY <1>3, <2>1, <2>3 DEF Writers, Holders, OnTheWay, Steps
  <2> QED
    BY <1>c, <2>1, <2>2, <2>3
<1>5. \A u \in Holders : call'[u] = call[u] /\ u \in Threads
  BY <1>2, <1>4 DEF Holders, At
<1>6. Recorded' = Recorded
  <2>1. CASE to = "cap"
    BY <1>1, <1>4, <1>5, <2>1 DEF Recorded, Holders, Writers
  <2>2. CASE to = "write"
    <3>1. claimed \in 0..(Slots - 1) /\ records[claimed].size = 0
      <4>1. records[claimed] = NoRecord
        BY <1>c, <2>2 DEF Inv, SlotsInv
      <4> QED
        BY <1>c, <2>2, <4>1 DEF NoRecord
    <3>2. Writers' = Writers \cup {t} /\ records' = records /\ call'[t].slot = claimed
      BY <1>1, <1>2, <1>4, <2>2
    <3>3. \A u \in Writers : call'[u] = call[u]
      BY <1>5 DEF Holders, Writers
    <3>4. \A i \in DOMAIN records : i \in Recorded' <=> i \in Recorded
      BY <3>1, <3>2, <3>3 DEF Recorded
    <3> QED
      BY <3>2, <3>4 DEF Recorded
  <2> QED
    BY <1>c, <2>1, <2>2
<1>7. TypeOK'
  <2>1. call' \in [Threads -> Calls]
    BY <1>1, <1>c, CallTyped DEF Inv, Steps
  <2>2. claimed' \in Nat
    BY <1>1, <1>c
  <2> QED
    BY <1>1, <2>1, <2>2 DEF Inv, TypeOK, Calls, Steps
<1>8. CountInv'
  BY <1>1, <1>4, <1>6 DEF Inv, CountInv
<1>9. Sized' /\ PatchInv'
  BY <1>1, <1>2 DEF Inv, Sized, PatchInv
<1>10. CapInv'
  <2>0. Cardinality(At("cap")) \in Nat /\ IsFiniteSet(At("cap"))
    BY Finite
  <2>1. CASE to = "write"
    BY <1>1, <1>4, <1>c, <2>0, <2>1 DEF Inv, CapInv
  <2>2. CASE to = "cap"
    <3>1. Cardinality(At("cap")') = Cardinality(At("cap")) + 1
      BY <1>4, <2>0, <2>2, FS_AddElement
    <3> QED
      BY <1>1, <1>4, <1>c, <2>0, <2>2, <3>1 DEF Inv, CapInv
  <2> QED
    BY <1>c, <2>1, <2>2
<1>11. SlotsInv'
  <2>1. \A u \in Holders : call[u].slot \in 0..(Slots - 1) /\ call[u].slot < claimed /\ call'[u].slot = call[u].slot
    BY <1>5 DEF Inv, SlotsInv
  <2>2. \A u \in Holders' : u \in Holders \/ (u = t /\ claimed < Slots)
    BY <1>4, <1>c
  <2>3. \A u \in Holders' : call'[u].slot \in 0..(Slots - 1) /\ call'[u].slot < claimed'
    <3> SUFFICES ASSUME NEW u \in Holders' PROVE call'[u].slot \in 0..(Slots - 1) /\ call'[u].slot < claimed'
      OBVIOUS
    <3>1. CASE u \in Holders
      <4>1. call[u].slot \in 0..(Slots - 1) /\ call[u].slot < claimed /\ call'[u].slot = call[u].slot
        BY <2>1, <3>1
      <4> QED
        BY <1>1, <1>c, <4>1
    <3>2. CASE u = t /\ claimed < Slots
      BY <1>1, <1>2, <1>c, <3>2
    <3> QED
      BY <2>2, <3>1, <3>2
  <2>4. \A u, v \in Holders' : call'[u].slot = call'[v].slot => u = v
    <3>1. \A u \in Holders : call'[u].slot # claimed
      BY <1>c, <2>1
    <3>2. \A u, v \in Holders : call'[u].slot = call'[v].slot => u = v
      BY <2>1 DEF Inv, SlotsInv
    <3> QED
      BY <1>2, <2>2, <3>1, <3>2
  <2>5. \A i \in 0..(Slots - 1) : i >= claimed' => records'[i] = NoRecord
    <3>1. \A i \in 0..(Slots - 1) : i >= claimed + 1 => i >= claimed
      BY <1>c
    <3> QED
      BY <1>1, <3>1 DEF Inv, SlotsInv
  <2> QED
    BY <2>3, <2>4, <2>5 DEF SlotsInv
<1> QED
  BY <1>7, <1>8, <1>9, <1>10, <1>11 DEF Inv

-----------------------------------------------------------------------------
(* A record is written by the one thread that was given its slot.          *)

Record == [size : Sizes \cup {0}, landed : BOOLEAN, frames : Backtraces \cup {<< >>}]

LEMMA RecordTyped ==
  ASSUME NEW r \in Record
  PROVE  /\ \A n \in Sizes : [r EXCEPT !.size = n] \in Record
         /\ [r EXCEPT !.landed = TRUE] \in Record
         /\ \A b \in Backtraces \cup {<< >>} : [r EXCEPT !.frames = b] \in Record /\ [r EXCEPT !.frames = b].size = r.size
BY DEF Record

LEMMA WriteKeeps ==
  ASSUME Inv, NEW t \in Threads, Write(t)
  PROVE  Inv'
<1> USE WatchAssumption
<1> DEFINE slot == call[t].slot
           done == [NoRecord EXCEPT !.size = call[t].size, !.landed = call[t].landed]
<1>1. /\ call[t].step = "write"
      /\ UNCHANGED <<install, original, adrift, refused, totals, claimed, dropped>>
  BY DEF Write, detourRest
<1>2. /\ t \in Writers /\ t \in Holders /\ slot \in 0..(Slots - 1) /\ slot < claimed /\ slot \notin Recorded
      /\ call[t].size \in Sizes /\ call[t].landed \in BOOLEAN
  <2>1. t \in Writers /\ t \in Holders
    BY <1>1 DEF Writers, Holders, At
  <2> QED
    BY <1>1, <2>1, CallTyped DEF Inv, SlotsInv, Recorded, Sized
<1>3. records \in [0..(Slots - 1) -> Record] /\ \A i \in 0..(Slots - 1) : records[i] \in Record
  BY DEF Inv, TypeOK, Record
<1>4. \/ /\ UNCHANGED call
         /\ \/ records' = [records EXCEPT ![slot].size = call[t].size]
            \/ records' = [records EXCEPT ![slot].landed = TRUE]
      \/ records' = [records EXCEPT ![slot] = done] /\ call' = [call EXCEPT ![t].step = "frames"]
  BY DEF Write, Goto
<1>5. done \in Record /\ done.size = call[t].size
  BY <1>2 DEF Record, NoRecord
<1> HIDE DEF slot, done
<1>6. records' \in [0..(Slots - 1) -> Record] /\ \A i \in 0..(Slots - 1) : i # slot => records'[i] = records[i]
  BY <1>2, <1>3, <1>4, <1>5, RecordTyped
<1>7. \A i \in 0..(Slots - 1) : i >= claimed => records'[i] = NoRecord
  <2>1. \A i \in 0..(Slots - 1) : i >= claimed => i # slot
    BY <1>2 DEF Inv, TypeOK
  <2> QED
    BY <1>6, <2>1 DEF Inv, SlotsInv
<1>8. CASE UNCHANGED call
  <2>1. Writers' = Writers /\ Holders' = Holders /\ OnTheWay' = OnTheWay /\ At("cap")' = At("cap")
    BY <1>8 DEF Writers, Holders, OnTheWay, At
  <2>2. Recorded' = Recorded
    <3>1. slot \notin Recorded'
      BY <1>2, <1>8, <2>1 DEF Recorded, slot
    <3>2. DOMAIN records' = 0..(Slots - 1) /\ DOMAIN records = 0..(Slots - 1)
      BY <1>3, <1>6
    <3>3. \A i \in 0..(Slots - 1) : i # slot => (i \in Recorded' <=> i \in Recorded)
      BY <1>6, <1>8, <2>1, <3>2 DEF Recorded
    <3> QED
      BY <1>2, <3>1, <3>2, <3>3 DEF Recorded
  <2>3. TypeOK'
    BY <1>1, <1>6, <1>8 DEF Inv, TypeOK, Record
  <2>4. Sized' /\ CapInv' /\ CountInv' /\ PatchInv'
    BY <1>1, <1>8, <2>1, <2>2 DEF Inv, Sized, CapInv, CountInv, PatchInv
  <2>5. SlotsInv'
    BY <1>1, <1>7, <1>8, <2>1 DEF Inv, SlotsInv
  <2> QED
    BY <2>3, <2>4, <2>5 DEF Inv
<1>9. CASE records' = [records EXCEPT ![slot] = done] /\ call' = [call EXCEPT ![t].step = "frames"]
  <2>1. /\ call'[t].step = "frames" /\ call'[t].size = call[t].size /\ call'[t].slot = call[t].slot
        /\ \A u \in Threads \ {t} : call'[u] = call[u]
    BY <1>9 DEF Inv, TypeOK
  <2>2. \A s : At(s)' = (At(s) \ (IF s = "write" THEN {t} ELSE {})) \cup (IF s = "frames" THEN {t} ELSE {})
    BY <1>1, <2>1, Moves DEF Inv
  <2>3. /\ Writers' = Writers \ {t} /\ Holders' = Holders /\ At("cap")' = At("cap")
        /\ OnTheWay' = OnTheWay \ {t} /\ t \in OnTheWay
    <3>1. t \notin At("claim") /\ t \notin At("cap") /\ t \notin At("drop") /\ t \in At("write")
      BY <1>1 DEF At
    <3> QED
      BY <2>2, <3>1 DEF Writers, Holders, OnTheWay
  <2>4. \A u \in Threads : call'[u].slot = call[u].slot
    BY <2>1
  <2>5. Recorded' = Recorded \cup {slot}
    <3>1. DOMAIN records' = 0..(Slots - 1) /\ DOMAIN records = 0..(Slots - 1)
      BY <1>3, <1>6
    <3>2. records'[slot].size # 0
      BY <1>2, <1>3, <1>5, <1>9
    <3>3. \A u \in Writers \ {t} : call[u].slot # slot
      BY <1>2 DEF Inv, SlotsInv, Writers, Holders, slot
    <3>4. slot \in Recorded'
      BY <1>2, <2>3, <2>4, <3>1, <3>2, <3>3 DEF Recorded, Writers, At
    <3>5. \A i \in 0..(Slots - 1) : i # slot => (i \in Recorded' <=> i \in Recorded)
      <4> SUFFICES ASSUME NEW i \in 0..(Slots - 1), i # slot PROVE i \in Recorded' <=> i \in Recorded
        OBVIOUS
      <4>1. records'[i] = records[i]
        BY <1>6
      <4>2. (\A u \in Writers' : call'[u].slot # i) <=> (\A u \in Writers : call[u].slot # i)
        <5>1. \A u \in Writers : u \in Threads
          BY DEF Writers, At
        <5>2. call[t].slot # i
          BY DEF slot
        <5> QED
          BY <2>3, <2>4, <5>1, <5>2
      <4> QED
        BY <3>1, <4>1, <4>2 DEF Recorded
    <3> QED
      BY <1>2, <3>1, <3>4, <3>5 DEF Recorded
  <2>6. CountInv'
    <3>1. /\ Cardinality(OnTheWay') = Cardinality(OnTheWay) - 1 /\ Cardinality(OnTheWay) \in Nat
      BY <2>3, Finite, FS_RemoveElement
    <3>2. Cardinality(Recorded') = Cardinality(Recorded) + 1 /\ Cardinality(Recorded) \in Nat
      BY <1>2, <2>5, Finite, FS_AddElement DEF Inv
    <3>3. dropped' = dropped /\ totals' = totals /\ dropped \in Nat /\ totals.count \in Nat
      BY <1>1 DEF Inv, TypeOK
    <3> QED
      BY <3>1, <3>2, <3>3 DEF Inv, CountInv
  <2>7. TypeOK'
    <3>1. call' \in [Threads -> Calls]
      BY <1>9, CallTyped DEF Inv, Steps
    <3> QED
      BY <1>1, <1>6, <3>1 DEF Inv, TypeOK, Record, Calls, Steps
  <2>8. Sized' /\ CapInv' /\ PatchInv'
    BY <1>1, <1>2, <2>1, <2>3 DEF Inv, Sized, CapInv, PatchInv
  <2>9. SlotsInv'
    <3>1. \A u \in Holders : u \in Threads
      BY DEF Holders, At
    <3> QED
      BY <1>1, <1>7, <2>3, <2>4, <3>1 DEF Inv, SlotsInv
  <2> QED
    BY <2>6, <2>7, <2>8, <2>9 DEF Inv
<1> QED
  BY <1>4, <1>8, <1>9

LEMMA UnwindKeeps ==
  ASSUME Inv, NEW t \in Threads, Unwind(t)
  PROVE  Inv'
<1> USE WatchAssumption
<1> DEFINE slot == call[t].slot
<1>1. /\ call[t].step = "frames" /\ call' = [call EXCEPT ![t] = Quiet]
      /\ UNCHANGED <<install, original, adrift, refused, totals, claimed, dropped>>
  BY DEF Unwind, detourRest
<1>2. PICK b \in Backtraces \cup {<< >>} : records' = [records EXCEPT ![slot].frames = b]
  BY DEF Unwind
<1>3. t \in Holders /\ slot \in 0..(Slots - 1) /\ slot < claimed
  <2>1. t \in Holders
    BY <1>1 DEF Holders, At
  <2> QED
    BY <2>1 DEF Inv, SlotsInv
<1> HIDE DEF slot
<1>4. records \in [0..(Slots - 1) -> Record] /\ \A i \in 0..(Slots - 1) : records[i] \in Record
  BY DEF Inv, TypeOK, Record
<1>5. /\ records' \in [0..(Slots - 1) -> Record]
      /\ \A i \in 0..(Slots - 1) : records'[i].size = records[i].size /\ (i # slot => records'[i] = records[i])
  BY <1>2, <1>3, <1>4, RecordTyped
<1>6. call'[t].step = "none" /\ \A u \in Threads \ {t} : call'[u] = call[u]
  BY <1>1 DEF Inv, TypeOK, Quiet
<1>7. \A s : At(s)' = (At(s) \ (IF s = "frames" THEN {t} ELSE {})) \cup (IF s = "none" THEN {t} ELSE {})
  BY <1>1, <1>6, Moves DEF Inv
<1>8. Writers' = Writers /\ Holders' \subseteq Holders /\ t \notin Holders' /\ OnTheWay' = OnTheWay /\ At("cap")' = At("cap")
  <2>1. t \notin At("write")
    BY <1>1 DEF At
  <2> QED
    BY <1>7, <2>1 DEF Writers, Holders, OnTheWay
<1>9. \A u \in Holders' : call'[u] = call[u] /\ u \in Threads
  BY <1>6, <1>8 DEF Holders, At
<1>10. Recorded' = Recorded
  <2>1. DOMAIN records' = 0..(Slots - 1) /\ DOMAIN records = 0..(Slots - 1)
    BY <1>4, <1>5
  <2>2. \A u \in Writers : call'[u] = call[u]
    BY <1>8, <1>9 DEF Writers, Holders
  <2> QED
    BY <1>5, <1>8, <2>1, <2>2 DEF Recorded
<1>11. TypeOK'
  <2>1. call' \in [Threads -> Calls]
    BY <1>1, CallTyped DEF Inv, Calls, Steps, Quiet
  <2> QED
    BY <1>1, <1>5, <2>1 DEF Inv, TypeOK, Calls, Steps, Record
<1>12. Sized' /\ CapInv' /\ CountInv' /\ PatchInv'
  BY <1>1, <1>6, <1>8, <1>10 DEF Inv, Sized, CapInv, CountInv, PatchInv
<1>13. SlotsInv'
  <2>1. \A i \in 0..(Slots - 1) : i >= claimed => i # slot
    BY <1>3 DEF Inv, TypeOK
  <2> QED
    BY <1>1, <1>5, <1>8, <1>9, <2>1 DEF Inv, SlotsInv
<1> QED
  BY <1>11, <1>12, <1>13 DEF Inv

-----------------------------------------------------------------------------
(* What is stored over the count is the number of slots: no slot below it  *)
(* is given out again.                                                     *)

LEMMA CapKeeps ==
  ASSUME Inv, NEW t \in Threads, Cap(t)
  PROVE  Inv'
<1> USE WatchAssumption
<1>1. /\ call[t].step = "cap" /\ call' = [call EXCEPT ![t].step = "drop"] /\ claimed' = Slots
      /\ UNCHANGED <<install, original, adrift, refused, totals, dropped, records>>
  BY DEF Cap, Goto, detourRest
<1>2. /\ call'[t].step = "drop" /\ call'[t].size = call[t].size
      /\ \A u \in Threads \ {t} : call'[u] = call[u]
  BY <1>1 DEF Inv, TypeOK
<1>3. \A s : At(s)' = (At(s) \ (IF s = "cap" THEN {t} ELSE {})) \cup (IF s = "drop" THEN {t} ELSE {})
  BY <1>1, <1>2, Moves DEF Inv
<1>4. Writers' = Writers /\ Holders' = Holders /\ OnTheWay' = OnTheWay /\ t \notin Holders /\ At("cap")' = At("cap") \ {t}
  <2>1. t \in At("cap") /\ t \notin At("write") /\ t \notin At("frames")
    BY <1>1 DEF At
  <2> QED
    BY <1>3, <2>1 DEF Writers, Holders, OnTheWay
<1>5. \A u \in Holders : call'[u] = call[u] /\ u \in Threads
  BY <1>2, <1>4 DEF Holders, At
<1>6. Recorded' = Recorded
  BY <1>1, <1>4, <1>5 DEF Recorded, Writers, Holders
<1>7. TypeOK'
  <2>1. call' \in [Threads -> Calls]
    BY <1>1, CallTyped DEF Inv, Steps
  <2> QED
    BY <1>1, <2>1 DEF Inv, TypeOK, Calls, Steps
<1>8. Sized' /\ CountInv' /\ PatchInv'
  BY <1>1, <1>2, <1>4, <1>6 DEF Inv, Sized, CountInv, PatchInv
<1>9. CapInv'
  <2>1. Cardinality(At("cap") \ {t}) \in Nat
    <3>1. IsFiniteSet(At("cap")) /\ At("cap") \ {t} \subseteq At("cap")
      BY Finite
    <3> QED
      BY <3>1, FS_Subset, FS_CardinalityType
  <2>2. \A u \in At("cap")' : claimed' >= Slots
    BY <1>1
  <2>3. claimed' <= Slots + Cardinality(At("cap")')
    BY <1>1, <1>4, <2>1
  <2> QED
    BY <2>2, <2>3 DEF CapInv
<1>10. SlotsInv'
  <2>1. \A u \in Holders : call'[u].slot \in 0..(Slots - 1) /\ call'[u].slot < Slots
    BY <1>5 DEF Inv, SlotsInv
  <2>2. \A i \in 0..(Slots - 1) : ~(i >= Slots)
    OBVIOUS
  <2> QED
    BY <1>1, <1>4, <1>5, <2>1, <2>2 DEF Inv, SlotsInv
<1> QED
  BY <1>7, <1>8, <1>9, <1>10 DEF Inv

LEMMA CountDroppedKeeps ==
  ASSUME Inv, NEW t \in Threads, CountDropped(t)
  PROVE  Inv'
<1> USE WatchAssumption
<1>1. /\ call[t].step = "drop" /\ call' = [call EXCEPT ![t] = Quiet] /\ dropped' = dropped + 1
      /\ UNCHANGED <<install, original, adrift, refused, totals, claimed, records>>
  BY DEF CountDropped, detourRest
<1>2. call'[t].step = "none" /\ \A u \in Threads \ {t} : call'[u] = call[u]
  BY <1>1 DEF Inv, TypeOK, Quiet
<1>3. \A s : At(s)' = (At(s) \ (IF s = "drop" THEN {t} ELSE {})) \cup (IF s = "none" THEN {t} ELSE {})
  BY <1>1, <1>2, Moves DEF Inv
<1>4. /\ Writers' = Writers /\ Holders' = Holders /\ At("cap")' = At("cap")
      /\ OnTheWay' = OnTheWay \ {t} /\ t \in OnTheWay /\ t \notin Holders
  <2>1. /\ t \in At("drop") /\ t \notin At("write") /\ t \notin At("frames")
        /\ t \notin At("cap") /\ t \notin At("claim")
    BY <1>1 DEF At
  <2> QED
    BY <1>3, <2>1 DEF Writers, Holders, OnTheWay
<1>5. \A u \in Holders : call'[u] = call[u] /\ u \in Threads
  BY <1>2, <1>4 DEF Holders, At
<1>6. Recorded' = Recorded
  BY <1>1, <1>4, <1>5 DEF Recorded, Writers, Holders
<1>7. TypeOK'
  <2>1. call' \in [Threads -> Calls]
    BY <1>1, CallTyped DEF Inv, Calls, Steps, Quiet
  <2>2. dropped' \in Nat
    BY <1>1 DEF Inv, TypeOK
  <2> QED
    BY <1>1, <2>1, <2>2 DEF Inv, TypeOK, Calls, Steps
<1>8. CountInv'
  <2>1. Cardinality(OnTheWay') = Cardinality(OnTheWay) - 1 /\ Cardinality(OnTheWay) \in Nat
    BY <1>4, Finite, FS_RemoveElement
  <2>2. /\ dropped' = dropped + 1 /\ totals' = totals /\ dropped \in Nat /\ totals.count \in Nat
        /\ Cardinality(Recorded) \in Nat
    BY <1>1, Finite DEF Inv, TypeOK
  <2> QED
    BY <1>6, <2>1, <2>2 DEF Inv, CountInv
<1>9. Sized' /\ CapInv' /\ PatchInv'
  BY <1>1, <1>2, <1>4 DEF Inv, Sized, CapInv, PatchInv
<1>10. SlotsInv'
  BY <1>1, <1>4, <1>5 DEF Inv, SlotsInv
<1> QED
  BY <1>7, <1>8, <1>9, <1>10 DEF Inv

LEMMA InvNext == Inv /\ [Next]_vars => Inv'
<1> SUFFICES ASSUME Inv, [Next]_vars PROVE Inv'
  OBVIOUS
<1>1. CASE Install
  BY <1>1, InstallKeeps
<1>2. CASE Report \/ UNCHANGED vars
  BY <1>2, ReportKeeps
<1>3. CASE \E t \in Threads : ThreadNext(t)
  <2>1. PICK t \in Threads : ThreadNext(t)
    BY <1>3
  <2>2. CASE \E size \in Sizes, landed \in BOOLEAN : Reserve(t, size, landed)
    BY <2>2, ReserveKeeps
  <2>3. CASE Note(t)
    BY <2>3, NoteKeeps
  <2>4. CASE Claim(t)
    BY <2>4, ClaimKeeps
  <2>5. CASE Write(t)
    BY <2>5, WriteKeeps
  <2>6. CASE Unwind(t)
    BY <2>6, UnwindKeeps
  <2>7. CASE Cap(t)
    BY <2>7, CapKeeps
  <2>8. CASE CountDropped(t)
    BY <2>8, CountDroppedKeeps
  <2> QED
    BY <2>1, <2>2, <2>3, <2>4, <2>5, <2>6, <2>7, <2>8 DEF ThreadNext
<1> QED
  BY <1>1, <1>2, <1>3 DEF Next

LEMMA Accounted == Inv => RecordsAccounted
<1> SUFFICES ASSUME Inv PROVE RecordsAccounted
  OBVIOUS
<1>1. claimed <= Slots + Cardinality(Threads)
  <2>1. Cardinality(At("cap")) <= Cardinality(Threads)
    <3>1. At("cap") \subseteq Threads
      BY DEF At
    <3> QED
      BY <3>1, WatchAssumption, FS_Subset
  <2>2. Cardinality(At("cap")) \in Nat /\ Cardinality(Threads) \in Nat /\ claimed \in Nat /\ Slots \in Nat
    BY WatchAssumption, Finite, FS_CardinalityType DEF Inv, TypeOK
  <2> QED
    BY <2>1, <2>2 DEF Inv, CapInv
<1>2. totals.count = Cardinality({i \in DOMAIN records : records[i].size /= 0 /\ \A t \in At("write") : call[t].slot /= i})
         + dropped + Cardinality(At("claim") \cup At("write") \cup At("cap") \cup At("drop"))
  BY DEF Inv, CountInv, Recorded, Writers, OnTheWay
<1>3. \A t, u \in At("write") \cup At("frames") : call[t].slot = call[u].slot => t = u
  BY DEF Inv, SlotsInv, Holders
<1>4. ~refused
  BY DEF Inv, PatchInv
<1> QED
  BY <1>1, <1>2, <1>3, <1>4 DEF RecordsAccounted

(* The strengthened invariant of all this holds in every reachable state   *)
(* of the watch.                                                           *)
THEOREM Invariance == Spec => []Inv
<1> QED
  BY InvInit, InvNext, PTL DEF Spec

(* However many threads allocate, in whatever order they count, claim,     *)
(* write and store the cap over the count: every large allocation that     *)
(* context_totals counted has a record of its own, was counted as dropped, *)
(* or is in the hands of its thread, no record has two writers, and no     *)
(* detour runs before it has its original (record_allocation and           *)
(* enable_allocation_watch).                                               *)
THEOREM AllocationsAccounted == Spec => []RecordsAccounted
<1> QED
  BY Invariance, Accounted, PTL

(* The watch keeps its types: a slot, a size and a count are numbers, a    *)
(* record holds what one thread wrote.                                     *)
THEOREM TypeCorrect == Spec => []TypeOK
<1>1. Inv => TypeOK
  BY DEF Inv
<1> QED
  BY <1>1, Invariance, PTL
-----------------------------------------------------------------------------
(* The report, which reads the records while they are written              *)

(* What has been stored, and what was counted and is still to be stored.   *)
Stored == [i \in DOMAIN records |-> records[i].size]
Owing  == {t \in Threads : \/ call[t].step = "claim"
                           \/ call[t].step = "write" /\ records[call[t].slot].size = 0}
Owed   == [t \in Owing |-> call[t].size]

(* A size is stored once, and no more is stored than was counted.          *)
WorthInv ==
  /\ \A t \in Writers : records[call[t].slot].size \in {0, call[t].size}
  /\ Total(Stored) + Total(Owed) <= totals.bytes

LEMMA WorthTyped ==
  ASSUME TypeOK
  PROVE  /\ DOMAIN records = 0..(Slots - 1) /\ IsFiniteSet(0..(Slots - 1)) /\ Slots \in Nat
         /\ \A i \in 0..(Slots - 1) : records[i].size \in Nat
         /\ \A t \in Threads : call[t].size \in Nat
         /\ Tallied(Stored) /\ Tallied(Owed) /\ totals.bytes \in Nat
         /\ Total(Stored) \in Nat /\ Total(Owed) \in Nat
<1>1. Slots \in Nat /\ Sizes \cup {0} \subseteq Nat
  BY WatchAssumption
<1>2. IsFiniteSet(0..(Slots - 1))
  BY <1>1, FS_Interval
<1>3. DOMAIN records = 0..(Slots - 1) /\ totals.bytes \in Nat
  BY DEF TypeOK
<1>4. \A i \in 0..(Slots - 1) : records[i].size \in Nat
  BY <1>1 DEF TypeOK
<1>5. \A t \in Threads : call[t].size \in Nat
  BY CallTyped
<1>6. Tallied(Stored)
  BY <1>2, <1>3, <1>4 DEF Tallied, Stored
<1>7. Tallied(Owed)
  <2>1. DOMAIN Owed = Owing /\ Owing \subseteq Threads
    BY DEF Owed, Owing
  <2>2. IsFiniteSet(Owing)
    BY <2>1, WatchAssumption, FS_Subset
  <2> QED
    BY <1>5, <2>1, <2>2 DEF Tallied, Owed
<1> QED
  BY <1>1, <1>2, <1>3, <1>4, <1>5, <1>6, <1>7, TotalInNat

LEMMA SameOwed ==
  ASSUME Owing' = Owing, \A t \in Owing : call'[t].size = call[t].size
  PROVE  Total(Owed)' = Total(Owed)
<1>1. /\ DOMAIN (Owed') = Owing /\ DOMAIN Owed = Owing
      /\ \A t \in Owing : (Owed')[t] = call'[t].size /\ Owed[t] = call[t].size
  BY DEF Owed
<1>2. Total(Owed') = Total(Owed)
  BY <1>1, SameTotal
<1> QED
  BY <1>2

LEMMA OwesMore ==
  ASSUME TypeOK, NEW t, t \notin Owing, Owing' = Owing \cup {t}, call'[t].size \in Nat,
         \A u \in Owing : call'[u].size = call[u].size
  PROVE  Total(Owed)' = Total(Owed) + call'[t].size
<1>1. /\ DOMAIN (Owed') = Owing' /\ DOMAIN Owed = Owing
      /\ \A u \in Owing' : (Owed')[u] = call'[u].size
      /\ \A u \in Owing : Owed[u] = call[u].size
  BY DEF Owed
<1>2. /\ t \notin DOMAIN Owed /\ DOMAIN (Owed') = DOMAIN Owed \cup {t} /\ Tallied(Owed)
      /\ (Owed')[t] \in Nat /\ \A u \in DOMAIN Owed : (Owed')[u] = Owed[u]
  BY <1>1, WorthTyped
<1>3. Total(Owed') = Total(Owed) + (Owed')[t]
  BY <1>2, OneMore
<1> QED
  BY <1>1, <1>3

LEMMA OwesLess ==
  ASSUME TypeOK, NEW t \in Owing, Owing' = Owing \ {t},
         \A u \in Owing' : call'[u].size = call[u].size
  PROVE  Total(Owed) = Total(Owed)' + call[t].size /\ Total(Owed)' \in Nat
<1>1. /\ DOMAIN (Owed') = Owing' /\ DOMAIN Owed = Owing
      /\ \A u \in Owing' : (Owed')[u] = call'[u].size
      /\ \A u \in Owing : Owed[u] = call[u].size
  BY DEF Owed
<1>2. Total(Owed) = Total(Owed') + Owed[t] /\ Total(Owed') \in Nat
  BY <1>1, WorthTyped, OneLess
<1> QED
  BY <1>1, <1>2

LEMMA SameStored ==
  ASSUME TypeOK, TypeOK', \A i \in 0..(Slots - 1) : records'[i].size = records[i].size
  PROVE  Total(Stored)' = Total(Stored)
<1>1. DOMAIN records = 0..(Slots - 1) /\ DOMAIN records' = 0..(Slots - 1)
  BY DEF TypeOK
<1>2. /\ DOMAIN (Stored') = 0..(Slots - 1) /\ DOMAIN Stored = 0..(Slots - 1)
      /\ \A i \in 0..(Slots - 1) : (Stored')[i] = records'[i].size /\ Stored[i] = records[i].size
  BY <1>1 DEF Stored
<1>3. Total(Stored') = Total(Stored)
  BY <1>2, SameTotal
<1> QED
  BY <1>3

(* No step takes from a record, or from what was counted.                  *)
Grow == /\ \A i \in 0..(Slots - 1) : records[i].size <= records'[i].size
        /\ totals.bytes <= totals'.bytes

(* A thread that neither has counted anything nor stores anything.         *)
LEMMA NothingStored ==
  ASSUME Inv, Inv', WorthInv, NEW t \in Threads, UNCHANGED totals,
         \A u \in Threads \ {t} : call'[u] = call[u],
         t \notin Owing, t \notin Owing', t \notin Writers',
         \A i \in 0..(Slots - 1) : records'[i].size = records[i].size
  PROVE  WorthInv' /\ Grow
<1> USE DEF Writers, At
<1>1. \A u \in Writers \cup Writers' : u \in Threads
  OBVIOUS
<1>2. \A u \in Writers' : u # t /\ u \in Writers /\ call'[u] = call[u]
  OBVIOUS
<1>3. \A u \in Threads \ {t} : call[u].step = "write" => call[u].slot \in 0..(Slots - 1)
  BY DEF Inv, SlotsInv, Holders
<1>4. ASSUME NEW u \in Threads PROVE u \in Owing' <=> u \in Owing
  <2>1. CASE u = t
    BY <2>1
  <2>2. CASE u # t
    BY <1>3, <2>2 DEF Owing
  <2> QED
    BY <2>1, <2>2
<1>5. Owing' = Owing
  BY <1>4 DEF Owing
<1>6. \A u \in Owing : call'[u].size = call[u].size
  BY DEF Owing
<1>7. Total(Owed)' = Total(Owed) /\ Total(Stored)' = Total(Stored)
  BY <1>5, <1>6, SameOwed, SameStored DEF Inv
<1>8. \A u \in Writers' : records'[call'[u].slot].size \in {0, call'[u].size}
  BY <1>2, <1>3 DEF WorthInv
<1>9. Grow
  BY WorthTyped DEF Grow, Inv
<1> QED
  BY <1>7, <1>8, <1>9 DEF WorthInv

LEMMA ReserveWorth ==
  ASSUME Inv, Inv', WorthInv, NEW t \in Threads, NEW size \in Sizes, NEW landed \in BOOLEAN, Reserve(t, size, landed)
  PROVE  WorthInv' /\ Grow
<1>1. call[t] = Quiet /\ UNCHANGED <<totals, records>>
  BY DEF Reserve
<1>2. \/ call' = call
      \/ call' = [call EXCEPT ![t] = [step |-> "note", size |-> size, landed |-> landed, slot |-> 0]]
  BY DEF Reserve, Observed
<1>3. call[t].step = "none" /\ call'[t].step \in {"none", "note"} /\ \A u \in Threads \ {t} : call'[u] = call[u]
  BY <1>1, <1>2 DEF Quiet, Inv, TypeOK
<1>4. t \notin Owing /\ t \notin Owing' /\ t \notin Writers'
  BY <1>3 DEF Owing, Writers, At
<1> QED
  BY <1>1, <1>3, <1>4, NothingStored

LEMMA NoteWorth ==
  ASSUME Inv, Inv', WorthInv, NEW t \in Threads, Note(t)
  PROVE  WorthInv' /\ Grow
<1>1. /\ call[t].step = "note" /\ call' = [call EXCEPT ![t].step = "claim"]
      /\ totals' = [count |-> totals.count + 1, bytes |-> totals.bytes + call[t].size] /\ UNCHANGED records
  BY DEF Note, Goto
<1>2. /\ call'[t].step = "claim" /\ call'[t].size = call[t].size /\ totals'.bytes = totals.bytes + call[t].size
      /\ \A u \in Threads \ {t} : call'[u] = call[u]
  BY <1>1 DEF Inv, TypeOK
<1>3. t \notin Owing /\ Owing' = Owing \cup {t} /\ \A u \in Owing : call'[u].size = call[u].size
  <2>1. t \notin Owing /\ t \in Owing'
    BY <1>1, <1>2 DEF Owing
  <2>2. \A u \in Threads \ {t} : u \in Owing' <=> u \in Owing
    BY <1>1, <1>2 DEF Owing
  <2> QED
    BY <1>2, <2>1, <2>2 DEF Owing
<1>4. Total(Owed)' = Total(Owed) + call[t].size
  BY <1>2, <1>3, WorthTyped, OwesMore DEF Inv
<1>5. Total(Stored)' = Total(Stored)
  BY <1>1, SameStored DEF Inv
<1>6. Total(Stored) \in Nat /\ Total(Owed) \in Nat /\ call[t].size \in Nat /\ totals.bytes \in Nat
      /\ \A i \in 0..(Slots - 1) : records[i].size \in Nat
  BY WorthTyped DEF Inv
<1>7. \A u \in Writers' : u \in Writers /\ call'[u] = call[u]
  BY <1>2 DEF Writers, At
<1> QED
  BY <1>1, <1>2, <1>4, <1>5, <1>6, <1>7 DEF WorthInv, Grow

LEMMA ClaimWorth ==
  ASSUME Inv, Inv', WorthInv, NEW t \in Threads, Claim(t)
  PROVE  WorthInv' /\ Grow
<1> DEFINE to == IF claimed < Slots THEN "write" ELSE "cap"
<1>1. /\ call[t].step = "claim" /\ call' = [call EXCEPT ![t].slot = claimed, ![t].step = to]
      /\ UNCHANGED <<totals, records>>
  BY DEF Claim, detourRest
<1>2. /\ call'[t].step = to /\ call'[t].size = call[t].size /\ call'[t].slot = claimed
      /\ \A u \in Threads \ {t} : call'[u] = call[u]
  BY <1>1 DEF Inv, TypeOK
<1>3. /\ Total(Stored) \in Nat /\ Total(Owed) \in Nat /\ call[t].size \in Nat /\ totals.bytes \in Nat
      /\ \A i \in 0..(Slots - 1) : records[i].size \in Nat
  BY WorthTyped DEF Inv
<1>4. Total(Stored)' = Total(Stored)
  BY <1>1, SameStored DEF Inv
<1>5. t \in Owing /\ \A u \in Threads \ {t} : u \in Owing' <=> u \in Owing
  BY <1>1, <1>2 DEF Owing
<1>a. to \in {"write", "cap"} /\ (to = "write" <=> claimed < Slots)
  OBVIOUS
<1> HIDE DEF to
<1>6. CASE claimed < Slots
  <2>w. to = "write"
    BY <1>6, <1>a
  <2>1. records[claimed].size = 0
    <3>1. claimed \in 0..(Slots - 1) /\ NoRecord.size = 0
      BY <1>6, WatchAssumption DEF Inv, TypeOK, NoRecord
    <3> QED
      BY <1>6, <3>1 DEF Inv, TypeOK, SlotsInv
  <2>2. t \in Owing'
    BY <1>1, <1>2, <2>w, <2>1 DEF Owing
  <2>3. Owing' = Owing
    BY <1>5, <2>2 DEF Owing
  <2>4. Total(Owed)' = Total(Owed)
    BY <1>2, <2>3, SameOwed DEF Owing
  <2>5. \A u \in Writers' : u = t \/ (u \in Writers /\ call'[u] = call[u])
    BY <1>2 DEF Writers, At
  <2>6. \A u \in Writers' : records'[call'[u].slot].size \in {0, call'[u].size}
    BY <1>1, <1>2, <2>1, <2>5 DEF WorthInv
  <2>7. totals' = totals /\ records' = records
    BY <1>1
  <2> QED
    BY <1>3, <1>4, <2>4, <2>6, <2>7 DEF WorthInv, Grow
<1>7. CASE ~(claimed < Slots)
  <2>1. t \notin Owing' /\ to = "cap"
    BY <1>2, <1>7, <1>a DEF Owing
  <2>2. Owing' = Owing \ {t}
    BY <1>5, <2>1 DEF Owing
  <2>3. \A u \in Owing' : call'[u].size = call[u].size
    BY <1>2 DEF Owing
  <2>4. Total(Owed) = Total(Owed)' + call[t].size /\ Total(Owed)' \in Nat
    BY <1>5, <2>2, <2>3, OwesLess DEF Inv
  <2>5. \A u \in Writers' : u \in Writers /\ call'[u] = call[u]
    BY <1>2, <2>1 DEF Writers, At
  <2>6. totals' = totals /\ records' = records
    BY <1>1
  <2>7. \A u \in Writers' : records'[call'[u].slot].size \in {0, call'[u].size}
    BY <2>5, <2>6 DEF WorthInv
  <2> QED
    BY <1>3, <1>4, <2>4, <2>6, <2>7 DEF WorthInv, Grow
<1> QED
  BY <1>6, <1>7

LEMMA WriteWorth ==
  ASSUME Inv, Inv', WorthInv, NEW t \in Threads, Write(t)
  PROVE  WorthInv' /\ Grow
<1> USE WatchAssumption
<1> DEFINE slot == call[t].slot
           size == call[t].size
           done == [NoRecord EXCEPT !.size = call[t].size, !.landed = call[t].landed]
<1>1. call[t].step = "write" /\ UNCHANGED totals /\ t \in Writers
  BY DEF Write, detourRest, Writers, At
<1>2. slot \in 0..(Slots - 1) /\ \A u \in Writers \ {t} : call[u].slot # slot /\ call[u].slot \in 0..(Slots - 1)
  BY <1>1 DEF Inv, SlotsInv, Holders, Writers
<1>3. size \in Sizes /\ size \in Nat /\ size # 0
  BY <1>1 DEF Inv, Sized
<1>4. records \in [0..(Slots - 1) -> Record]
  BY DEF Inv, TypeOK, Record
<1>5. /\ Total(Stored) \in Nat /\ Total(Owed) \in Nat /\ totals.bytes \in Nat
      /\ \A i \in 0..(Slots - 1) : records[i].size \in Nat
  BY WorthTyped DEF Inv
<1>6. /\ \A u \in Threads \ {t} : call'[u] = call[u]
      /\ call'[t].slot = slot /\ call'[t].size = size /\ call'[t].step \in {"write", "frames"}
      /\ \A i \in 0..(Slots - 1) \ {slot} : records'[i] = records[i]
      /\ \/ records'[slot].size = size
         \/ call'[t] = call[t] /\ records'[slot].size = records[slot].size
  <2>1. \/ UNCHANGED call /\ records' = [records EXCEPT ![slot].size = size]
        \/ UNCHANGED call /\ records' = [records EXCEPT ![slot].landed = TRUE]
        \/ records' = [records EXCEPT ![slot] = done] /\ call' = [call EXCEPT ![t].step = "frames"]
    BY DEF Write, Goto
  <2>2. done.size = size
    BY DEF NoRecord
  <2> HIDE DEF done
  <2>3. \A r \in Record : [r EXCEPT !.size = size].size = size /\ [r EXCEPT !.landed = TRUE].size = r.size
    BY DEF Record
  <2>4. records[slot] \in Record
    BY <1>2, <1>4
  <2>5. CASE UNCHANGED call /\ records' = [records EXCEPT ![slot].size = size]
    BY <1>1, <1>2, <1>4, <2>3, <2>4, <2>5
  <2>6. CASE UNCHANGED call /\ records' = [records EXCEPT ![slot].landed = TRUE]
    BY <1>1, <1>2, <1>4, <2>3, <2>4, <2>6
  <2>7. CASE records' = [records EXCEPT ![slot] = done] /\ call' = [call EXCEPT ![t].step = "frames"]
    <3>1. call'[t].slot = slot /\ call'[t].size = size /\ call'[t].step = "frames" /\ \A u \in Threads \ {t} : call'[u] = call[u]
      BY <2>7 DEF Inv, TypeOK
    <3> QED
      BY <1>2, <1>4, <2>2, <2>7, <3>1
  <2> QED
    BY <2>1, <2>5, <2>6, <2>7
<1> HIDE DEF done
<1>7. records[slot].size \in {0, size}
  BY <1>1 DEF WorthInv
<1>8. \A u \in Writers' : u \in Writers
  BY <1>1, <1>6 DEF Writers, At
<1>9. \A u \in Writers' : records'[call'[u].slot].size \in {0, call'[u].size}
  <2> SUFFICES ASSUME NEW u \in Writers' PROVE records'[call'[u].slot].size \in {0, call'[u].size}
    OBVIOUS
  <2>1. u \in Writers /\ u \in Threads
    BY <1>8 DEF Writers, At
  <2>2. CASE u = t
    BY <1>6, <1>7, <2>2
  <2>3. CASE u # t
    BY <1>2, <1>6, <2>1, <2>3 DEF WorthInv
  <2> QED
    BY <2>2, <2>3
<1>10. \A u \in Threads \ {t} : u \in Owing' <=> u \in Owing
  <2> TAKE u \in Threads \ {t}
  <2>1. call[u].step = "write" => u \in Writers \ {t}
    BY DEF Writers, At
  <2>2. call[u].step = "write" => records'[call[u].slot] = records[call[u].slot]
    BY <1>2, <1>6, <2>1
  <2> QED
    BY <1>6, <2>2 DEF Owing
<1>11. /\ \A u \in Owing : call'[u].size = call[u].size
       /\ \A u : u \in Owing \/ u \in Owing' => u \in Threads
  BY <1>6 DEF Owing
<1>12. \A i \in 0..(Slots - 1) : i # slot => records'[i].size = records[i].size
  BY <1>6
<1>13. CASE records'[slot].size = records[slot].size /\ records[slot].size = 0
  <2>1. call'[t] = call[t]
    BY <1>3, <1>6, <1>13
  <2>2. t \in Owing /\ t \in Owing'
    BY <1>1, <1>13, <2>1 DEF Owing
  <2>c. \A u : u \in Owing' <=> u \in Owing
    BY <1>10, <1>11, <2>2
  <2>3. Owing' = Owing
    BY <2>c
  <2>4. Total(Owed)' = Total(Owed)
    BY <1>11, <2>3, SameOwed
  <2>5. Total(Stored)' = Total(Stored)
    BY <1>12, <1>13, SameStored DEF Inv
  <2> QED
    BY <1>1, <1>5, <1>9, <1>12, <1>13, <2>4, <2>5 DEF WorthInv, Grow
<1>14. CASE records[slot].size = size
  <2>1. records'[slot].size = size
    BY <1>6, <1>14
  <2>2. t \notin Owing /\ t \notin Owing'
    BY <1>1, <1>3, <1>6, <1>14, <2>1 DEF Owing
  <2>c. \A u : u \in Owing' <=> u \in Owing
    BY <1>10, <1>11, <2>2
  <2>3. Owing' = Owing
    BY <2>c
  <2>4. Total(Owed)' = Total(Owed)
    BY <1>11, <2>3, SameOwed
  <2>5. Total(Stored)' = Total(Stored)
    BY <1>12, <1>14, <2>1, SameStored DEF Inv
  <2> QED
    BY <1>1, <1>5, <1>9, <1>12, <1>14, <2>1, <2>4, <2>5 DEF WorthInv, Grow
<1>15. CASE records[slot].size = 0 /\ records'[slot].size = size
  <2>1. t \in Owing /\ t \notin Owing'
    BY <1>1, <1>3, <1>6, <1>15 DEF Owing
  <2>c. \A u : u \in Owing' <=> u \in Owing /\ u # t
    BY <1>10, <1>11, <2>1
  <2>2. Owing' = Owing \ {t}
    BY <2>c
  <2>3. Total(Owed) = Total(Owed)' + size /\ Total(Owed)' \in Nat
    BY <1>11, <2>1, <2>2, OwesLess DEF Inv
  <2>4. Total(Stored)' = Total(Stored) + size
    <3>1. DOMAIN records = 0..(Slots - 1) /\ DOMAIN records' = 0..(Slots - 1) /\ Tallied(Stored)
      BY WorthTyped DEF Inv, TypeOK
    <3>2. /\ DOMAIN (Stored') = 0..(Slots - 1) /\ DOMAIN Stored = 0..(Slots - 1)
          /\ \A i \in 0..(Slots - 1) : (Stored')[i] = records'[i].size /\ Stored[i] = records[i].size
      BY <3>1 DEF Stored
    <3>c. /\ slot \in DOMAIN Stored /\ DOMAIN (Stored') = DOMAIN Stored /\ (Stored')[slot] \in Nat
          /\ \A i \in DOMAIN Stored \ {slot} : (Stored')[i] = Stored[i]
      BY <1>2, <1>3, <1>12, <1>15, <3>2
    <3> HIDE DEF slot, size
    <3>3. Total(Stored') + Stored[slot] = Total(Stored) + (Stored')[slot] /\ Total(Stored') \in Nat
      BY <3>1, <3>c, OneChanged
    <3> QED
      BY <1>2, <1>3, <1>5, <1>15, <3>2, <3>3
  <2> QED
    BY <1>1, <1>3, <1>5, <1>9, <1>12, <1>15, <2>3, <2>4 DEF WorthInv, Grow
<1> QED
  BY <1>6, <1>7, <1>13, <1>14, <1>15

LEMMA UnwindWorth ==
  ASSUME Inv, Inv', WorthInv, NEW t \in Threads, Unwind(t)
  PROVE  WorthInv' /\ Grow
<1>1. call[t].step = "frames" /\ call' = [call EXCEPT ![t] = Quiet] /\ UNCHANGED totals
  BY DEF Unwind, detourRest
<1>2. PICK b \in Backtraces \cup {<< >>} : records' = [records EXCEPT ![call[t].slot].frames = b]
  BY DEF Unwind
<1>3. records \in [0..(Slots - 1) -> Record]
  BY DEF Inv, TypeOK, Record
<1>4. \A i \in 0..(Slots - 1) : records'[i].size = records[i].size
  BY <1>2, <1>3, RecordTyped
<1>5. call'[t].step = "none" /\ \A u \in Threads \ {t} : call'[u] = call[u]
  BY <1>1 DEF Inv, TypeOK, Quiet
<1>6. t \notin Owing /\ t \notin Owing' /\ t \notin Writers'
  BY <1>1, <1>5 DEF Owing, Writers, At
<1> QED
  BY <1>1, <1>4, <1>5, <1>6, NothingStored

LEMMA LeaveWorth ==
  ASSUME Inv, Inv', WorthInv, NEW t \in Threads, Cap(t) \/ CountDropped(t)
  PROVE  WorthInv' /\ Grow
<1>1. /\ call[t].step \in {"cap", "drop"} /\ UNCHANGED <<totals, records>>
      /\ call' = [call EXCEPT ![t].step = "drop"] \/ call' = [call EXCEPT ![t] = Quiet]
  BY DEF Cap, CountDropped, Goto, detourRest
<1>2. call'[t].step \in {"drop", "none"} /\ \A u \in Threads \ {t} : call'[u] = call[u]
  BY <1>1 DEF Inv, TypeOK, Quiet
<1>3. t \notin Owing /\ t \notin Owing' /\ t \notin Writers'
  BY <1>1, <1>2 DEF Owing, Writers, At
<1> QED
  BY <1>1, <1>2, <1>3, NothingStored

LEMMA WorthStays ==
  ASSUME Inv, WorthInv, UNCHANGED <<call, records, totals>>
  PROVE  WorthInv' /\ Grow
<1>1. UNCHANGED <<Stored, Owed, Writers>>
  BY DEF Stored, Owed, Owing, Writers, At
<1>2. \A i \in 0..(Slots - 1) : records[i].size \in Nat /\ totals.bytes \in Nat
  BY WorthTyped DEF Inv
<1>3. Total(Stored)' = Total(Stored) /\ Total(Owed)' = Total(Owed)
  BY <1>1
<1>4. totals.bytes \in Nat
  BY WorthTyped DEF Inv
<1> QED
  BY <1>1, <1>2, <1>3, <1>4 DEF WorthInv, Grow

-----------------------------------------------------------------------------
(* The rows of the report                                                  *)

Modules == {Requester(b) : b \in Backtraces \cup {<< >>}}
Rows    == [module : Modules, count : Nat, bytes : Nat]
Distinct(rows) == \A i, j \in DOMAIN rows : rows[i].module = rows[j].module => i = j

LEMMA Known ==
  ASSUME NEW rows \in Seq(Rows), NEW module
  PROVE  LET found == SelectInSeq(rows, LAMBDA r : r.module = module)
         IN  \/ found = 0 /\ \A i \in DOMAIN rows : rows[i].module # module
             \/ found \in DOMAIN rows /\ rows[found].module = module
<1> DEFINE I == {i \in 1..Len(rows) : rows[i].module = module}
<1>1. SelectInSeq(rows, LAMBDA r : r.module = module) = IF I # {} THEN Min(I) ELSE 0
  BY DEF SelectInSeq
<1>2. I \subseteq Nat /\ DOMAIN rows = 1..Len(rows)
  OBVIOUS
<1>3. CASE I = {}
  BY <1>1, <1>2, <1>3
<1>4. CASE I # {}
  <2>1. Min(I) \in I
    BY <1>2, <1>4, LeastMember
  <2> QED
    BY <1>1, <1>2, <1>4, <2>1
<1> QED
  BY <1>3, <1>4

LEMMA RowsTallied ==
  ASSUME NEW rows \in Seq(Rows)
  PROVE  /\ Tallied(Counts(rows)) /\ Tallied(Bytes(rows))
         /\ DOMAIN Counts(rows) = DOMAIN rows /\ DOMAIN Bytes(rows) = DOMAIN rows
         /\ \A i \in DOMAIN rows : Counts(rows)[i] = rows[i].count /\ Bytes(rows)[i] = rows[i].bytes
         /\ \A i \in DOMAIN rows : rows[i] \in Rows /\ rows[i].count \in Nat /\ rows[i].bytes \in Nat
         /\ Total(Counts(rows)) \in Nat /\ Total(Bytes(rows)) \in Nat
         /\ DOMAIN rows = 1..Len(rows) /\ Len(rows) \in Nat
<1>1. DOMAIN rows = 1..Len(rows) /\ Len(rows) \in Nat
  OBVIOUS
<1>2. IsFiniteSet(DOMAIN rows)
  BY <1>1, UpTo
<1>3. \A i \in DOMAIN rows : rows[i] \in Rows /\ rows[i].count \in Nat /\ rows[i].bytes \in Nat
  <2>1. \A r \in Rows : r.count \in Nat /\ r.bytes \in Nat
    BY DEF Rows
  <2>2. \A i \in DOMAIN rows : rows[i] \in Rows
    BY <1>1
  <2> QED
    BY <2>1, <2>2
<1>4. /\ DOMAIN Counts(rows) = DOMAIN rows /\ DOMAIN Bytes(rows) = DOMAIN rows
      /\ \A i \in DOMAIN rows : Counts(rows)[i] = rows[i].count /\ Bytes(rows)[i] = rows[i].bytes
  BY DEF Counts, Bytes
<1>5. Tallied(Counts(rows)) /\ Tallied(Bytes(rows))
  BY <1>2, <1>3, <1>4 DEF Tallied
<1> QED
  BY <1>1, <1>3, <1>4, <1>5, TotalInNat

(* An allocation is in one row, or in none.                                *)
LEMMA Attributed ==
  ASSUME NEW rows \in Seq(Rows), Distinct(rows), NEW module \in Modules, NEW bytes \in Nat,
         NEW new, new = Attribute(rows, module, bytes)
  PROVE  /\ new \in Seq(Rows) /\ Distinct(new)
         /\ \/ new = rows
            \/ /\ new # rows /\ Total(Counts(new)) = Total(Counts(rows)) + 1
               /\ Total(Bytes(new)) = Total(Bytes(rows)) + bytes
<1> DEFINE found == SelectInSeq(rows, LAMBDA r : r.module = module)
           fresh == [module |-> module, count |-> 1, bytes |-> bytes]
<1>1. \/ found = 0 /\ \A i \in DOMAIN rows : rows[i].module # module
      \/ found \in DOMAIN rows /\ rows[found].module = module
  BY Known
<1> DEFINE row    == [module |-> module, count |-> rows[found].count + 1, bytes |-> rows[found].bytes + bytes]
           longer == Append(rows, fresh)
           more   == [rows EXCEPT ![found] = row]
<1>2. \/ new = rows
      \/ bytes # 0 /\ found = 0 /\ new = longer
      \/ bytes # 0 /\ found # 0 /\ new = more
  <2>1. new = IF bytes = 0 \/ (found = 0 /\ Len(rows) = MaxModules) THEN rows
              ELSE IF found = 0 THEN longer ELSE more
    BY DEF Attribute
  <2> HIDE DEF found, fresh, row, more, longer
  <2> QED
    BY <2>1
<1> HIDE DEF found
<1>3. DOMAIN rows = 1..Len(rows) /\ Len(rows) \in Nat /\ \A i \in DOMAIN rows : rows[i] \in Rows
  BY RowsTallied
<1>r. /\ DOMAIN Counts(rows) = DOMAIN rows /\ DOMAIN Bytes(rows) = DOMAIN rows
      /\ \A i \in DOMAIN rows : Counts(rows)[i] = rows[i].count /\ Bytes(rows)[i] = rows[i].bytes
      /\ \A i \in DOMAIN rows : rows[i].count \in Nat /\ rows[i].bytes \in Nat
      /\ Tallied(Counts(rows)) /\ Tallied(Bytes(rows))
  BY RowsTallied
<1>n. /\ DOMAIN Counts(new) = DOMAIN new /\ DOMAIN Bytes(new) = DOMAIN new
      /\ \A i \in DOMAIN new : Counts(new)[i] = new[i].count /\ Bytes(new)[i] = new[i].bytes
  BY DEF Counts, Bytes
<1>4. CASE new = rows
  BY <1>4
<1>5. CASE bytes # 0 /\ found = 0 /\ new = longer
  <2> DEFINE n == Len(rows) + 1
  <2>1. fresh \in Rows /\ fresh.module = module /\ fresh.count = 1 /\ fresh.bytes = bytes
    BY DEF Rows
  <2> HIDE DEF fresh
  <2>2. /\ new \in Seq(Rows) /\ DOMAIN new = DOMAIN rows \cup {n} /\ n \notin DOMAIN rows
        /\ new[n] = fresh /\ \A i \in DOMAIN rows : new[i] = rows[i]
    BY <1>3, <1>5, <2>1
  <2> HIDE DEF n
  <2>3. \A i \in DOMAIN rows : rows[i].module # module
    BY <1>1, <1>3, <1>5
  <2>4. Distinct(new)
    BY <2>1, <2>2, <2>3 DEF Distinct
  <2>5. Total(Counts(new)) = Total(Counts(rows)) + 1
    <3>1. /\ n \notin DOMAIN Counts(rows) /\ DOMAIN Counts(new) = DOMAIN Counts(rows) \cup {n}
          /\ Counts(new)[n] = 1 /\ \A i \in DOMAIN Counts(rows) : Counts(new)[i] = Counts(rows)[i]
          /\ Tallied(Counts(rows))
      BY <1>r, <1>n, <2>1, <2>2
    <3> QED
      BY <3>1, OneMore
  <2>6. Total(Bytes(new)) = Total(Bytes(rows)) + bytes
    <3>1. /\ n \notin DOMAIN Bytes(rows) /\ DOMAIN Bytes(new) = DOMAIN Bytes(rows) \cup {n}
          /\ Bytes(new)[n] = bytes /\ \A i \in DOMAIN Bytes(rows) : Bytes(new)[i] = Bytes(rows)[i]
          /\ Tallied(Bytes(rows))
      BY <1>r, <1>n, <2>1, <2>2
    <3> QED
      BY <3>1, OneMore
  <2> QED
    BY <2>2, <2>4, <2>5, <2>6
<1>6. CASE bytes # 0 /\ found # 0 /\ new = more
  <2>1. found \in DOMAIN rows /\ rows[found].module = module /\ rows[found] \in Rows
    BY <1>1, <1>3, <1>6
  <2>2. rows[found].count \in Nat /\ rows[found].bytes \in Nat
    BY <2>1, RowsTallied
  <2>3. /\ row \in Rows /\ row.module = module
        /\ row.count = rows[found].count + 1 /\ row.bytes = rows[found].bytes + bytes
    <3>1. rows[found].count + 1 \in Nat /\ rows[found].bytes + bytes \in Nat
      BY <2>2
    <3> QED
      BY <3>1 DEF Rows
  <2> HIDE DEF row
  <2>4. /\ new \in Seq(Rows) /\ DOMAIN new = DOMAIN rows /\ new[found] = row
        /\ \A i \in DOMAIN rows \ {found} : new[i] = rows[i]
    BY <1>3, <1>6, <2>1, <2>3 DEF row
  <2>a. \A i \in DOMAIN rows : rows[i].count \in Nat /\ new[i].count = IF i = found THEN rows[i].count + 1 ELSE rows[i].count
    BY <1>r, <2>3, <2>4
  <2>b. \A i \in DOMAIN rows : rows[i].bytes \in Nat /\ new[i].bytes = IF i = found THEN rows[i].bytes + bytes ELSE rows[i].bytes
    BY <1>r, <2>3, <2>4
  <2>5. Distinct(new)
    <3>1. \A i \in DOMAIN rows : new[i].module = rows[i].module
      BY <2>1, <2>3, <2>4
    <3> QED
      BY <2>4, <3>1 DEF Distinct
  <2>6. Total(Counts(new)) = Total(Counts(rows)) + 1
    <3>1. /\ found \in DOMAIN Counts(rows) /\ DOMAIN Counts(new) = DOMAIN Counts(rows)
          /\ Counts(new)[found] = rows[found].count + 1 /\ Counts(rows)[found] = rows[found].count
          /\ \A i \in DOMAIN Counts(rows) \ {found} : Counts(new)[i] = Counts(rows)[i]
          /\ Tallied(Counts(rows))
      <4>1. Counts(new)[found] = new[found].count /\ new[found].count = rows[found].count + 1
        BY <1>n, <2>1, <2>4, <2>a
      <4>2. \A i \in DOMAIN rows \ {found} : Counts(new)[i] = rows[i].count
        <5>1. \A i \in DOMAIN rows \ {found} : new[i] = rows[i] /\ i \in DOMAIN new
          BY <2>4
        <5>2. \A i \in DOMAIN new : Counts(new)[i] = new[i].count
          BY <1>n
        <5> QED
          BY <5>1, <5>2
      <4> QED
        BY <1>r, <1>n, <2>1, <2>4, <4>1, <4>2
    <3>2. Counts(new)[found] \in Nat
      BY <2>2, <3>1
    <3>3. Total(Counts(new)) + Counts(rows)[found] = Total(Counts(rows)) + Counts(new)[found]
          /\ Total(Counts(new)) \in Nat /\ Total(Counts(rows)) \in Nat
      BY <3>1, <3>2, OneChanged
    <3> DEFINE sum  == Total(Counts(new))
               old  == Total(Counts(rows))
               had  == rows[found].count
    <3>4. sum + had = old + (had + 1) /\ sum \in Nat /\ old \in Nat /\ had \in Nat
      BY <2>2, <3>1, <3>3
    <3> HIDE DEF sum, old, had
    <3>5. sum = old + 1
      BY <3>4
    <3> QED
      BY <3>5 DEF sum, old
  <2>7. Total(Bytes(new)) = Total(Bytes(rows)) + bytes
    <3>1. /\ found \in DOMAIN Bytes(rows) /\ DOMAIN Bytes(new) = DOMAIN Bytes(rows)
          /\ Bytes(new)[found] = rows[found].bytes + bytes /\ Bytes(rows)[found] = rows[found].bytes
          /\ \A i \in DOMAIN Bytes(rows) \ {found} : Bytes(new)[i] = Bytes(rows)[i]
          /\ Tallied(Bytes(rows))
      <4>1. Bytes(new)[found] = new[found].bytes /\ new[found].bytes = rows[found].bytes + bytes
        BY <1>n, <2>1, <2>4, <2>b
      <4>2. \A i \in DOMAIN rows \ {found} : Bytes(new)[i] = rows[i].bytes
        <5>1. \A i \in DOMAIN rows \ {found} : new[i] = rows[i] /\ i \in DOMAIN new
          BY <2>4
        <5>2. \A i \in DOMAIN new : Bytes(new)[i] = new[i].bytes
          BY <1>n
        <5> QED
          BY <5>1, <5>2
      <4> QED
        BY <1>r, <1>n, <2>1, <2>4, <4>1, <4>2
    <3>2. Bytes(new)[found] \in Nat
      BY <2>2, <3>1
    <3>3. Total(Bytes(new)) + Bytes(rows)[found] = Total(Bytes(rows)) + Bytes(new)[found]
          /\ Total(Bytes(new)) \in Nat /\ Total(Bytes(rows)) \in Nat
      BY <3>1, <3>2, OneChanged
    <3> DEFINE sum  == Total(Bytes(new))
               old  == Total(Bytes(rows))
               had  == rows[found].bytes
    <3>4. sum + had = old + (had + bytes) /\ sum \in Nat /\ old \in Nat /\ had \in Nat
      BY <2>2, <3>1, <3>3
    <3> HIDE DEF sum, old, had
    <3>5. sum = old + bytes
      BY <3>4
    <3> QED
      BY <3>5 DEF sum, old
  <2>8. new # rows
    BY <2>1, <2>2, <2>3, <2>4
  <2> QED
    BY <2>4, <2>5, <2>6, <2>7, <2>8
<1> QED
  BY <1>2, <1>4, <1>5, <1>6

-----------------------------------------------------------------------------
(* The sums of the report                                                  *)

Reports == [at : Nat, count : Nat, rows : Seq(Rows), missed : Nat, seen : Nat, bytes : Nat, half : BOOLEAN]

(* The records that the report has passed, and the size in the module's    *)
(* row that is still to be read a second time.                             *)
Read  == [i \in 0..(report.at - 1) |-> records[i].size]
Ahead == IF report.half THEN records[report.at].size ELSE 0

(* A size does not change once it is there, so it is no smaller when it is *)
(* read again; and each record is read once.                               *)
ReportInv ==
  /\ report \in Reports
  /\ report.at <= report.count /\ report.count <= Slots
  /\ report.half => report.at < report.count
  /\ Distinct(report.rows)
  /\ Total(Counts(report.rows)) + report.missed = report.seen + Half
  /\ Total(Bytes(report.rows)) <= report.bytes + Ahead
  /\ report.bytes <= Total(Read)

LEMMA ReportTyped ==
  ASSUME report \in Reports
  PROVE  /\ report.at \in Nat /\ report.count \in Nat /\ report.rows \in Seq(Rows) /\ report.missed \in Nat
         /\ report.seen \in Nat /\ report.bytes \in Nat /\ report.half \in BOOLEAN
BY DEF Reports

LEMMA ReportIs ==
  ASSUME report \in Reports
  PROVE  report = [at |-> report.at, count |-> report.count, rows |-> report.rows, missed |-> report.missed,
                   seen |-> report.seen, bytes |-> report.bytes, half |-> report.half]
<1>1. PICK a \in Nat, c \in Nat, r \in Seq(Rows), m \in Nat, n \in Nat, b \in Nat, h \in BOOLEAN :
        report = [at |-> a, count |-> c, rows |-> r, missed |-> m, seen |-> n, bytes |-> b, half |-> h]
  BY DEF Reports
<1> QED
  BY <1>1

LEMMA ReadTyped ==
  ASSUME TypeOK, report \in Reports, report.at <= Slots
  PROVE  /\ Tallied(Read) /\ Total(Read) \in Nat /\ DOMAIN Read = 0..(report.at - 1)
         /\ \A i \in 0..(report.at - 1) : i \in 0..(Slots - 1) /\ Read[i] = records[i].size
<1>1. report.at \in Nat /\ Slots \in Nat /\ \A i \in 0..(Slots - 1) : records[i].size \in Nat
  BY ReportTyped, WorthTyped
<1>2. DOMAIN Read = 0..(report.at - 1) /\ \A i \in 0..(report.at - 1) : i \in 0..(Slots - 1) /\ Read[i] = records[i].size
  BY <1>1 DEF Read
<1>3. IsFiniteSet(0..(report.at - 1))
  <2>1. 0 \in Int /\ report.at - 1 \in Int
    BY <1>1
  <2> QED
    BY <2>1, FS_Interval
<1>4. Tallied(Read)
  BY <1>1, <1>2, <1>3 DEF Tallied
<1> QED
  BY <1>2, <1>4, TotalInNat

LEMMA LaterSizes ==
  ASSUME TypeOK'
  PROVE  \A i \in 0..(Slots - 1) : records'[i].size \in Nat
<1>1. Sizes \cup {0} \subseteq Nat
  BY WatchAssumption
<1> QED
  BY <1>1 DEF TypeOK

LEMMA ReportInit == Init => ReportInv
<1> SUFFICES ASSUME Init PROVE ReportInv
  OBVIOUS
<1>1. report = NoReport
  BY DEF Init
<1>2. /\ report \in Reports /\ report.at = 0 /\ report.count = 0 /\ report.rows = << >> /\ report.missed = 0
      /\ report.seen = 0 /\ report.bytes = 0 /\ report.half = FALSE
  BY <1>1 DEF NoReport, Reports
<1>3. DOMAIN Counts(<< >>) = {} /\ DOMAIN Bytes(<< >>) = {}
  BY DEF Counts, Bytes
<1>4. Total(Counts(<< >>)) = 0 /\ Total(Bytes(<< >>)) = 0
  BY <1>3, NothingToCount
<1>5. Distinct(<< >>)
  BY DEF Distinct
<1>6. DOMAIN Read = {}
  BY <1>2 DEF Read
<1>7. Total(Read) = 0
  BY <1>6, NothingToCount
<1> QED
  BY <1>2, <1>4, <1>5, <1>7, WatchAssumption DEF ReportInv, Half, Ahead

LEMMA ReportStays ==
  ASSUME Inv, Inv', ReportInv, Grow, UNCHANGED report
  PROVE  ReportInv'
<1>1. /\ report.at \in Nat /\ report.count \in Nat /\ report.bytes \in Nat /\ report.half \in BOOLEAN
      /\ report.rows \in Seq(Rows) /\ Slots \in Nat
  BY ReportTyped, WorthTyped DEF ReportInv, Inv
<1>2. report.at <= Slots
  BY <1>1 DEF ReportInv
<1>3. /\ Tallied(Read) /\ DOMAIN Read = 0..(report.at - 1)
      /\ \A i \in 0..(report.at - 1) : i \in 0..(Slots - 1) /\ Read[i] = records[i].size
  BY <1>2, ReadTyped DEF ReportInv, Inv
<1>4. /\ Tallied(Read') /\ DOMAIN (Read') = 0..(report.at - 1)
      /\ \A i \in 0..(report.at - 1) : (Read')[i] = records'[i].size
  <2>1. Read' = [i \in 0..(report.at - 1) |-> records'[i].size]
    BY DEF Read
  <2>2. DOMAIN (Read') = 0..(report.at - 1) /\ \A i \in 0..(report.at - 1) : (Read')[i] = records'[i].size
    BY <2>1
  <2>3. \A i \in 0..(report.at - 1) : records'[i].size \in Nat
    <3>1. \A i \in 0..(Slots - 1) : records'[i].size \in Nat
      BY LaterSizes DEF Inv
    <3> QED
      BY <1>3, <3>1
  <2>4. IsFiniteSet(DOMAIN (Read'))
    BY <1>3, <2>2 DEF Tallied
  <2> QED
    BY <2>2, <2>3, <2>4 DEF Tallied
<1>5. Total(Read) <= Total(Read') /\ Total(Read) \in Nat /\ Total(Read') \in Nat
  <2>1. \A i \in DOMAIN Read : i \in DOMAIN (Read') /\ Read[i] <= (Read')[i]
    BY <1>3, <1>4 DEF Grow
  <2> QED
    BY <1>3, <1>4, <2>1, NoLess
<1>6. Ahead <= Ahead' /\ Ahead \in Nat /\ Ahead' \in Nat
  <2>1. CASE report.half
    <3>1. report.at \in 0..(Slots - 1)
      BY <1>1, <2>1 DEF ReportInv
    <3>2. records[report.at].size \in Nat
      BY <3>1, WorthTyped DEF Inv
    <3>3. records'[report.at].size \in Nat
      BY <3>1, LaterSizes DEF Inv
    <3> QED
      BY <2>1, <3>1, <3>2, <3>3 DEF Ahead, Grow
  <2>2. CASE ~report.half
    BY <2>2 DEF Ahead
  <2> QED
    BY <2>1, <2>2
<1>7. Total(Bytes(report.rows)) \in Nat
  BY <1>1, RowsTallied
<1>8. report.bytes <= Total(Read)'
  BY <1>1, <1>5 DEF ReportInv
<1>9. Total(Bytes(report.rows)) <= report.bytes + Ahead'
  BY <1>1, <1>6, <1>7 DEF ReportInv
<1>10. Half' = Half
  BY DEF Half
<1> QED
  BY <1>8, <1>9, <1>10 DEF ReportInv

LEMMA StartReportKeeps ==
  ASSUME Inv, ReportInv, StartReport
  PROVE  ReportInv'
<1> DEFINE n == IF claimed < Slots THEN claimed ELSE Slots
<1>1. report' = [NoReport EXCEPT !.count = n] /\ UNCHANGED records
  BY DEF StartReport, reportRest
<1>2. n \in Nat /\ n <= Slots
  BY WatchAssumption DEF Inv, TypeOK
<1> HIDE DEF n
<1>r. report' = [at |-> 0, count |-> n, rows |-> << >>, missed |-> 0, seen |-> 0, bytes |-> 0, half |-> FALSE]
  BY <1>1 DEF NoReport
<1>3. /\ report' \in Reports /\ report'.at = 0 /\ report'.count = n /\ report'.rows = << >> /\ report'.missed = 0
      /\ report'.seen = 0 /\ report'.bytes = 0 /\ report'.half = FALSE
  <2>1. << >> \in Seq(Rows) /\ 0 \in Nat /\ FALSE \in BOOLEAN
    OBVIOUS
  <2> QED
    BY <1>2, <1>r, <2>1 DEF Reports
<1>4. DOMAIN Counts(<< >>) = {} /\ DOMAIN Bytes(<< >>) = {}
  BY DEF Counts, Bytes
<1>5. Total(Counts(<< >>)) = 0 /\ Total(Bytes(<< >>)) = 0
  BY <1>4, NothingToCount
<1>6. Distinct(<< >>)
  BY DEF Distinct
<1>7. DOMAIN (Read') = {}
  BY <1>3 DEF Read
<1>8. Total(Read') = 0
  BY <1>7, NothingToCount
<1>9. Half' = 0 /\ Ahead' = 0
  BY <1>3 DEF Half, Ahead
<1> QED
  BY <1>2, <1>3, <1>5, <1>6, <1>8, <1>9 DEF ReportInv

(* One record more is behind the report.                                   *)
LEMMA ReadMore ==
  ASSUME Inv, ReportInv, report.at < report.count, report' \in Reports, report'.at = report.at + 1, UNCHANGED records
  PROVE  /\ Total(Read)' = Total(Read) + records[report.at].size /\ Total(Read) \in Nat
         /\ records[report.at].size \in Nat /\ report.at \in 0..(Slots - 1)
<1>1. report.at \in Nat /\ report.count \in Nat /\ Slots \in Nat
  BY ReportTyped, WorthTyped DEF ReportInv, Inv
<1>2. report.at \in 0..(Slots - 1) /\ report.at <= Slots
  BY <1>1 DEF ReportInv
<1>3. records[report.at].size \in Nat
  BY <1>2, WorthTyped DEF Inv
<1>4. /\ Tallied(Read) /\ Total(Read) \in Nat /\ DOMAIN Read = 0..(report.at - 1)
      /\ \A i \in 0..(report.at - 1) : Read[i] = records[i].size
  BY <1>2, ReadTyped DEF ReportInv, Inv
<1>5. DOMAIN (Read') = 0..report.at /\ \A i \in 0..report.at : (Read')[i] = records[i].size
  <2>1. Read' = [i \in 0..(report'.at - 1) |-> records'[i].size]
    BY DEF Read
  <2>2. report'.at - 1 = report.at
    BY <1>1
  <2> QED
    BY <2>1, <2>2
<1>6. /\ report.at \notin DOMAIN Read /\ DOMAIN (Read') = DOMAIN Read \cup {report.at}
      /\ (Read')[report.at] \in Nat /\ \A i \in DOMAIN Read : (Read')[i] = Read[i]
      /\ Tallied(Read)
  <2>1. report.at \notin 0..(report.at - 1) /\ 0..report.at = 0..(report.at - 1) \cup {report.at}
    BY <1>1
  <2>2. (Read')[report.at] = records[report.at].size
    BY <1>1, <1>5
  <2>3. \A i \in DOMAIN Read : (Read')[i] = Read[i]
    BY <1>1, <1>4, <1>5, <2>1
  <2> QED
    BY <1>3, <1>4, <1>5, <2>1, <2>2, <2>3
<1>7. Total(Read') = Total(Read) + (Read')[report.at]
  <2> DEFINE f == Read'
             g == Read
             i == report.at
  <2>1. /\ i \notin DOMAIN g /\ DOMAIN f = DOMAIN g \cup {i} /\ f[i] \in Nat
        /\ \A j \in DOMAIN g : f[j] = g[j]
        /\ Tallied(g)
    BY <1>6
  <2> HIDE DEF f, g, i
  <2>2. Total(f) = Total(g) + f[i]
    BY <2>1, OneMore
  <2> QED
    BY <2>2 DEF f, g, i
<1>8. (Read')[report.at] = records[report.at].size
  BY <1>1, <1>5
<1> QED
  BY <1>2, <1>3, <1>4, <1>7, <1>8

LEMMA SkipRecordKeeps ==
  ASSUME Inv, ReportInv, SkipRecord
  PROVE  ReportInv'
<1>1. report.at < report.count /\ ~report.half /\ report' = [report EXCEPT !.at = @ + 1] /\ UNCHANGED records
  BY DEF SkipRecord, Reporting, reportRest
<1>2. /\ report.at \in Nat /\ report.count \in Nat /\ report.bytes \in Nat /\ report \in Reports
  BY ReportTyped DEF ReportInv
<1>r. report' = [at |-> report.at + 1, count |-> report.count, rows |-> report.rows, missed |-> report.missed,
                 seen |-> report.seen, bytes |-> report.bytes, half |-> report.half]
  BY <1>1, <1>2, ReportIs
<1>3. /\ report' \in Reports /\ report'.at = report.at + 1 /\ report'.count = report.count /\ report'.rows = report.rows
      /\ report'.missed = report.missed /\ report'.seen = report.seen /\ report'.bytes = report.bytes
      /\ report'.half = report.half
  <2>1. report.at + 1 \in Nat
    BY <1>2
  <2> QED
    BY <1>2, <1>r, <2>1, ReportTyped DEF Reports
<1>4. /\ Total(Read)' = Total(Read) + records[report.at].size /\ Total(Read) \in Nat
      /\ records[report.at].size \in Nat
  BY <1>1, <1>3, ReadMore
<1>5. Half' = Half /\ Ahead' = Ahead
  BY <1>1, <1>3 DEF Half, Ahead
<1> QED
  BY <1>1, <1>2, <1>3, <1>4, <1>5 DEF ReportInv

LEMMA TallyRecordKeeps ==
  ASSUME Inv, ReportInv, TallyRecord
  PROVE  ReportInv'
<1> DEFINE size == records[report.at].size
<1>1. /\ report.half /\ UNCHANGED records
      /\ report' = [report EXCEPT !.half = FALSE, !.at = @ + 1, !.seen = @ + 1, !.bytes = @ + size]
  BY DEF TallyRecord, reportRest
<1>2. /\ report.at \in Nat /\ report.count \in Nat /\ report.bytes \in Nat /\ report \in Reports /\ report.seen \in Nat
      /\ report.missed \in Nat /\ report.rows \in Seq(Rows)
  BY ReportTyped DEF ReportInv
<1>3. report.at < report.count
  BY <1>1 DEF ReportInv
<1>4. size \in Nat
  <2>1. report.at \in 0..(Slots - 1)
    BY <1>2, <1>3, WatchAssumption DEF ReportInv
  <2> QED
    BY <2>1, WorthTyped DEF Inv
<1> HIDE DEF size
<1>5. /\ report' \in Reports /\ report'.at = report.at + 1 /\ report'.count = report.count /\ report'.rows = report.rows
      /\ report'.missed = report.missed /\ report'.seen = report.seen + 1 /\ report'.bytes = report.bytes + size
      /\ report'.half = FALSE
  <2>1. report' = [at |-> report.at + 1, count |-> report.count, rows |-> report.rows, missed |-> report.missed,
                   seen |-> report.seen + 1, bytes |-> report.bytes + size, half |-> FALSE]
    BY <1>1, <1>2, ReportIs
  <2>2. report.at + 1 \in Nat /\ report.seen + 1 \in Nat /\ report.bytes + size \in Nat
    BY <1>2, <1>4
  <2> QED
    BY <1>2, <2>1, <2>2 DEF Reports
<1>6. Total(Read)' = Total(Read) + size /\ Total(Read) \in Nat
  BY <1>1, <1>3, <1>5, ReadMore DEF size
<1>7. Half = 1 /\ Half' = 0 /\ Ahead = size /\ Ahead' = 0
  BY <1>1, <1>5 DEF Half, Ahead, size
<1>8. Total(Counts(report.rows)) \in Nat /\ Total(Bytes(report.rows)) \in Nat
  BY <1>2, RowsTallied
<1>9. Total(Counts(report.rows)) + report.missed = report.seen + 1
  BY <1>7 DEF ReportInv
<1>10. Total(Bytes(report.rows)) <= report.bytes + size /\ report.bytes + size <= Total(Read)'
  BY <1>2, <1>4, <1>6, <1>7 DEF ReportInv
<1>11. report.at + 1 <= report.count /\ report.count <= Slots /\ Distinct(report.rows)
  BY <1>2, <1>3 DEF ReportInv
<1>12. Total(Counts(report.rows)) + report.missed = report.seen + 1 + 0
       /\ Total(Bytes(report.rows)) <= report.bytes + size + 0
  BY <1>2, <1>4, <1>8, <1>9, <1>10
<1> QED
  BY <1>5, <1>7, <1>10, <1>11, <1>12 DEF ReportInv

LEMMA AttributeRecordKeeps ==
  ASSUME Inv, ReportInv, AttributeRecord
  PROVE  ReportInv'
<1> DEFINE size   == records[report.at].size
           module == Requester(records[report.at].frames)
           rows   == Attribute(report.rows, module, size)
           missed == IF rows = report.rows THEN report.missed + 1 ELSE report.missed
<1>1. /\ report.at < report.count /\ ~report.half /\ UNCHANGED records
      /\ report' = [report EXCEPT !.rows = rows, !.half = TRUE, !.missed = missed]
  BY DEF AttributeRecord, Reporting, reportRest
<1>2. /\ report.at \in Nat /\ report.count \in Nat /\ report.bytes \in Nat /\ report \in Reports /\ report.seen \in Nat
      /\ report.missed \in Nat /\ report.rows \in Seq(Rows)
  BY ReportTyped DEF ReportInv
<1>3. report.at \in 0..(Slots - 1)
  BY <1>1, <1>2, WatchAssumption DEF ReportInv
<1>4. size \in Nat /\ module \in Modules
  <2>1. records[report.at].frames \in Backtraces \cup {<< >>}
    BY <1>3 DEF Inv, TypeOK
  <2>2. module \in Modules
    BY <2>1 DEF Modules
  <2> QED
    BY <1>3, <2>2, WorthTyped DEF Inv
<1> HIDE DEF size, module
<1>5. /\ rows \in Seq(Rows) /\ Distinct(rows)
      /\ \/ rows = report.rows
         \/ /\ rows # report.rows /\ Total(Counts(rows)) = Total(Counts(report.rows)) + 1
            /\ Total(Bytes(rows)) = Total(Bytes(report.rows)) + size
  <2>1. Distinct(report.rows) /\ report.rows \in Seq(Rows)
    BY <1>2 DEF ReportInv
  <2>2. rows = Attribute(report.rows, module, size)
    OBVIOUS
  <2> HIDE DEF rows
  <2> QED
    BY <1>4, <2>1, <2>2, Attributed
<1> HIDE DEF rows
<1>6. missed \in Nat
  BY <1>2
<1>7. Total(Counts(rows)) + missed = Total(Counts(report.rows)) + report.missed + 1
  <2>1. Total(Counts(report.rows)) \in Nat
    BY <1>2, RowsTallied
  <2>2. CASE rows = report.rows
    BY <1>2, <2>1, <2>2
  <2>3. CASE rows # report.rows
    <3>2. missed = report.missed
      BY <2>3
    <3>3. Total(Counts(rows)) = Total(Counts(report.rows)) + 1
      BY <1>5, <2>3
    <3> DEFINE new == Total(Counts(rows))
               old == Total(Counts(report.rows))
    <3>4. new = old + 1 /\ old \in Nat /\ missed = report.missed /\ report.missed \in Nat
      BY <1>2, <2>1, <3>2, <3>3
    <3> HIDE DEF missed, new, old
    <3>5. new + missed = old + report.missed + 1
      BY <3>4
    <3> QED
      BY <3>5 DEF new, old
  <2> QED
    BY <2>2, <2>3
<1>8. Total(Bytes(rows)) <= Total(Bytes(report.rows)) + size
  <2>1. Total(Bytes(report.rows)) \in Nat
    BY <1>2, RowsTallied
  <2> QED
    BY <1>4, <1>5, <2>1
<1> HIDE DEF missed
<1>9. /\ report' \in Reports /\ report'.at = report.at /\ report'.count = report.count /\ report'.rows = rows
      /\ report'.missed = missed /\ report'.seen = report.seen /\ report'.bytes = report.bytes
      /\ report'.half = TRUE
  <2>1. report' = [at |-> report.at, count |-> report.count, rows |-> rows, missed |-> missed,
                   seen |-> report.seen, bytes |-> report.bytes, half |-> TRUE]
    BY <1>1, <1>2, ReportIs
  <2> QED
    BY <1>2, <1>5, <1>6, <2>1 DEF Reports
<1>10. Half = 0 /\ Half' = 1 /\ Ahead = 0 /\ Ahead' = size /\ Read' = Read
  BY <1>1, <1>9 DEF Half, Ahead, size, Read
<1>11. Total(Counts(report.rows)) \in Nat /\ Total(Bytes(report.rows)) \in Nat /\ Total(Bytes(rows)) \in Nat
  BY <1>2, <1>5, RowsTallied
<1>12. Total(Counts(rows)) + missed = report.seen + 1
  BY <1>2, <1>7, <1>10, <1>11 DEF ReportInv
<1>13. Total(Bytes(rows)) <= report.bytes + size
  BY <1>2, <1>4, <1>8, <1>10, <1>11 DEF ReportInv
<1>14. report.bytes <= Total(Read')
  BY <1>10 DEF ReportInv
<1> QED
  BY <1>1, <1>5, <1>9, <1>10, <1>12, <1>13, <1>14 DEF ReportInv

-----------------------------------------------------------------------------
SumInv == WorthInv /\ ReportInv

LEMMA SumInit == Init => SumInv
<1> SUFFICES ASSUME Init PROVE SumInv
  OBVIOUS
<1>1. /\ call = [t \in Threads |-> Quiet] /\ totals = [count |-> 0, bytes |-> 0]
      /\ records = [i \in 0..(Slots - 1) |-> NoRecord]
  BY DEF Init
<1>2. TypeOK
  BY InvInit DEF Inv
<1>3. \A t \in Threads : call[t].step = "none"
  BY <1>1 DEF Quiet
<1>4. DOMAIN Owed = {} /\ Writers = {}
  BY <1>3 DEF Owed, Owing, Writers, At
<1>5. DOMAIN Stored = 0..(Slots - 1) /\ \A i \in DOMAIN Stored : Stored[i] = 0
  BY <1>1 DEF Stored, NoRecord
<1>6. Units(Stored) = {}
  <2>1. \A i \in DOMAIN Stored : \A n \in 1..Stored[i] : FALSE
    BY <1>5
  <2>2. \A x : x \notin Units(Stored)
    BY <2>1, UnitsOf
  <2> QED
    BY <2>2
<1>7. Total(Stored) = 0 /\ Total(Owed) = 0 /\ totals.bytes = 0
  BY <1>1, <1>4, <1>6, NothingToCount, FS_EmptySet DEF Total
<1> QED
  BY <1>4, <1>7, ReportInit DEF SumInv, WorthInv

LEMMA SumNext == Inv /\ Inv' /\ SumInv /\ [Next]_vars => SumInv'
<1> SUFFICES ASSUME Inv, Inv', SumInv, [Next]_vars PROVE SumInv'
  OBVIOUS
<1> USE DEF SumInv
<1>1. CASE Install \/ UNCHANGED vars
  <2>1. UNCHANGED <<call, records, totals, report>>
    BY <1>1 DEF Install, TryNext, Find, Unprotect, PatchFirst, PatchSecond, watchRest, vars
  <2> QED
    BY <2>1, WorthStays, ReportStays
<1>2. CASE Report
  <2>1. UNCHANGED <<call, records, totals>>
    BY <1>2 DEF Report, StartReport, SkipRecord, AttributeRecord, TallyRecord, reportRest
  <2>2. ReportInv'
    BY <1>2, StartReportKeeps, SkipRecordKeeps, AttributeRecordKeeps, TallyRecordKeeps DEF Report
  <2> QED
    BY <2>1, <2>2, WorthStays
<1>3. CASE \E t \in Threads : ThreadNext(t)
  <2>1. PICK t \in Threads : ThreadNext(t)
    BY <1>3
  <2>2. UNCHANGED report
    BY <2>1 DEF ThreadNext, Reserve, Note, Claim, Write, Unwind, Cap, CountDropped, detourRest
  <2>3. WorthInv' /\ Grow
    BY <2>1, ReserveWorth, NoteWorth, ClaimWorth, WriteWorth, UnwindWorth, LeaveWorth DEF ThreadNext
  <2> QED
    BY <2>2, <2>3, ReportStays
<1> QED
  BY <1>1, <1>2, <1>3 DEF Next

LEMMA AddsUp == Inv /\ SumInv => ReportAddsUp
<1> SUFFICES ASSUME Inv, SumInv PROVE ReportAddsUp
  OBVIOUS
<1>1. /\ report.at \in Nat /\ report.count \in Nat /\ report.bytes \in Nat /\ report \in Reports /\ Slots \in Nat
      /\ report.rows \in Seq(Rows) /\ report.half \in BOOLEAN
  BY ReportTyped, WorthTyped DEF SumInv, ReportInv, Inv
<1>2. report.at <= Slots
  BY <1>1 DEF SumInv, ReportInv
<1>3. Total(Read) <= Total(Stored) /\ Total(Read) \in Nat /\ Total(Stored) \in Nat
  <2>1. Tallied(Read) /\ DOMAIN Read = 0..(report.at - 1)
        /\ \A i \in 0..(report.at - 1) : i \in 0..(Slots - 1) /\ Read[i] = records[i].size
    BY <1>1, <1>2, ReadTyped DEF Inv
  <2>2. Tallied(Stored) /\ DOMAIN records = 0..(Slots - 1) /\ \A i \in 0..(Slots - 1) : records[i].size \in Nat
    BY WorthTyped DEF Inv
  <2>3. \A i \in DOMAIN Read : i \in DOMAIN Stored /\ Read[i] <= Stored[i]
    BY <2>1, <2>2 DEF Stored
  <2> QED
    BY <2>1, <2>2, <2>3, NoLess
<1>4. report.bytes <= totals.bytes
  <2>1. Total(Owed) \in Nat /\ totals.bytes \in Nat
    BY WorthTyped DEF Inv
  <2> QED
    BY <1>1, <1>3, <2>1 DEF SumInv, WorthInv, ReportInv
<1>5. report.half \/ Total(Bytes(report.rows)) <= report.bytes
  <2>1. CASE ~report.half
    BY <1>1, <2>1 DEF SumInv, ReportInv, Ahead
  <2> QED
    BY <1>1, <2>1
<1> QED
  BY <1>4, <1>5 DEF SumInv, ReportInv, Distinct, ReportAddsUp

(* A report that races the detours adds up: each record it counts is in    *)
(* one module's row or counted as missed, and it never shows more bytes    *)
(* than were ever counted, whatever the other threads store while it reads *)
(* (report_alloc_records).                                                 *)
THEOREM ReportsAddUp == Spec => []ReportAddsUp
<1>1. Spec => []SumInv
  BY Invariance, SumInit, SumNext, PTL DEF Spec
<1> QED
  BY <1>1, Invariance, AddsUp, PTL

-----------------------------------------------------------------------------
(* AddressWalk                                                             *)

LEMMA LargestIs ==
  ASSUME NEW n \in Nat, NEW S, S \subseteq 0..n
  PROVE  /\ Largest(S) \in Nat /\ \A x \in S : x <= Largest(S)
         /\ S # {} => Largest(S) \in S
         /\ S = {} => Largest(S) = 0
<1>1. CASE S = {}
  BY <1>1 DEF Largest
<1>2. CASE S # {}
  <2> DEFINE Bounds == {u \in Nat : \A y \in S : y <= u}
  <2>1. n \in Bounds /\ Bounds \subseteq Nat
    OBVIOUS
  <2>2. PICK u \in Bounds : \A v \in Bounds : u <= v
    BY <2>1, LeastNumber
  <2>3. u \in S
    <3> SUFFICES ASSUME u \notin S PROVE FALSE
      OBVIOUS
    <3>1. u \in Nat /\ \A y \in S : y \in Nat /\ y <= u /\ y # u
      BY <2>2
    <3>2. PICK y \in S : TRUE
      BY <1>2
    <3>3. u - 1 \in Nat /\ \A z \in S : z <= u - 1
      BY <3>1, <3>2
    <3>4. u - 1 \in Bounds /\ ~(u <= u - 1)
      BY <3>1, <3>3
    <3> QED
      BY <2>2, <3>4
  <2>4. \A y \in S : u >= y
    BY <2>2
  <2> HIDE DEF Bounds
  <2>5. Max(S) \in S /\ \A y \in S : Max(S) >= y
    BY <2>3, <2>4 DEF Max
  <2>6. Largest(S) = Max(S)
    BY <1>2 DEF Largest
  <2>7. Max(S) \in 0..n /\ \A y \in S : y \in 0..n /\ y <= Max(S)
    BY <2>5
  <2> QED
    BY <1>2, <2>5, <2>6, <2>7
<1> QED
  BY <1>1, <1>2

LEMMA HolesWithin ==
  ASSUME NEW pages
  PROVE  /\ Holes(pages) \subseteq 0..Pages /\ Pages \in Nat
         /\ Largest(Holes(pages)) \in Nat
         /\ \A r \in Stretches(pages) : /\ r[1] \in Nat /\ r[2] \in Nat /\ r[1] <= r[2] /\ r[2] < Pages
                                        /\ r[2] + 1 - r[1] <= Largest(Holes(pages))
         /\ \A x \in Nat : (\A r \in Stretches(pages) : r[2] + 1 - r[1] <= x) => Largest(Holes(pages)) <= x
<1>1. Pages \in Nat
  BY AddressAssumption
<1>2. \A r \in Stretches(pages) : r[1] \in Nat /\ r[2] \in Nat /\ r[1] <= r[2] /\ r[2] < Pages
  BY <1>1 DEF Stretches, Addresses
<1>3. Holes(pages) \subseteq 0..Pages
  BY <1>1, <1>2 DEF Holes
<1>4. \A r \in Stretches(pages) : r[2] + 1 - r[1] \in Holes(pages)
  BY DEF Holes
<1>5. /\ Largest(Holes(pages)) \in Nat /\ \A x \in Holes(pages) : x <= Largest(Holes(pages))
      /\ Holes(pages) # {} => Largest(Holes(pages)) \in Holes(pages)
      /\ Holes(pages) = {} => Largest(Holes(pages)) = 0
  BY <1>1, <1>3, LargestIs
<1>6. ASSUME NEW x \in Nat, \A r \in Stretches(pages) : r[2] + 1 - r[1] <= x
      PROVE  Largest(Holes(pages)) <= x
  <2>1. \A h \in Holes(pages) : h <= x
    BY <1>6 DEF Holes
  <2> QED
    BY <1>5, <2>1
<1> QED
  BY <1>1, <1>2, <1>3, <1>4, <1>5, <1>6

(* What VirtualQuery tells of a page.                                      *)
LEMMA RegionIs ==
  ASSUME NEW c \in Addresses, NEW r, r = RegionAt(c)
  PROVE  /\ r.base = c /\ r.size \in Nat /\ r.size > 0 /\ c + r.size <= Pages /\ r.state = memory[c]
         /\ \A p \in c..(c + r.size - 1) : memory[p] = memory[c]
         /\ c + r.size < Pages => memory[c + r.size] # memory[c]
<1> DEFINE like == {p \in c .. Pages - 1 : \A q \in c .. p : memory[q] = memory[c]}
           end  == Largest(like)
<1>1. Pages \in Nat /\ c \in Nat /\ c < Pages
  BY AddressAssumption DEF Addresses
<1>2. c \in like /\ like \subseteq 0..Pages
  BY <1>1
<1> HIDE DEF like
<1>3. end \in like /\ end \in Nat /\ \A p \in like : p <= end
  BY <1>1, <1>2, LargestIs
<1>4. end \in c..(Pages - 1) /\ \A q \in c..end : memory[q] = memory[c]
  BY <1>3 DEF like
<1>5. end + 1 < Pages => memory[end + 1] # memory[c]
  <2> SUFFICES ASSUME end + 1 < Pages, memory[end + 1] = memory[c] PROVE FALSE
    OBVIOUS
  <2>1. \A q \in c..(end + 1) : q \in c..end \/ q = end + 1
    BY <1>1, <1>3, <1>4
  <2>2. end + 1 \in like
    BY <1>1, <1>3, <1>4, <2>1 DEF like
  <2> QED
    BY <1>3, <2>2
<1>6. r = [base |-> c, size |-> end + 1 - c, state |-> memory[c]]
  BY DEF RegionAt, like
<1> HIDE DEF end
<1>7. r.size = end + 1 - c /\ c + r.size = end + 1 /\ r.base = c /\ r.state = memory[c]
  BY <1>1, <1>3, <1>6
<1> QED
  BY <1>1, <1>3, <1>4, <1>5, <1>7

-----------------------------------------------------------------------------
StatFields == DOMAIN NoStats

(* A walk, over any memory.                                                *)
ScanTyped(w) ==
  /\ w.cursor \in Nat /\ w.cursor <= Pages
  /\ DOMAIN w.stats = StatFields
  /\ w.stats.largestFree \in Nat /\ w.stats.largestBelow \in Nat
  /\ w.standing \subseteq Addresses
  /\ w.widest \in Nat

(* While it goes over memory m: whatever has stood since it began, and was *)
(* passed, was reported; no page that stood is told of in two pieces; and  *)
(* what was reported existed.                                              *)
WalkInv(w, m) ==
  /\ w.standing \subseteq FreeIn(m)
  /\ \A r \in Stretches(w.standing) : r[2] < w.cursor =>
       /\ r[2] + 1 - r[1] <= w.stats.largestFree
       /\ r[2] < Line => r[2] + 1 - r[1] <= w.stats.largestBelow
  /\ w.cursor \in w.standing => w.cursor - 1 \notin w.standing
  /\ \A r \in Stretches(FreeIn(m)) : r[2] + 1 - r[1] <= w.widest
  /\ w.stats.largestFree <= w.widest
  /\ w.stats.largestBelow <= w.stats.largestFree /\ w.stats.largestBelow <= Line
  /\ LargeAddressAware \/ w.stats.largestBelow = w.stats.largestFree

(* Two figures of one walk, and what can be said of any figure.            *)
Sound(f) == f.size \in Nat /\ f.held \in Nat /\ f.widest \in Nat /\ Honest(f)
Paired(f, g) ==
  /\ Sound(f) /\ Sound(g) /\ g.size <= Line /\ g.size <= f.size
  /\ LargeAddressAware \/ g.size = f.size

ScansInv ==
  \A s \in Samplers :
    /\ ScanTyped(scan[s])
    /\ stage[s] = "walk" => scan[s].cursor < Pages /\ WalkInv(scan[s], memory)
    /\ stage[s] \in {"snapshot", "anywhere", "below"} => Paired(Anywhere(scan[s]), Below(scan[s]))

FiguresHonest ==
  /\ Sound(published.anywhere) /\ Sound(published.below) /\ published.below.size <= Line
  /\ Sound(loaded)
  /\ Paired(snapshot.anywhere, snapshot.below)

AddressTypes ==
  /\ memory \in [Addresses -> States]
  /\ stage \in [Samplers -> Stages] /\ DOMAIN scan = Samplers

HeadInv == AddressTypes /\ ScansInv /\ FiguresHonest

LEMMA Fewer ==
  ASSUME NEW A, NEW B, A \subseteq B
  PROVE  Stretches(A) \subseteq Stretches(B)
BY DEF Stretches

LEMMA NothingYet ==
  /\ DOMAIN NoStats = StatFields /\ NoStats.largestFree = 0 /\ NoStats.largestBelow = 0
BY DEF NoStats, StatFields

LEMMA Constants ==
  /\ Pages \in Nat /\ Pages > 0 /\ Line \in Nat /\ LargeAddressAware \in BOOLEAN
  /\ ~LargeAddressAware => Pages <= Line
BY AddressAssumption

LEMMA NothingIsSound == Sound(Unknown) /\ Paired(Unknown, Unknown)
BY Constants DEF Sound, Paired, Unknown, Honest

LEMMA NoScanTyped == ScanTyped(NoScan)
BY Constants, NothingYet DEF ScanTyped, NoScan

LEMMA HeadInit == AddressInit => HeadInv
<1> SUFFICES ASSUME AddressInit PROVE HeadInv
  OBVIOUS
<1>1. AddressTypes
  BY DEF AddressInit, AddressTypes, Stages
<1>2. \A s \in Samplers : stage[s] = "idle" /\ scan[s] = NoScan
  BY DEF AddressInit
<1>3. ScansInv
  BY <1>2, NoScanTyped DEF ScansInv
<1>4. FiguresHonest
  BY NothingIsSound, Constants DEF AddressInit, FiguresHonest, Unknown
<1> QED
  BY <1>1, <1>3, <1>4 DEF HeadInv

(* A walk that begins.                                                     *)
LEMMA FreshKeeps == ScanTyped(FreshScan) /\ FreshScan.cursor < Pages /\ WalkInv(FreshScan, memory)
<1> DEFINE w == FreshScan
<1>1. /\ w.cursor = 0 /\ w.stats = NoStats /\ w.standing = FreeIn(memory)
      /\ w.widest = Largest(Holes(FreeIn(memory)))
  BY DEF FreshScan
<1> HIDE DEF w
<1>2. FreeIn(memory) \subseteq Addresses
  BY DEF FreeIn
<1>3. ScanTyped(w)
  BY <1>1, <1>2, Constants, NothingYet, HolesWithin DEF ScanTyped
<1>4. \A r \in Stretches(w.standing) : ~(r[2] < w.cursor)
  BY <1>1, HolesWithin
<1>5. w.cursor - 1 \notin w.standing
  BY <1>1, <1>2, Constants DEF Addresses
<1>6. \A r \in Stretches(FreeIn(memory)) : r[2] + 1 - r[1] <= w.widest
  BY <1>1, HolesWithin
<1>7. w.stats.largestFree = 0 /\ w.stats.largestBelow = 0 /\ w.widest \in Nat
  BY <1>1, <1>3, NothingYet DEF ScanTyped
<1>8. WalkInv(w, memory)
  BY <1>1, <1>4, <1>5, <1>6, <1>7, Constants DEF WalkInv
<1>9. w.cursor < Pages
  BY <1>1, Constants
<1> QED
  BY <1>3, <1>8, <1>9 DEF w

(* A walk under way, as the memory changes.                                *)
LEMMA WitnessKeeps ==
  ASSUME NEW w, NEW m, NEW n, ScanTyped(w), WalkInv(w, m),
         NEW v, v = [cursor |-> w.cursor, stats |-> w.stats, queried |-> w.queried,
                     standing |-> w.standing \cap FreeIn(n), widest |-> Largest({w.widest} \cup Holes(FreeIn(n)))]
  PROVE  ScanTyped(v) /\ v.cursor = w.cursor /\ WalkInv(v, n)
<1>1. /\ v.cursor = w.cursor /\ v.stats = w.stats /\ v.standing = w.standing \cap FreeIn(n)
      /\ v.widest = Largest({w.widest} \cup Holes(FreeIn(n)))
  OBVIOUS
<1> DEFINE sizes == {w.widest} \cup Holes(FreeIn(n))
<1>2. /\ v.widest \in Nat /\ w.widest <= v.widest
      /\ \A r \in Stretches(FreeIn(n)) : r[2] + 1 - r[1] <= v.widest
  <2>1. w.widest \in Nat
    BY DEF ScanTyped
  <2>2. PICK k \in Nat : k >= w.widest /\ k >= Pages
    BY <2>1, Constants
  <2>3. Holes(FreeIn(n)) \subseteq 0..Pages
    BY HolesWithin
  <2>4. sizes \subseteq 0..k
    BY <2>1, <2>2, <2>3, Constants
  <2>5. v.widest = Largest(sizes)
    BY <1>1
  <2>6. w.widest \in sizes /\ \A r \in Stretches(FreeIn(n)) : r[2] + 1 - r[1] \in sizes
    BY DEF Holes
  <2> HIDE DEF sizes
  <2> QED
    BY <2>2, <2>4, <2>5, <2>6, LargestIs
<1>3. Stretches(v.standing) \subseteq Stretches(w.standing) /\ v.standing \subseteq w.standing /\ v.standing \subseteq FreeIn(n)
  BY <1>1, Fewer
<1>4. ScanTyped(v)
  BY <1>1, <1>2, <1>3 DEF ScanTyped
<1>5. v.stats.largestFree <= v.widest
  BY <1>1, <1>2 DEF WalkInv, ScanTyped
<1>6. WalkInv(v, n)
  BY <1>1, <1>2, <1>3, <1>5 DEF WalkInv
<1> QED
  BY <1>1, <1>4, <1>6

LEMMA ChangeKeeps ==
  ASSUME HeadInv, NEW first \in Addresses, NEW last \in Addresses, NEW state \in States, Change(first, last, state)
  PROVE  HeadInv'
<1> USE DEF HeadInv
<1>1. /\ memory' = [p \in Addresses |-> IF p \in first .. last THEN state ELSE memory[p]]
      /\ scan' = [s \in Samplers |-> IF stage[s] = "walk" THEN Witnessed(scan[s]) ELSE scan[s]]
      /\ UNCHANGED <<stage, snapshot, published, loaded>>
  BY DEF Change
<1>2. AddressTypes'
  BY <1>1 DEF AddressTypes
<1>3. ASSUME NEW s \in Samplers
      PROVE  /\ ScanTyped(scan'[s])
             /\ stage[s] = "walk" => scan'[s].cursor < Pages /\ WalkInv(scan'[s], memory')
             /\ stage[s] \in {"snapshot", "anywhere", "below"} => Paired(Anywhere(scan'[s]), Below(scan'[s]))
  <2>1. /\ ScanTyped(scan[s])
        /\ stage[s] = "walk" => scan[s].cursor < Pages /\ WalkInv(scan[s], memory)
        /\ stage[s] \in {"snapshot", "anywhere", "below"} => Paired(Anywhere(scan[s]), Below(scan[s]))
    BY DEF ScansInv
  <2>2. CASE stage[s] = "walk"
    <3>1. scan'[s] = [cursor |-> scan[s].cursor, stats |-> scan[s].stats, queried |-> scan[s].queried,
                      standing |-> scan[s].standing \cap FreeIn(memory'),
                      widest |-> Largest({scan[s].widest} \cup Holes(FreeIn(memory')))]
      BY <1>1, <2>2 DEF Witnessed
    <3>2. ScanTyped(scan'[s]) /\ scan'[s].cursor = scan[s].cursor /\ WalkInv(scan'[s], memory')
      BY <2>1, <2>2, <3>1, WitnessKeeps
    <3> QED
      BY <2>1, <2>2, <3>2
  <2>3. CASE stage[s] # "walk"
    BY <1>1, <2>1, <2>3
  <2> QED
    BY <2>2, <2>3
<1>4. ScansInv'
  BY <1>1, <1>3 DEF ScansInv
<1>5. FiguresHonest'
  BY <1>1 DEF FiguresHonest
<1> QED
  BY <1>2, <1>4, <1>5

LEMMA Bigger ==
  ASSUME NEW a \in Nat, NEW b \in Nat
  PROVE  /\ Largest({a, b}) \in Nat /\ a <= Largest({a, b}) /\ b <= Largest({a, b})
         /\ Largest({a, b}) \in {a, b}
<1>1. PICK n \in Nat : n >= a /\ n >= b
  OBVIOUS
<1>2. {a, b} \subseteq 0..n
  BY <1>1
<1> QED
  BY <1>2, LargestIs

(* What a region adds to the figures.                                      *)
LEMMA TallyIs ==
  ASSUME NEW stats, DOMAIN stats = StatFields, stats.largestFree \in Nat, stats.largestBelow \in Nat,
         NEW r, r.state \in States, NEW new, new = TallyRegion(stats, r)
  PROVE  /\ DOMAIN new = StatFields
         /\ r.state = "free" => /\ new.largestFree = Largest({stats.largestFree, r.size})
                                /\ new.largestBelow = Largest({stats.largestBelow, UsableBelow(r.base, r.size)})
         /\ r.state # "free" => new.largestFree = stats.largestFree /\ new.largestBelow = stats.largestBelow
<1>1. StatFields = {"largestFree", "largestBelow", "totalFree", "totalBelow", "reserved", "committed",
                    "freeRegions", "buckets", "ranked"}
  BY DEF StatFields, NoStats
<1>2. CASE r.state = "free"
  <2>1. new = TallyFree(stats, r)
    BY <1>2 DEF TallyRegion
  <2> QED
    BY <1>1, <1>2, <2>1 DEF TallyFree
<1>3. CASE r.state = "reserved"
  <2>1. new = [stats EXCEPT !.reserved = @ + r.size]
    BY <1>3 DEF TallyRegion
  <2> QED
    BY <1>1, <1>3, <2>1
<1>4. CASE r.state = "committed"
  <2>1. new = [stats EXCEPT !.committed = @ + r.size, !.ranked = Rank(@, r.size)]
    BY <1>4 DEF TallyRegion
  <2> QED
    BY <1>1, <1>4, <2>1
<1> QED
  BY <1>2, <1>3, <1>4 DEF States

LEMMA UsableIs ==
  ASSUME NEW base \in Nat, NEW size \in Nat
  PROVE  /\ UsableBelow(base, size) \in Nat /\ UsableBelow(base, size) <= size /\ UsableBelow(base, size) <= Line
         /\ \A n \in Nat : base + n <= Line /\ n <= size => n <= UsableBelow(base, size)
         /\ base + size <= Line => UsableBelow(base, size) = size
<1>1. Line \in Nat
  BY Constants
<1>2. CASE base >= Line
  BY <1>1, <1>2 DEF UsableBelow
<1>3. CASE ~(base >= Line)
  BY <1>1, <1>3 DEF UsableBelow
<1> QED
  BY <1>2, <1>3

(* A query of a walk under way.                                            *)
LEMMA AskedKeeps ==
  ASSUME NEW w, ScanTyped(w), WalkInv(w, memory), w.cursor < Pages, memory \in [Addresses -> States],
         NEW r, r = RegionAt(w.cursor), NEW v, v = Asked(w, r)
  PROVE  ~Stalled(w, r) /\ v.cursor = r.base + r.size /\ ScanTyped(v) /\ WalkInv(v, memory)
<1> DEFINE c == w.cursor
<1>1. v.stats = TallyRegion(w.stats, r) /\ v.standing = w.standing /\ v.widest = w.widest
      /\ v.cursor = IF Stalled(w, r) THEN w.cursor ELSE r.base + r.size
  BY DEF Asked
<1>2. c \in Addresses /\ c \in Nat
  BY Constants DEF Addresses, ScanTyped
<1>3. /\ r.base = c /\ r.size \in Nat /\ r.size > 0 /\ c + r.size <= Pages /\ r.state = memory[c]
      /\ \A p \in c..(c + r.size - 1) : memory[p] = memory[c]
      /\ c + r.size < Pages => memory[c + r.size] # memory[c]
  BY <1>2, RegionIs
<1>4. v.cursor = c + r.size /\ ~Stalled(w, r)
  <2>1. ~Stalled(w, r)
    BY <1>2, <1>3 DEF Stalled
  <2> QED
    BY <1>1, <1>3, <2>1
<1> DEFINE usable == UsableBelow(r.base, r.size)
<1>5. r.state \in States
  BY <1>2, <1>3 DEF ScanTyped
<1>6. /\ DOMAIN v.stats = StatFields
      /\ r.state = "free" => /\ v.stats.largestFree = Largest({w.stats.largestFree, r.size})
                             /\ v.stats.largestBelow = Largest({w.stats.largestBelow, usable})
      /\ r.state # "free" => v.stats.largestFree = w.stats.largestFree /\ v.stats.largestBelow = w.stats.largestBelow
  BY <1>1, <1>5, TallyIs DEF ScanTyped
<1>7. /\ usable \in Nat /\ usable <= r.size /\ usable <= Line
      /\ \A n \in Nat : c + n <= Line /\ n <= r.size => n <= usable
      /\ c + r.size <= Line => usable = r.size
  BY <1>2, <1>3, UsableIs
<1> HIDE DEF usable
<1>8. w.stats.largestFree \in Nat /\ w.stats.largestBelow \in Nat /\ w.widest \in Nat /\ w.standing \subseteq FreeIn(memory)
  BY DEF ScanTyped, WalkInv
<1>9. /\ v.stats.largestFree \in Nat /\ v.stats.largestBelow \in Nat
      /\ w.stats.largestFree <= v.stats.largestFree /\ w.stats.largestBelow <= v.stats.largestBelow
      /\ r.state = "free" => r.size <= v.stats.largestFree /\ usable <= v.stats.largestBelow
      /\ v.stats.largestFree = w.stats.largestFree \/ (r.state = "free" /\ v.stats.largestFree = r.size)
      /\ v.stats.largestBelow = w.stats.largestBelow \/ (r.state = "free" /\ v.stats.largestBelow = usable)
  <2>1. CASE r.state = "free"
    <3>1. /\ Largest({w.stats.largestFree, r.size}) \in Nat /\ w.stats.largestFree <= Largest({w.stats.largestFree, r.size})
          /\ r.size <= Largest({w.stats.largestFree, r.size})
          /\ Largest({w.stats.largestFree, r.size}) \in {w.stats.largestFree, r.size}
      BY <1>3, <1>8, Bigger
    <3>2. /\ Largest({w.stats.largestBelow, usable}) \in Nat /\ w.stats.largestBelow <= Largest({w.stats.largestBelow, usable})
          /\ usable <= Largest({w.stats.largestBelow, usable})
          /\ Largest({w.stats.largestBelow, usable}) \in {w.stats.largestBelow, usable}
      BY <1>7, <1>8, Bigger
    <3> QED
      BY <1>6, <2>1, <3>1, <3>2
  <2>2. CASE r.state # "free"
    BY <1>6, <1>8, <2>2
  <2> QED
    BY <2>1, <2>2
<1>10. ScanTyped(v)
  BY <1>1, <1>2, <1>3, <1>4, <1>6, <1>8, <1>9 DEF ScanTyped
<1>11. ASSUME NEW s \in Stretches(w.standing), s[2] < c + r.size
       PROVE  /\ s[2] + 1 - s[1] <= v.stats.largestFree
              /\ s[2] < Line => s[2] + 1 - s[1] <= v.stats.largestBelow
  <2>1. s[1] \in Nat /\ s[2] \in Nat /\ s[1] <= s[2] /\ s[2] < Pages /\ s[1]..s[2] \subseteq w.standing
    BY HolesWithin DEF Stretches
  <2>2. CASE s[2] < c
    BY <1>8, <1>9, <2>1, <2>2, Constants DEF WalkInv
  <2>3. CASE s[2] >= c
    <3>1. s[1] >= c
      <4> SUFFICES ASSUME s[1] < c PROVE FALSE
        BY <1>2, <2>1
      <4>1. c \in s[1]..s[2] /\ c - 1 \in s[1]..s[2]
        BY <1>2, <2>1, <2>3
      <4> QED
        BY <2>1, <4>1 DEF WalkInv
    <3>2. s[1] \in w.standing /\ s[1] \in c..(c + r.size - 1)
      BY <1>2, <1>3, <1>11, <2>1, <3>1
    <3>3. r.state = "free"
      BY <1>3, <1>8, <3>2 DEF FreeIn
    <3>4. s[2] + 1 - s[1] <= r.size /\ s[2] + 1 - s[1] \in Nat
      BY <1>2, <1>3, <1>11, <2>1, <3>1
    <3>5. s[2] + 1 - s[1] <= v.stats.largestFree
      BY <1>3, <1>9, <3>3, <3>4
    <3>6. ASSUME s[2] < Line PROVE s[2] + 1 - s[1] <= v.stats.largestBelow
      <4>1. c + (s[2] + 1 - s[1]) <= Line
        BY <1>2, <2>1, <3>1, <3>6, Constants
      <4>2. s[2] + 1 - s[1] <= usable
        BY <1>7, <3>4, <4>1
      <4> QED
        BY <1>7, <1>9, <3>3, <3>4, <4>2
    <3> QED
      BY <3>5, <3>6
  <2> QED
    BY <1>2, <2>1, <2>2, <2>3
<1>12. v.cursor \in w.standing => v.cursor - 1 \notin w.standing
  <2> DEFINE end == c + r.size
  <2>1. end \in Nat /\ end <= Pages /\ end - 1 \in c..(end - 1)
    BY <1>2, <1>3
  <2>2. \A p \in c..(end - 1) : memory[p] = memory[c]
    BY <1>2, <1>3, <2>1
  <2>3. end < Pages => memory[end] # memory[c]
    BY <1>3
  <2>4. v.cursor = end
    BY <1>4
  <2> HIDE DEF end
  <2>5. memory[end - 1] = memory[c]
    BY <2>1, <2>2
  <2> SUFFICES ASSUME end \in w.standing, end - 1 \in w.standing PROVE FALSE
    BY <2>4
  <2>6. end \in Addresses /\ memory[end] = "free" /\ memory[end - 1] = "free"
    BY <1>8 DEF FreeIn
  <2>7. end < Pages
    BY <2>1, <2>6, Constants DEF Addresses
  <2> QED
    BY <2>3, <2>5, <2>6, <2>7
<1>13. r.state = "free" => r.size <= w.widest
  <2> SUFFICES ASSUME r.state = "free" PROVE r.size <= w.widest
    OBVIOUS
  <2> DEFINE s == <<c, c + r.size - 1>>
  <2>1. c..(c + r.size - 1) \subseteq FreeIn(memory)
    BY <1>2, <1>3, Constants DEF FreeIn, Addresses
  <2>2. s \in Addresses \X Addresses /\ s[1] = c /\ s[2] = c + r.size - 1 /\ c <= c + r.size - 1
    BY <1>2, <1>3, Constants DEF Addresses
  <2>3. s \in Stretches(FreeIn(memory))
    BY <2>1, <2>2 DEF Stretches
  <2>4. s[2] + 1 - s[1] <= w.widest
    BY <2>3 DEF WalkInv
  <2> HIDE DEF s
  <2>5. s[2] + 1 - s[1] = r.size
    BY <1>2, <1>3, <2>2
  <2> QED
    BY <2>4, <2>5
<1>14. v.stats.largestFree <= v.widest
  BY <1>1, <1>9, <1>13 DEF WalkInv
<1>15. v.stats.largestBelow <= v.stats.largestFree /\ v.stats.largestBelow <= Line
  <2>1. w.stats.largestBelow <= w.stats.largestFree /\ w.stats.largestBelow <= Line
    BY DEF WalkInv
  <2> QED
    BY <1>3, <1>7, <1>8, <1>9, <2>1, Constants
<1>16. LargeAddressAware \/ v.stats.largestBelow = v.stats.largestFree
  <2> SUFFICES ASSUME ~LargeAddressAware PROVE v.stats.largestBelow = v.stats.largestFree
    OBVIOUS
  <2>1. w.stats.largestBelow = w.stats.largestFree /\ usable = r.size
    BY <1>2, <1>3, <1>7, Constants DEF WalkInv
  <2> QED
    BY <1>6, <2>1
<1>17. WalkInv(v, memory)
  <2>1. \A s \in Stretches(v.standing) : s[2] < v.cursor =>
          /\ s[2] + 1 - s[1] <= v.stats.largestFree
          /\ s[2] < Line => s[2] + 1 - s[1] <= v.stats.largestBelow
    BY <1>1, <1>4, <1>11
  <2>2. v.cursor \in v.standing => v.cursor - 1 \notin v.standing
    BY <1>1, <1>12
  <2>3. \A s \in Stretches(FreeIn(memory)) : s[2] + 1 - s[1] <= v.widest
    BY <1>1 DEF WalkInv
  <2>4. v.standing \subseteq FreeIn(memory)
    BY <1>1 DEF WalkInv
  <2> QED
    BY <1>14, <1>15, <1>16, <2>1, <2>2, <2>3, <2>4 DEF WalkInv
<1> QED
  BY <1>3, <1>4, <1>10, <1>17

(* A walk that ends, wherever it ends.                                     *)
LEMMA WalkedIsHonest ==
  ASSUME NEW w, NEW m, ScanTyped(w), WalkInv(w, m)
  PROVE  Paired(Anywhere(w), Below(w))
<1>1. /\ w.stats.largestFree \in Nat /\ w.stats.largestBelow \in Nat /\ w.widest \in Nat
      /\ w.stats.largestFree <= w.widest
      /\ w.stats.largestBelow <= w.stats.largestFree /\ w.stats.largestBelow <= Line
      /\ LargeAddressAware \/ w.stats.largestBelow = w.stats.largestFree
  BY DEF ScanTyped, WalkInv
<1> DEFINE all == Passed(w)
           low == {p \in Passed(w) : p < Line}
<1>2. all \subseteq w.standing /\ low \subseteq w.standing /\ \A p \in all : p < w.cursor
  BY DEF Passed
<1>3. \A p \in low : p < w.cursor /\ p < Line
  BY <1>2
<1> HIDE DEF all, low
<1>4. \A r \in Stretches(all) : r \in Stretches(w.standing) /\ r[2] < w.cursor
  <2> TAKE r \in Stretches(all)
  <2>1. r \in Stretches(w.standing)
    BY <1>2, Fewer
  <2>2. r[1] \in Nat /\ r[2] \in Nat /\ r[1] <= r[2]
    BY HolesWithin
  <2>3. r[2] \in all
    BY <2>2 DEF Stretches
  <2> QED
    BY <1>2, <2>1, <2>3
<1>5. \A r \in Stretches(low) : r \in Stretches(w.standing) /\ r[2] < w.cursor /\ r[2] < Line
  <2> TAKE r \in Stretches(low)
  <2>1. r \in Stretches(w.standing)
    BY <1>2, Fewer
  <2>2. r[1] \in Nat /\ r[2] \in Nat /\ r[1] <= r[2]
    BY HolesWithin
  <2>3. r[2] \in low
    BY <2>2 DEF Stretches
  <2> QED
    BY <1>3, <2>1, <2>3
<1>6. \A r \in Stretches(all) : r[2] + 1 - r[1] <= w.stats.largestFree
  BY <1>4 DEF WalkInv
<1>7. \A r \in Stretches(low) : r[2] + 1 - r[1] <= w.stats.largestBelow
  BY <1>5 DEF WalkInv
<1>8. Largest(Holes(all)) <= w.stats.largestFree /\ Largest(Holes(all)) \in Nat
  BY <1>1, <1>6, HolesWithin
<1>9. Largest(Holes(low)) <= w.stats.largestBelow /\ Largest(Holes(low)) \in Nat
  BY <1>1, <1>7, HolesWithin
<1> DEFINE f == Anywhere(w)
           g == Below(w)
<1>10. f.size = w.stats.largestFree /\ f.held = Largest(Holes(all)) /\ f.widest = w.widest
  BY DEF Anywhere, all
<1>11. g.size = w.stats.largestBelow /\ g.held = Largest(Holes(low)) /\ g.widest = w.widest
  BY DEF Below, low
<1> HIDE DEF f, g
<1>12. Sound(f) /\ Sound(g)
  BY <1>1, <1>8, <1>9, <1>10, <1>11 DEF Sound, Honest
<1>13. Paired(f, g)
  BY <1>1, <1>10, <1>11, <1>12 DEF Paired
<1> QED
  BY <1>13 DEF f, g

(* A step of a thread in sample_now touches no walk but its own.           *)
LEMMA OneScan ==
  ASSUME AddressTypes, ScansInv, NEW s \in Samplers, NEW from \in Stages, NEW to \in Stages, Advance(s, from, to),
         NEW w, scan' = [scan EXCEPT ![s] = w] \/ (scan' = scan /\ w = scan[s]), memory' = memory,
         ScanTyped(w), to = "walk" => w.cursor < Pages /\ WalkInv(w, memory),
         to \in {"snapshot", "anywhere", "below"} => Paired(Anywhere(w), Below(w))
  PROVE  AddressTypes' /\ ScansInv'
<1>1. stage' = [stage EXCEPT ![s] = to] /\ stage \in [Samplers -> Stages] /\ DOMAIN scan = Samplers
  BY DEF Advance, AddressTypes
<1>2. AddressTypes'
  BY <1>1 DEF AddressTypes
<1>3. ASSUME NEW t \in Samplers
      PROVE  /\ ScanTyped(scan'[t])
             /\ stage'[t] = "walk" => scan'[t].cursor < Pages /\ WalkInv(scan'[t], memory')
             /\ stage'[t] \in {"snapshot", "anywhere", "below"} => Paired(Anywhere(scan'[t]), Below(scan'[t]))
  <2>1. CASE t = s
    <3>1. scan'[t] = w /\ stage'[t] = to
      BY <1>1, <2>1
    <3> QED
      BY <3>1
  <2>2. CASE t # s
    <3>1. scan'[t] = scan[t] /\ stage'[t] = stage[t]
      BY <1>1, <2>2
    <3>2. /\ ScanTyped(scan[t])
          /\ stage[t] = "walk" => scan[t].cursor < Pages /\ WalkInv(scan[t], memory)
          /\ stage[t] \in {"snapshot", "anywhere", "below"} => Paired(Anywhere(scan[t]), Below(scan[t]))
      BY DEF ScansInv
    <3> QED
      BY <3>1, <3>2
  <2> QED
    BY <2>1, <2>2
<1>4. ScansInv'
  BY <1>3 DEF ScansInv
<1> QED
  BY <1>2, <1>4

LEMMA SampleKeeps ==
  ASSUME HeadInv, NEW s \in Samplers, Sample(s)
  PROVE  HeadInv'
<1> USE DEF HeadInv
<1>1. /\ memory \in [Addresses -> States] /\ stage[s] \in Stages
      /\ ScanTyped(scan[s])
      /\ stage[s] = "walk" => scan[s].cursor < Pages /\ WalkInv(scan[s], memory)
      /\ stage[s] \in {"snapshot", "anywhere", "below"} => Paired(Anywhere(scan[s]), Below(scan[s]))
  BY DEF ScansInv, AddressTypes
<1>2. CASE Begin(s)
  <2>1. /\ Advance(s, "idle", "walk") /\ scan' = [scan EXCEPT ![s] = FreshScan] /\ memory' = memory
        /\ UNCHANGED <<snapshot, published, loaded>>
    BY <1>2 DEF Begin
  <2>2. FiguresHonest'
    BY <2>1 DEF FiguresHonest
  <2>3. ScanTyped(FreshScan) /\ FreshScan.cursor < Pages /\ WalkInv(FreshScan, memory)
    BY FreshKeeps
  <2>4. "idle" \in Stages /\ "walk" \in Stages /\ "walk" \notin {"snapshot", "anywhere", "below"}
    BY DEF Stages
  <2>5. AddressTypes' /\ ScansInv'
    BY <2>1, <2>3, <2>4, OneScan
  <2> QED
    BY <2>2, <2>5
<1>3. CASE Query(s)
  <2> DEFINE w    == scan[s]
             r    == RegionAt(w.cursor)
             v    == Asked(w, r)
             to   == IF Stalled(w, r) \/ r.base + r.size >= Pages THEN "snapshot" ELSE "walk"
  <2>1. /\ Advance(s, "walk", to) /\ scan' = [scan EXCEPT ![s] = v] /\ memory' = memory
        /\ UNCHANGED <<snapshot, published, loaded>>
    BY <1>3 DEF Query
  <2>2. w.cursor < Pages /\ WalkInv(w, memory) /\ ScanTyped(w)
    BY <1>1, <2>1 DEF Advance
  <2>3. ~Stalled(w, r) /\ v.cursor = r.base + r.size /\ ScanTyped(v) /\ WalkInv(v, memory)
    BY <1>1, <2>2, AskedKeeps
  <2>4. Paired(Anywhere(v), Below(v))
    BY <2>3, WalkedIsHonest
  <2>5. v.cursor \in Nat /\ Pages \in Nat
    BY <2>3, Constants DEF ScanTyped
  <2>6. to = "walk" => v.cursor < Pages
    BY <2>3, <2>5
  <2>7. "walk" \in Stages /\ to \in Stages
    BY DEF Stages
  <2>8. FiguresHonest'
    BY <2>1 DEF FiguresHonest
  <2> HIDE DEF w, r, v, to
  <2>9. AddressTypes' /\ ScansInv'
    BY <2>1, <2>3, <2>4, <2>6, <2>7, OneScan
  <2> QED
    BY <2>8, <2>9
<1>4. CASE QueryFails(s)
  <2>1. /\ Advance(s, "walk", "snapshot") /\ scan' = scan /\ memory' = memory
        /\ UNCHANGED <<snapshot, published, loaded>>
    BY <1>4 DEF QueryFails
  <2>2. FiguresHonest'
    BY <2>1 DEF FiguresHonest
  <2>3. Paired(Anywhere(scan[s]), Below(scan[s]))
    BY <1>1, <2>1, WalkedIsHonest DEF Advance
  <2>4. "walk" \in Stages /\ "snapshot" \in Stages /\ "snapshot" # "walk"
    BY DEF Stages
  <2>5. AddressTypes' /\ ScansInv'
    BY <1>1, <2>1, <2>3, <2>4, OneScan
  <2> QED
    BY <2>2, <2>5
<1>5. CASE StoreSnapshot(s)
  <2>1. /\ Advance(s, "snapshot", "anywhere") /\ scan' = scan /\ memory' = memory
        /\ UNCHANGED <<published, loaded>>
        /\ snapshot' = [anywhere |-> Anywhere(scan[s]), below |-> Below(scan[s])]
    BY <1>5 DEF StoreSnapshot
  <2>2. Paired(Anywhere(scan[s]), Below(scan[s]))
    BY <1>1, <2>1 DEF Advance
  <2>3. snapshot'.anywhere = Anywhere(scan[s]) /\ snapshot'.below = Below(scan[s])
    BY <2>1
  <2>4. FiguresHonest'
    BY <2>1, <2>2, <2>3 DEF FiguresHonest
  <2>5. "anywhere" \in Stages /\ "snapshot" \in Stages /\ "anywhere" # "walk"
    BY DEF Stages
  <2>6. AddressTypes' /\ ScansInv'
    BY <1>1, <2>1, <2>2, <2>5, OneScan
  <2> QED
    BY <2>4, <2>6
<1>6. CASE StoreAnywhere(s)
  <2>1. /\ Advance(s, "anywhere", "below") /\ scan' = scan /\ memory' = memory
        /\ UNCHANGED <<snapshot, loaded>>
        /\ published' = [anywhere |-> Anywhere(scan[s]), below |-> published.below]
    BY <1>6 DEF StoreAnywhere
  <2>2. Paired(Anywhere(scan[s]), Below(scan[s]))
    BY <1>1, <2>1 DEF Advance
  <2>3. published'.anywhere = Anywhere(scan[s]) /\ published'.below = published.below
    BY <2>1
  <2>4. FiguresHonest'
    BY <2>1, <2>2, <2>3 DEF FiguresHonest, Paired
  <2>5. "anywhere" \in Stages /\ "below" \in Stages /\ "below" # "walk"
    BY DEF Stages
  <2>6. AddressTypes' /\ ScansInv'
    BY <1>1, <2>1, <2>2, <2>5, OneScan
  <2> QED
    BY <2>4, <2>6
<1>7. CASE StoreBelow(s)
  <2>1. /\ Advance(s, "below", "idle") /\ scan' = [scan EXCEPT ![s] = NoScan] /\ memory' = memory
        /\ UNCHANGED <<snapshot, loaded>>
        /\ published' = [anywhere |-> published.anywhere, below |-> Below(scan[s])]
    BY <1>7 DEF StoreBelow
  <2>2. Paired(Anywhere(scan[s]), Below(scan[s]))
    BY <1>1, <2>1 DEF Advance
  <2>3. published'.anywhere = published.anywhere /\ published'.below = Below(scan[s])
    BY <2>1
  <2>4. FiguresHonest'
    BY <2>1, <2>2, <2>3 DEF FiguresHonest, Paired
  <2>5. "idle" \in Stages /\ "below" \in Stages /\ "idle" # "walk" /\ "idle" \notin {"snapshot", "anywhere", "below"}
    BY DEF Stages
  <2>6. AddressTypes' /\ ScansInv'
    BY <2>1, <2>5, NoScanTyped, OneScan
  <2> QED
    BY <2>4, <2>6
<1> QED
  BY <1>2, <1>3, <1>4, <1>5, <1>6, <1>7 DEF Sample

LEMMA HeadNext == HeadInv /\ [AddressNext]_addressVars => HeadInv'
<1> SUFFICES ASSUME HeadInv, [AddressNext]_addressVars PROVE HeadInv'
  OBVIOUS
<1>1. ASSUME UNCHANGED <<memory, stage, scan, snapshot, published>>, loaded' = loaded \/ loaded' = published.anywhere
      PROVE  HeadInv'
  <2>1. AddressTypes'
    BY <1>1 DEF HeadInv, AddressTypes
  <2>2. ScansInv'
    BY <1>1 DEF HeadInv, ScansInv
  <2>3. FiguresHonest'
    BY <1>1 DEF HeadInv, FiguresHonest
  <2> QED
    BY <2>1, <2>2, <2>3 DEF HeadInv
<1>2. CASE LoadAnywhere
  BY <1>1, <1>2 DEF LoadAnywhere
<1>3. CASE UNCHANGED addressVars
  BY <1>1, <1>3 DEF addressVars
<1>4. CASE AddressNext
  BY <1>2, <1>4, SampleKeeps, ChangeKeeps DEF AddressNext
<1> QED
  BY <1>3, <1>4

LEMMA HeadroomFollows == HeadInv => HeadroomHonest
<1> SUFFICES ASSUME FiguresHonest PROVE HeadroomHonest
  BY DEF HeadInv
<1>1. /\ Sound(published.anywhere) /\ Sound(published.below) /\ published.below.size <= Line
      /\ Sound(loaded) /\ Paired(snapshot.anywhere, snapshot.below)
  BY DEF FiguresHonest
<1>2. Honest(published.anywhere) /\ Honest(published.below)
  BY <1>1 DEF Sound
<1>3. /\ Binding.held <= RescueHeadroom
      /\ RescueHeadroom <= loaded.widest \/ RescueHeadroom <= published.below.widest
  BY <1>1, Constants DEF Binding, RescueHeadroom, Headroom, Sound, Honest
<1>4. /\ snapshot.below.size <= snapshot.anywhere.size
      /\ snapshot.anywhere.held <= OverlayHeadroom /\ OverlayHeadroom <= snapshot.anywhere.widest
  BY <1>1, Constants DEF OverlayHeadroom, Headroom, Paired, Sound, Honest
<1> QED
  BY <1>1, <1>2, <1>3, <1>4 DEF HeadroomHonest

(* Whatever comes and goes while the process' memory is walked, and        *)
(* however many threads walk and store their figures at once: no figure,   *)
(* and no headroom made of them, is smaller than a hole that stood while   *)
(* its walk passed or larger than one that existed, the constrained figure *)
(* counts no page above the line, and the snapshot's two figures are of    *)
(* one walk (sample_va, sample_now, headroom_bytes, largest_free_bytes,    *)
(* binding_headroom).                                                      *)
THEOREM HeadroomIsHonest == AddressSpec => []HeadroomHonest
<1> QED
  BY HeadInit, HeadNext, HeadroomFollows, PTL DEF AddressSpec

-----------------------------------------------------------------------------
(* The figures of a walk, against the regions it was told of               *)

Regions == [base : Nat, size : 1..Pages, state : States]

(* The regions in a state that have a size.                                *)
NoSmaller(queried, state, size) ==
  {i \in DOMAIN queried : queried[i].state = state /\ queried[i].size >= size}

SeenInv(w) == w.queried \in Seq(Regions) /\ DOMAIN w.stats = StatFields

(* Buckets count cumulatively; the i-th of the largest has a size if i     *)
(* regions have it.                                                        *)
BucketsInv(w) ==
  /\ w.stats.freeRegions = Cardinality(NoSmaller(w.queried, "free", 0))
  /\ w.stats.buckets = [i \in DOMAIN Thresholds |-> Cardinality(NoSmaller(w.queried, "free", Thresholds[i]))]

RankInv(w) ==
  /\ w.stats.ranked \in [1..Tracked -> Nat]
  /\ \A i \in 1..Tracked, size \in 1..(Pages + 1) :
       w.stats.ranked[i] >= size <=> i <= Cardinality(NoSmaller(w.queried, "committed", size))

PagesInv(w) ==
  /\ w.stats.totalFree \in Nat /\ w.stats.reserved \in Nat /\ w.stats.committed \in Nat
  /\ w.stats.totalFree + w.stats.reserved + w.stats.committed = w.cursor

ScanExact(w) == SeenInv(w) /\ BucketsInv(w) /\ RankInv(w) /\ PagesInv(w)
FiguresInv   == \A s \in Samplers : ScanExact(scan[s])

LEMMA ToldTyped ==
  ASSUME NEW queried, queried \in Seq(Regions), NEW state, NEW size
  PROVE  /\ IsFiniteSet(NoSmaller(queried, state, size)) /\ Cardinality(NoSmaller(queried, state, size)) \in Nat
         /\ DOMAIN queried = 1..Len(queried) /\ Len(queried) \in Nat
         /\ \A i \in DOMAIN queried : queried[i].size \in 1..Pages /\ queried[i].state \in States
<1>1. DOMAIN queried = 1..Len(queried) /\ Len(queried) \in Nat
  OBVIOUS
<1>2. IsFiniteSet(1..Len(queried))
  BY <1>1, FS_Interval
<1>3. NoSmaller(queried, state, size) \subseteq 1..Len(queried)
  BY <1>1 DEF NoSmaller
<1>4. IsFiniteSet(NoSmaller(queried, state, size)) /\ Cardinality(NoSmaller(queried, state, size)) \in Nat
  BY <1>2, <1>3, FS_Subset, FS_CardinalityType
<1>5. \A i \in DOMAIN queried : queried[i] \in Regions
  OBVIOUS
<1>6. \A i \in DOMAIN queried : queried[i].size \in 1..Pages /\ queried[i].state \in States
  BY <1>5 DEF Regions
<1> QED
  BY <1>1, <1>4, <1>6

LEMMA OneTold ==
  ASSUME NEW queried, queried \in Seq(Regions), NEW r \in Regions, NEW state, NEW size \in Nat
  PROVE  Cardinality(NoSmaller(Append(queried, r), state, size)) =
           Cardinality(NoSmaller(queried, state, size)) + IF r.state = state /\ r.size >= size THEN 1 ELSE 0
<1> DEFINE more == Append(queried, r)
           n   == Len(queried) + 1
           old == NoSmaller(queried, state, size)
           new == NoSmaller(more, state, size)
<1>1. /\ DOMAIN queried = 1..Len(queried) /\ Len(queried) \in Nat /\ DOMAIN more = DOMAIN queried \cup {n}
      /\ more[n] = r /\ n \notin DOMAIN queried /\ \A i \in DOMAIN queried : more[i] = queried[i]
  OBVIOUS
<1>2. IsFiniteSet(old) /\ Cardinality(old) \in Nat
  BY ToldTyped
<1> HIDE DEF n
<1>3. \A i : i \in new <=> i \in old \/ (i = n /\ r.state = state /\ r.size >= size)
  BY <1>1 DEF NoSmaller
<1>4. n \notin old
  BY <1>1 DEF NoSmaller
<1> HIDE DEF old, new
<1>5. CASE r.state = state /\ r.size >= size
  <2>1. new = old \cup {n}
    BY <1>3, <1>5
  <2>2. Cardinality(new) = Cardinality(old) + 1
    BY <1>2, <1>4, <2>1, FS_AddElement
  <2> QED
    BY <1>5, <2>2 DEF old, new
<1>6. CASE ~(r.state = state /\ r.size >= size)
  <2>1. new = old
    BY <1>3, <1>6
  <2> QED
    BY <1>2, <1>6, <2>1 DEF old, new
<1> QED
  BY <1>5, <1>6

LEMMA NothingTold ==
  ASSUME NEW queried, queried = << >>, NEW state, NEW size
  PROVE  NoSmaller(queried, state, size) = {} /\ Cardinality(NoSmaller(queried, state, size)) = 0
<1>1. NoSmaller(queried, state, size) = {}
  BY DEF NoSmaller
<1> QED
  BY <1>1, FS_EmptySet

LEMMA Limits ==
  /\ Tracked \in Nat \ {0} /\ Len(Thresholds) \in Nat /\ Len(Thresholds) > 1
  /\ DOMAIN Thresholds = 1..Len(Thresholds) /\ \A i \in DOMAIN Thresholds : Thresholds[i] \in Nat
  /\ \A i, j \in DOMAIN Thresholds : i < j => Thresholds[i] > Thresholds[j]
BY AddressAssumption

LEMMA FiguresStart ==
  ASSUME NEW w, w.stats = NoStats, w.queried = << >>, w.cursor = 0
  PROVE  ScanExact(w)
<1>1. /\ DOMAIN w.stats = StatFields /\ w.stats.freeRegions = 0 /\ w.stats.buckets = [i \in DOMAIN Thresholds |-> 0]
      /\ w.stats.ranked = [i \in 1..Tracked |-> 0] /\ w.stats.totalFree = 0 /\ w.stats.reserved = 0 /\ w.stats.committed = 0
  BY DEF NoStats, StatFields
<1>2. SeenInv(w)
  BY <1>1 DEF SeenInv
<1>3. BucketsInv(w)
  BY <1>1, NothingTold DEF BucketsInv
<1>4. RankInv(w)
  <2>1. \A i \in 1..Tracked, size \in 1..(Pages + 1) :
          w.stats.ranked[i] >= size <=> i <= Cardinality(NoSmaller(w.queried, "committed", size))
    <3> SUFFICES ASSUME NEW i \in 1..Tracked, NEW size \in 1..(Pages + 1)
                 PROVE  ~(w.stats.ranked[i] >= size) /\ ~(i <= Cardinality(NoSmaller(w.queried, "committed", size)))
      OBVIOUS
    <3>1. w.stats.ranked[i] = 0 /\ Cardinality(NoSmaller(w.queried, "committed", size)) = 0
      BY <1>1, NothingTold
    <3> QED
      BY <3>1, Limits, Constants
  <2> QED
    BY <1>1, <2>1 DEF RankInv
<1>5. PagesInv(w)
  BY <1>1 DEF PagesInv
<1> QED
  BY <1>2, <1>3, <1>4, <1>5 DEF ScanExact

(* What a region adds to the other figures.                                *)
LEMMA FiguresAre ==
  ASSUME NEW stats, DOMAIN stats = StatFields, NEW r, r.state \in States, NEW new, new = TallyRegion(stats, r)
  PROVE  /\ DOMAIN new = StatFields
         /\ r.state = "free" => /\ new.freeRegions = stats.freeRegions + 1
                                /\ new.buckets = Accumulate(stats.buckets, r.size)
                                /\ new.totalFree = stats.totalFree + r.size
         /\ r.state # "free" => /\ new.freeRegions = stats.freeRegions /\ new.buckets = stats.buckets
                                /\ new.totalFree = stats.totalFree
         /\ new.ranked = IF r.state = "committed" THEN Rank(stats.ranked, r.size) ELSE stats.ranked
         /\ new.reserved = IF r.state = "reserved" THEN stats.reserved + r.size ELSE stats.reserved
         /\ new.committed = IF r.state = "committed" THEN stats.committed + r.size ELSE stats.committed
<1>1. StatFields = {"largestFree", "largestBelow", "totalFree", "totalBelow", "reserved", "committed",
                    "freeRegions", "buckets", "ranked"}
  BY DEF StatFields, NoStats
<1>2. CASE r.state = "free"
  <2>1. new = TallyFree(stats, r)
    BY <1>2 DEF TallyRegion
  <2> QED
    BY <1>1, <1>2, <2>1 DEF TallyFree
<1>3. CASE r.state = "reserved"
  <2>1. new = [stats EXCEPT !.reserved = @ + r.size]
    BY <1>3 DEF TallyRegion
  <2> QED
    BY <1>1, <1>3, <2>1
<1>4. CASE r.state = "committed"
  <2>1. new = [stats EXCEPT !.committed = @ + r.size, !.ranked = Rank(@, r.size)]
    BY <1>4 DEF TallyRegion
  <2> QED
    BY <1>1, <1>4, <2>1
<1> QED
  BY <1>2, <1>3, <1>4 DEF States

(* A slot takes the newcomer, or what a slot before gave up for it.        *)
LEMMA RankIs ==
  ASSUME NEW ranked \in [1..Tracked -> Nat], NEW size \in Nat
  PROVE  /\ Rank(ranked, size) \in [1..Tracked -> Nat]
         /\ \A i \in 1..Tracked, s \in Nat :
              Rank(ranked, size)[i] >= s <=> ranked[i] >= s \/ (size >= s /\ \A j \in 1..(i - 1) : ranked[j] >= s)
<1> SUFFICES ASSUME NEW i \in 1..Tracked
             PROVE  /\ Rank(ranked, size)[i] \in Nat
                    /\ \A s \in Nat : Rank(ranked, size)[i] >= s <=>
                         ranked[i] >= s \/ (size >= s /\ \A j \in 1..(i - 1) : ranked[j] >= s)
  BY DEF Rank
<1> DEFINE before  == {size} \cup {ranked[j] : j \in 1 .. i - 1}
           carried == Min(before)
<1>1. Tracked \in Nat /\ \A j \in 1..(i - 1) : j \in 1..Tracked
  BY Limits
<1>2. before \subseteq Nat /\ before # {}
  BY <1>1
<1>3. carried \in before /\ carried \in Nat /\ \A x \in before : carried <= x
  <2> HIDE DEF before
  <2>1. PICK x \in before : \A y \in before : x <= y
    BY <1>2, LeastNumber
  <2>2. carried \in before /\ \A y \in before : carried <= y
    BY <2>1 DEF Min
  <2> QED
    BY <1>2, <2>2
<1>4. Rank(ranked, size)[i] = Largest({ranked[i], carried})
  BY DEF Rank
<1> HIDE DEF carried
<1>5. \A s \in Nat : carried >= s <=> size >= s /\ \A j \in 1..(i - 1) : ranked[j] >= s
  <2> TAKE s \in Nat
  <2>1. \A j \in 1..(i - 1) : ranked[j] \in Nat /\ ranked[j] \in before
    BY <1>1
  <2>2. carried = size \/ \E j \in 1..(i - 1) : carried = ranked[j]
    BY <1>3
  <2>3. carried <= size /\ \A j \in 1..(i - 1) : carried <= ranked[j]
    BY <1>3, <2>1
  <2> HIDE DEF before
  <2> QED
    BY <1>3, <2>1, <2>2, <2>3
<1> DEFINE larger == Largest({ranked[i], carried})
<1>6. ranked[i] \in Nat
  OBVIOUS
<1>7. larger \in Nat /\ ranked[i] <= larger /\ carried <= larger /\ larger \in {ranked[i], carried}
  BY <1>3, <1>6, Bigger
<1> HIDE DEF larger, before
<1>8. \A s \in Nat : larger >= s <=> ranked[i] >= s \/ carried >= s
  BY <1>3, <1>6, <1>7
<1> QED
  BY <1>4, <1>5, <1>7, <1>8 DEF larger

(* A query counts its region, and nothing else.                           *)
LEMMA FiguresQuery ==
  ASSUME NEW w, ScanTyped(w), ScanExact(w), w.cursor < Pages, memory \in [Addresses -> States],
         NEW r, r = RegionAt(w.cursor), NEW v, v = Asked(w, r)
  PROVE  ScanExact(v)
<1>1. /\ v.stats = TallyRegion(w.stats, r) /\ v.queried = Append(w.queried, r)
      /\ v.cursor = IF Stalled(w, r) THEN w.cursor ELSE r.base + r.size
  BY DEF Asked
<1>2. w.cursor \in Addresses /\ w.cursor \in Nat
  BY Constants DEF ScanTyped, Addresses
<1>3. r.base = w.cursor /\ r.size \in Nat /\ r.size > 0 /\ w.cursor + r.size <= Pages /\ r.state \in States
  BY <1>2, RegionIs
<1>4. r \in Regions
  <2>1. r = [base |-> r.base, size |-> r.size, state |-> r.state]
    BY DEF RegionAt
  <2>2. r.size \in 1..Pages /\ r.base \in Nat
    BY <1>2, <1>3, Constants
  <2> QED
    BY <1>3, <2>1, <2>2 DEF Regions
<1>5. v.cursor = w.cursor + r.size
  BY <1>1, <1>2, <1>3 DEF Stalled
<1>6. SeenInv(w) /\ w.queried \in Seq(Regions) /\ DOMAIN w.stats = StatFields
  BY DEF ScanExact, SeenInv
<1>7. /\ DOMAIN v.stats = StatFields
      /\ r.state = "free" => /\ v.stats.freeRegions = w.stats.freeRegions + 1
                             /\ v.stats.buckets = Accumulate(w.stats.buckets, r.size)
                             /\ v.stats.totalFree = w.stats.totalFree + r.size
      /\ r.state # "free" => /\ v.stats.freeRegions = w.stats.freeRegions /\ v.stats.buckets = w.stats.buckets
                             /\ v.stats.totalFree = w.stats.totalFree
      /\ v.stats.ranked = IF r.state = "committed" THEN Rank(w.stats.ranked, r.size) ELSE w.stats.ranked
      /\ v.stats.reserved = IF r.state = "reserved" THEN w.stats.reserved + r.size ELSE w.stats.reserved
      /\ v.stats.committed = IF r.state = "committed" THEN w.stats.committed + r.size ELSE w.stats.committed
  BY <1>1, <1>3, <1>6, FiguresAre
<1>8. SeenInv(v)
  BY <1>1, <1>4, <1>6, <1>7 DEF SeenInv, Regions
<1>9. \A state : \A size \in Nat :
        /\ Cardinality(NoSmaller(w.queried, state, size)) \in Nat
        /\ Cardinality(NoSmaller(v.queried, state, size)) =
             Cardinality(NoSmaller(w.queried, state, size)) + IF r.state = state /\ r.size >= size THEN 1 ELSE 0
  <2> TAKE state
  <2> TAKE size \in Nat
  <2>1. Cardinality(NoSmaller(w.queried, state, size)) \in Nat
    BY <1>6, ToldTyped
  <2>2. Cardinality(NoSmaller(Append(w.queried, r), state, size)) =
          Cardinality(NoSmaller(w.queried, state, size)) + IF r.state = state /\ r.size >= size THEN 1 ELSE 0
    BY <1>4, <1>6, OneTold
  <2> QED
    BY <1>1, <2>1, <2>2
<1>10. BucketsInv(v)
  <2>1. \A i \in DOMAIN Thresholds : Thresholds[i] \in Nat
    BY Limits
  <2>2. /\ w.stats.freeRegions = Cardinality(NoSmaller(w.queried, "free", 0))
        /\ w.stats.buckets = [i \in DOMAIN Thresholds |-> Cardinality(NoSmaller(w.queried, "free", Thresholds[i]))]
    BY DEF ScanExact, BucketsInv
  <2>3. CASE r.state = "free"
    <3>1. v.stats.freeRegions = Cardinality(NoSmaller(v.queried, "free", 0))
      BY <1>3, <1>7, <1>9, <2>2, <2>3
    <3>2. v.stats.buckets = [i \in DOMAIN Thresholds |-> IF r.size >= Thresholds[i] THEN w.stats.buckets[i] + 1 ELSE w.stats.buckets[i]]
      BY <1>7, <2>2, <2>3 DEF Accumulate
    <3>3. \A i \in DOMAIN Thresholds : v.stats.buckets[i] = Cardinality(NoSmaller(v.queried, "free", Thresholds[i]))
      <4> TAKE i \in DOMAIN Thresholds
      <4>1. w.stats.buckets[i] = Cardinality(NoSmaller(w.queried, "free", Thresholds[i])) /\ Cardinality(NoSmaller(w.queried, "free", Thresholds[i])) \in Nat
        BY <1>9, <2>1, <2>2
      <4>2. Cardinality(NoSmaller(v.queried, "free", Thresholds[i])) =
              Cardinality(NoSmaller(w.queried, "free", Thresholds[i])) + IF r.size >= Thresholds[i] THEN 1 ELSE 0
        BY <1>9, <2>1, <2>3
      <4>3. v.stats.buckets[i] = IF r.size >= Thresholds[i] THEN w.stats.buckets[i] + 1 ELSE w.stats.buckets[i]
        BY <3>2
      <4> QED
        BY <4>1, <4>2, <4>3
    <3>4. v.stats.buckets = [i \in DOMAIN Thresholds |-> Cardinality(NoSmaller(v.queried, "free", Thresholds[i]))]
      BY <3>2, <3>3
    <3> QED
      BY <3>1, <3>4 DEF BucketsInv
  <2>4. CASE r.state # "free"
    <3>1. v.stats.freeRegions = Cardinality(NoSmaller(v.queried, "free", 0))
      BY <1>7, <1>9, <2>2, <2>4
    <3>2. \A i \in DOMAIN Thresholds : Cardinality(NoSmaller(v.queried, "free", Thresholds[i])) = Cardinality(NoSmaller(w.queried, "free", Thresholds[i]))
      BY <1>9, <2>1, <2>4
    <3>3. v.stats.buckets = [i \in DOMAIN Thresholds |-> Cardinality(NoSmaller(v.queried, "free", Thresholds[i]))]
      BY <1>7, <2>2, <2>4, <3>2
    <3> QED
      BY <3>1, <3>3 DEF BucketsInv
  <2> QED
    BY <2>3, <2>4
<1>11. RankInv(v)
  <2>1. /\ w.stats.ranked \in [1..Tracked -> Nat]
        /\ \A i \in 1..Tracked, s \in 1..(Pages + 1) :
             w.stats.ranked[i] >= s <=> i <= Cardinality(NoSmaller(w.queried, "committed", s))
    BY DEF ScanExact, RankInv
  <2>2. CASE r.state # "committed"
    <3>1. \A s \in 1..(Pages + 1) : Cardinality(NoSmaller(v.queried, "committed", s)) = Cardinality(NoSmaller(w.queried, "committed", s))
      BY <1>9, <2>2
    <3>2. v.stats.ranked = w.stats.ranked
      BY <1>7, <2>2
    <3> QED
      BY <2>1, <3>1, <3>2 DEF RankInv
  <2>3. CASE r.state = "committed"
    <3>1. v.stats.ranked = Rank(w.stats.ranked, r.size)
      BY <1>7, <2>3
    <3>2. /\ v.stats.ranked \in [1..Tracked -> Nat]
          /\ \A i \in 1..Tracked, s \in Nat :
               v.stats.ranked[i] >= s <=>
                 w.stats.ranked[i] >= s \/ (r.size >= s /\ \A j \in 1..(i - 1) : w.stats.ranked[j] >= s)
      <4> DEFINE old == w.stats.ranked
                 new == v.stats.ranked
      <4>1. old \in [1..Tracked -> Nat] /\ new = Rank(old, r.size) /\ r.size \in Nat
        BY <1>3, <2>1, <3>1
      <4> HIDE DEF old, new
      <4>2. /\ new \in [1..Tracked -> Nat]
            /\ \A i \in 1..Tracked, s \in Nat :
                 new[i] >= s <=> old[i] >= s \/ (r.size >= s /\ \A j \in 1..(i - 1) : old[j] >= s)
        BY <4>1, RankIs
      <4> QED
        BY <4>2 DEF old, new
    <3>3. ASSUME NEW i \in 1..Tracked, NEW s \in 1..(Pages + 1)
          PROVE  v.stats.ranked[i] >= s <=> i <= Cardinality(NoSmaller(v.queried, "committed", s))
      <4> DEFINE k == Cardinality(NoSmaller(w.queried, "committed", s))
      <4>1. k \in Nat /\ Cardinality(NoSmaller(v.queried, "committed", s)) = k + IF r.size >= s THEN 1 ELSE 0
        BY <1>9, <2>3
      <4>2. i \in Nat /\ i > 0 /\ s \in Nat /\ \A j \in 1..(i - 1) : j \in 1..Tracked
        BY Limits, Constants
      <4>3. (w.stats.ranked[i] >= s <=> i <= k) /\ \A j \in 1..(i - 1) : w.stats.ranked[j] >= s <=> j <= k
        BY <2>1, <4>2
      <4> HIDE DEF k
      <4>4. (\A j \in 1..(i - 1) : w.stats.ranked[j] >= s) <=> i - 1 <= k
        <5>1. ASSUME i - 1 <= k PROVE \A j \in 1..(i - 1) : w.stats.ranked[j] >= s
          BY <4>1, <4>2, <4>3, <5>1
        <5>2. ASSUME \A j \in 1..(i - 1) : w.stats.ranked[j] >= s PROVE i - 1 <= k
          <6>1. CASE i = 1
            BY <4>1, <6>1
          <6>2. CASE i # 1
            <7>1. i - 1 \in 1..(i - 1)
              BY <4>2, <6>2
            <7> QED
              BY <4>3, <5>2, <7>1
          <6> QED
            BY <6>1, <6>2
        <5> QED
          BY <5>1, <5>2
      <4>5. v.stats.ranked[i] >= s <=> i <= k \/ (r.size >= s /\ i - 1 <= k)
        BY <3>2, <4>2, <4>3, <4>4
      <4> QED
        BY <1>3, <4>1, <4>2, <4>5
    <3> QED
      BY <3>2, <3>3 DEF RankInv
  <2> QED
    BY <2>2, <2>3
<1>12. PagesInv(v)
  <2>1. /\ w.stats.totalFree \in Nat /\ w.stats.reserved \in Nat /\ w.stats.committed \in Nat
        /\ w.stats.totalFree + w.stats.reserved + w.stats.committed = w.cursor
    BY DEF ScanExact, PagesInv
  <2>2. r.state \in {"free", "reserved", "committed"}
    BY <1>3 DEF States
  <2> QED
    BY <1>2, <1>3, <1>5, <1>7, <2>1, <2>2 DEF PagesInv
<1> QED
  BY <1>8, <1>10, <1>11, <1>12 DEF ScanExact

LEMMA FiguresStay ==
  ASSUME NEW w, ScanExact(w), NEW v, v.stats = w.stats, v.queried = w.queried, v.cursor = w.cursor
  PROVE  ScanExact(v)
BY DEF ScanExact, SeenInv, BucketsInv, RankInv, PagesInv

LEMMA FiguresStep == HeadInv /\ FiguresInv /\ [AddressNext]_addressVars => FiguresInv'
<1> SUFFICES ASSUME HeadInv, FiguresInv, [AddressNext]_addressVars, NEW t \in Samplers PROVE ScanExact(scan'[t])
  BY DEF FiguresInv
<1>1. /\ memory \in [Addresses -> States] /\ DOMAIN scan = Samplers
      /\ ScanTyped(scan[t]) /\ ScanExact(scan[t])
      /\ stage[t] = "walk" => scan[t].cursor < Pages
  BY DEF HeadInv, AddressTypes, ScansInv, FiguresInv
<1>2. ScanExact(FreshScan) /\ ScanExact(NoScan)
  BY FiguresStart DEF FreshScan, NoScan
<1>3. ASSUME NEW s \in Samplers, Query(s) PROVE ScanExact(scan'[t])
  <2> DEFINE r == RegionAt(scan[s].cursor)
             v == Asked(scan[s], r)
  <2>1. scan' = [scan EXCEPT ![s] = v] /\ stage[s] = "walk"
    BY <1>3 DEF Query, Advance
  <2> HIDE DEF v
  <2>2. CASE t = s
    <3>1. scan'[t] = v
      BY <1>1, <2>1, <2>2
    <3>2. ScanExact(v)
      BY <1>1, <2>1, <2>2, FiguresQuery DEF v
    <3> QED
      BY <3>1, <3>2
  <2>3. CASE t # s
    BY <1>1, <2>1, <2>3
  <2> QED
    BY <2>2, <2>3
<1>4. ASSUME NEW s \in Samplers, Sample(s), ~Query(s) PROVE ScanExact(scan'[t])
  <2>1. scan' = scan \/ scan' = [scan EXCEPT ![s] = FreshScan] \/ scan' = [scan EXCEPT ![s] = NoScan]
    BY <1>4 DEF Sample, Begin, QueryFails, StoreSnapshot, StoreAnywhere, StoreBelow
  <2>2. scan'[t] = scan[t] \/ scan'[t] = FreshScan \/ scan'[t] = NoScan
    BY <1>1, <2>1
  <2> QED
    BY <1>1, <1>2, <2>2
<1>5. ASSUME NEW first \in Addresses, NEW last \in Addresses, NEW state \in States, Change(first, last, state)
      PROVE  ScanExact(scan'[t])
  <2>1. scan'[t] = IF stage[t] = "walk" THEN Witnessed(scan[t]) ELSE scan[t]
    BY <1>5 DEF Change
  <2>2. /\ Witnessed(scan[t]).stats = scan[t].stats /\ Witnessed(scan[t]).queried = scan[t].queried
        /\ Witnessed(scan[t]).cursor = scan[t].cursor
    BY DEF Witnessed
  <2>3. /\ scan'[t].stats = scan[t].stats /\ scan'[t].queried = scan[t].queried
        /\ scan'[t].cursor = scan[t].cursor
    BY <2>1, <2>2
  <2> QED
    BY <1>1, <2>3, FiguresStay
<1>6. CASE LoadAnywhere \/ UNCHANGED addressVars
  BY <1>1, <1>6 DEF LoadAnywhere, addressVars
<1> QED
  BY <1>3, <1>4, <1>5, <1>6 DEF AddressNext

(* How many regions are between two sizes.                                 *)
LEMMA Between ==
  ASSUME NEW queried, queried \in Seq(Regions), NEW state, NEW low \in Nat, NEW high \in Nat, low <= high
  PROVE  /\ Cardinality(NoSmaller(queried, state, high)) <= Cardinality(NoSmaller(queried, state, low))
         /\ Cardinality(Told(queried, state, low, high)) =
              Cardinality(NoSmaller(queried, state, low)) - Cardinality(NoSmaller(queried, state, high))
<1> DEFINE big == NoSmaller(queried, state, high)
           all == NoSmaller(queried, state, low)
           mid == Told(queried, state, low, high)
<1>1. /\ IsFiniteSet(all) /\ Cardinality(all) \in Nat /\ IsFiniteSet(big) /\ Cardinality(big) \in Nat
      /\ \A i \in DOMAIN queried : queried[i].size \in Nat
  BY ToldTyped
<1>2. /\ \A i : i \in mid <=> i \in all /\ i \notin big
      /\ \A i : i \in big => i \in all
  BY <1>1 DEF NoSmaller, Told
<1> HIDE DEF big, all, mid
<1>3. mid = all \ big /\ big \subseteq all
  BY <1>2
<1>4. Cardinality(all \ big) = Cardinality(all) - Cardinality(all \cap big)
  BY <1>1, FS_Difference
<1>5. all \cap big = big /\ Cardinality(big) <= Cardinality(all)
  BY <1>1, <1>3, FS_Subset
<1> QED
  BY <1>3, <1>4, <1>5 DEF big, all, mid

LEMMA NoneLarger ==
  ASSUME NEW queried, queried \in Seq(Regions), NEW state, NEW low
  PROVE  Told(queried, state, low, Pages + 1) = NoSmaller(queried, state, low)
<1>1. \A i \in DOMAIN queried : queried[i].size \in 1..Pages
  BY ToldTyped
<1>2. \A i \in DOMAIN queried : queried[i].size < Pages + 1
  BY <1>1, Constants
<1> QED
  BY <1>2 DEF NoSmaller, Told

LEMMA Exact ==
  ASSUME NEW w, ScanExact(w)
  PROVE  ExactOf(w)
<1> DEFINE n       == Len(Thresholds)
           classes == SizeClasses(w.stats.buckets, w.stats.freeRegions)
           Low(i)  == IF i > n THEN 0 ELSE Thresholds[i]
           High(i) == IF i = 1 THEN Pages + 1 ELSE Thresholds[i - 1]
           K(size) == Cardinality(NoSmaller(w.queried, "free", size))
<1>1. /\ n \in Nat /\ n > 1 /\ DOMAIN Thresholds = 1..n /\ \A i \in 1..n : Thresholds[i] \in Nat
      /\ \A i, j \in 1..n : i < j => Thresholds[i] > Thresholds[j]
  BY Limits
<1>2. w.queried \in Seq(Regions)
  BY DEF ScanExact, SeenInv
<1>3. w.stats.buckets = [i \in 1..n |-> K(Thresholds[i])] /\ w.stats.freeRegions = K(0)
  BY <1>1 DEF ScanExact, BucketsInv
<1>4. Len(w.stats.buckets) = n /\ Last(w.stats.buckets) = K(Thresholds[n]) /\ \A i \in 1..n : w.stats.buckets[i] = K(Thresholds[i])
  <2>1. \A i \in 1..n : w.stats.buckets[i] = K(Thresholds[i])
    BY <1>3
  <2>2. Len(w.stats.buckets) = n
    BY <1>1, <1>3
  <2> QED
    BY <1>1, <2>1, <2>2 DEF Last
<1>5. \A size \in Nat : K(size) \in Nat
  BY <1>2, ToldTyped
<1> HIDE DEF n
<1>6. \A i \in 1..(n + 1) : classes[i] = CASE i = 1 -> K(Thresholds[1])
                                           [] i = n + 1 -> Minus(K(0), K(Thresholds[n]))
                                           [] i \in 2..n -> Minus(K(Thresholds[i]), K(Thresholds[i - 1]))
  <2> TAKE i \in 1..(n + 1)
  <2>1. classes[i] = CASE i = 1 -> w.stats.buckets[1]
                       [] i = n + 1 -> Minus(w.stats.freeRegions, Last(w.stats.buckets))
                       [] i \in 2..n -> Minus(w.stats.buckets[i], w.stats.buckets[i - 1])
    BY <1>4 DEF SizeClasses
  <2>2. w.stats.buckets[1] = K(Thresholds[1])
    BY <1>1, <1>4
  <2>3. i \in 2..n => w.stats.buckets[i] = K(Thresholds[i]) /\ w.stats.buckets[i - 1] = K(Thresholds[i - 1])
    BY <1>1, <1>4
  <2> HIDE DEF classes, K
  <2> QED
    BY <1>1, <1>3, <1>4, <2>1, <2>2, <2>3
<1> HIDE DEF classes
<1>7. \A low, high \in Nat : low <= high =>
        K(high) <= K(low) /\ Cardinality(Told(w.queried, "free", low, high)) = K(low) - K(high)
  BY <1>2, Between
<1>8. \A low : Cardinality(Told(w.queried, "free", low, Pages + 1)) = K(low)
  BY <1>2, NoneLarger
<1>9. \A i \in 1..(n + 1) : Low(i) \in Nat /\ High(i) \in Nat
  BY <1>1, Constants
<1>10. \A i \in 2..(n + 1) : Low(i) <= High(i)
  <2> TAKE i \in 2..(n + 1)
  <2>1. CASE i = n + 1
    BY <1>1, <1>9, <2>1
  <2>2. CASE i \in 2..n
    <3>1. i - 1 \in 1..n /\ i \in 1..n /\ i - 1 < i
      BY <1>1, <2>2
    <3>2. Thresholds[i - 1] > Thresholds[i] /\ Thresholds[i - 1] \in Nat /\ Thresholds[i] \in Nat
      BY <1>1, <3>1
    <3> QED
      BY <1>1, <2>2, <3>1, <3>2
  <2> QED
    BY <1>1, <2>1, <2>2
<1> HIDE DEF K
<1>11. ASSUME NEW i \in 1..(n + 1)
       PROVE  classes[i] = Cardinality(Told(w.queried, "free", Low(i), High(i)))
  <2>1. CASE i = 1
    <3>1. High(i) = Pages + 1 /\ Low(i) = Thresholds[1]
      BY <1>1, <2>1
    <3>2. classes[i] = K(Thresholds[1])
      BY <1>1, <1>6, <2>1
    <3> HIDE DEF Low, High
    <3> QED
      BY <1>8, <3>1, <3>2
  <2>2. CASE i # 1
    <3>1. i \in 2..(n + 1) /\ (i = n + 1 \/ i \in 2..n)
      BY <1>1, <2>2
    <3>2. Low(i) \in Nat /\ High(i) \in Nat /\ Low(i) <= High(i)
      BY <1>9, <1>10, <3>1
    <3>3. classes[i] = Minus(K(Low(i)), K(High(i)))
      <4>1. CASE i = n + 1
        <5>1. High(i) = Thresholds[n] /\ Low(i) = 0
          BY <1>1, <4>1
        <5>2. classes[i] = Minus(K(0), K(Thresholds[n]))
          BY <1>1, <1>6, <4>1
        <5> HIDE DEF Low, High
        <5> QED
          BY <5>1, <5>2
      <4>2. CASE i \in 2..n
        <5>1. High(i) = Thresholds[i - 1] /\ Low(i) = Thresholds[i]
          BY <1>1, <4>2
        <5>2. classes[i] = Minus(K(Thresholds[i]), K(Thresholds[i - 1]))
          BY <1>1, <1>6, <4>2
        <5> HIDE DEF Low, High
        <5> QED
          BY <5>1, <5>2
      <4> QED
        BY <3>1, <4>1, <4>2
    <3> HIDE DEF Low, High
    <3>4. K(High(i)) <= K(Low(i)) /\ Cardinality(Told(w.queried, "free", Low(i), High(i))) = K(Low(i)) - K(High(i))
      BY <1>7, <3>2
    <3>5. K(Low(i)) \in Nat /\ K(High(i)) \in Nat
      BY <1>5, <3>2
    <3> QED
      BY <3>3, <3>4, <3>5 DEF Minus
  <2> QED
    BY <2>1, <2>2
<1>12. Slivers(classes) = Cardinality(Told(w.queried, "free", 0, Thresholds[n - 1]))
  <2>1. Thresholds[n] \in Nat /\ Thresholds[n - 1] \in Nat /\ Thresholds[n] <= Thresholds[n - 1]
    <3>1. n - 1 \in 1..n /\ n \in 1..n /\ n - 1 < n
      BY <1>1
    <3>2. Thresholds[n - 1] > Thresholds[n] /\ Thresholds[n - 1] \in Nat /\ Thresholds[n] \in Nat
      BY <1>1, <3>1
    <3> QED
      BY <3>2
  <2>2. classes[n] = Minus(K(Thresholds[n]), K(Thresholds[n - 1])) /\ classes[n + 1] = Minus(K(0), K(Thresholds[n]))
    <3>1. n \in 2..n /\ n \in 1..(n + 1) /\ n + 1 \in 1..(n + 1) /\ n # 1 /\ n # n + 1 /\ n + 1 # 1
      BY <1>1
    <3> QED
      BY <1>6, <3>1
  <2>3. Slivers(classes) = classes[n] + classes[n + 1]
    <3>1. Len(classes) = n + 1
      BY <1>1, <1>4 DEF classes, SizeClasses
    <3>2. (n + 1) - 1 = n
      BY <1>1
    <3> QED
      BY <3>1, <3>2 DEF Slivers, Last
  <2>4. /\ K(0) \in Nat /\ K(Thresholds[n]) \in Nat /\ K(Thresholds[n - 1]) \in Nat
        /\ K(Thresholds[n - 1]) <= K(Thresholds[n]) /\ K(Thresholds[n]) <= K(0) /\ K(Thresholds[n - 1]) <= K(0)
        /\ Cardinality(Told(w.queried, "free", 0, Thresholds[n - 1])) = K(0) - K(Thresholds[n - 1])
    <3>1. 0 \in Nat /\ 0 <= Thresholds[n] /\ 0 <= Thresholds[n - 1]
      BY <2>1
    <3> QED
      BY <1>5, <1>7, <2>1, <3>1
  <2>5. classes[n] = K(Thresholds[n]) - K(Thresholds[n - 1]) /\ classes[n + 1] = K(0) - K(Thresholds[n])
    BY <2>2, <2>4 DEF Minus
  <2> QED
    BY <2>3, <2>4, <2>5
<1>13. ASSUME NEW i \in 1..Tracked, NEW size \in 1..(Pages + 1)
       PROVE  w.stats.ranked[i] >= size <=> Cardinality(Told(w.queried, "committed", size, Pages + 1)) >= i
  <2> DEFINE all == Cardinality(NoSmaller(w.queried, "committed", size))
  <2>1. size \in Nat /\ Pages + 1 \in Nat /\ size <= Pages + 1 /\ i \in Nat
    BY Constants, Limits
  <2>2. Cardinality(Told(w.queried, "committed", size, Pages + 1)) = all
    BY <1>2, NoneLarger
  <2>3. all \in Nat
    BY <1>2, ToldTyped
  <2>4. w.stats.ranked[i] >= size <=> i <= all
    BY DEF ScanExact, RankInv
  <2> HIDE DEF all
  <2> QED
    BY <2>1, <2>2, <2>3, <2>4
<1>14. w.stats.totalFree + w.stats.reserved + w.stats.committed = w.cursor
  BY DEF ScanExact, PagesInv
<1> QED
  BY <1>11, <1>12, <1>13, <1>14 DEF ExactOf, n, classes, Low, High

(* The overlay's figures are those of the regions a walk was told of,      *)
(* for any address space and any thresholds: the differenced classes count *)
(* each block once, slivers are the two smallest classes, the ranking has  *)
(* lost no large region, and no page is counted twice or left out.         *)
(* (sample_va, accumulate_free_buckets, free_size_classes, sliver_count)   *)
THEOREM FiguresAreExact == AddressSpec => []FiguresExact
<1>1. AddressInit => FiguresInv
  BY FiguresStart DEF AddressInit, NoScan, FiguresInv
<1>2. AddressSpec => [](HeadInv /\ FiguresInv)
  BY <1>1, HeadInit, HeadNext, FiguresStep, PTL DEF AddressSpec
<1>3. FiguresInv => FiguresExact
  BY Exact DEF FiguresInv, FiguresExact
<1> QED
  BY <1>2, <1>3, PTL

-----------------------------------------------------------------------------
(* A pool's blocks                                                         *)

LEMMA PoolWords == Words \in Nat /\ Words > 0 /\ Words >= Header /\ Header = 2 /\ Main \in Pools
BY PoolAssumption DEF Header

(* They cover the pool, each beginning where the one before ends.          *)
Tiled(c) ==
  /\ DOMAIN c \subseteq 0..(Words - 1) /\ 0 \in DOMAIN c
  /\ \A b \in DOMAIN c : /\ c[b].size \in Nat /\ c[b].size > 0 /\ c[b].used \in BOOLEAN
                         /\ b + c[b].size \in DOMAIN c \cup {Words}
  /\ \A b, d \in DOMAIN c : b < d => b + c[b].size <= d

LEMMA CutsTile == \A c \in Tilings : Tiled(c)
<1> SUFFICES ASSUME NEW c \in Tilings PROVE Tiled(c)
  OBVIOUS
<1> DEFINE Later(starts, b) == {s \in starts : s > b} \cup {Words}
           Follow(starts, b) == Min(Later(starts, b))
<1> DEFINE Chain(starts, uses) == [b \in starts |-> [size |-> Follow(starts, b) - b, used |-> uses[b]]]
           Cuts == {starts \in SUBSET (0..(Words - Header)) :
                      0 \in starts /\ \A b \in starts : Follow(starts, b) - b >= Header}
<1>a. Tilings = UNION {{Chain(starts, uses) : uses \in [starts -> BOOLEAN]} : starts \in Cuts}
  BY DEF Tilings
<1>b. PICK starts \in Cuts : c \in {Chain(starts, uses) : uses \in [starts -> BOOLEAN]}
  <2> HIDE DEF Chain, Cuts
  <2> QED
    BY <1>a
<1>c. PICK uses \in [starts -> BOOLEAN] : c = Chain(starts, uses)
  <2> HIDE DEF Chain
  <2> QED
    BY <1>b
<1>1. /\ starts \in SUBSET (0..(Words - Header)) /\ 0 \in starts /\ uses \in [starts -> BOOLEAN]
      /\ c = [b \in starts |-> [size |-> Follow(starts, b) - b, used |-> uses[b]]]
  BY <1>b, <1>c
<1>2. starts \subseteq 0..(Words - 1) /\ \A b \in starts : b \in Nat /\ b < Words
  BY <1>1, PoolWords
<1>3. \A b \in starts : /\ Follow(starts, b) \in Later(starts, b) /\ Follow(starts, b) \in Nat
                        /\ \A x \in Later(starts, b) : Follow(starts, b) <= x
  <2> TAKE b \in starts
  <2> DEFINE S == Later(starts, b)
  <2>1. S \subseteq Nat /\ S # {}
    BY <1>2, PoolWords
  <2> HIDE DEF S
  <2>2. Min(S) \in S /\ \A x \in S : Min(S) <= x
    BY <2>1, LeastNumber DEF Min
  <2>3. Min(S) \in Nat
    BY <2>1, <2>2
  <2> QED
    BY <2>2, <2>3 DEF S
<1> HIDE DEF Follow
<1>4. \A b \in starts : /\ Follow(starts, b) \in starts \cup {Words} /\ Follow(starts, b) > b
                        /\ \A d \in starts : b < d => Follow(starts, b) <= d
  BY <1>2, <1>3
<1>5. DOMAIN c = starts /\ \A b \in starts : c[b].size = Follow(starts, b) - b /\ c[b].used = uses[b]
  BY <1>1
<1>6. \A b \in starts : c[b].size \in Nat /\ c[b].size > 0 /\ b + c[b].size = Follow(starts, b)
  BY <1>2, <1>3, <1>4, <1>5
<1>7. \A b \in starts : c[b].used \in BOOLEAN
  BY <1>1, <1>5
<1> QED
  BY <1>1, <1>2, <1>4, <1>5, <1>6, <1>7 DEF Tiled

(* Where a block ends.                                                     *)
LEMMA BlockEnds ==
  ASSUME NEW c, Tiled(c), NEW b \in DOMAIN c
  PROVE  /\ b \in Nat /\ b < Words /\ c[b].size \in Nat /\ c[b].size > 0 /\ c[b].used \in BOOLEAN
         /\ b + c[b].size \in Nat /\ b + c[b].size <= Words /\ b < b + c[b].size
         /\ b + c[b].size \in DOMAIN c \cup {Words}
         /\ \A d \in DOMAIN c : d < b => d + c[d].size <= b
         /\ \A d \in DOMAIN c : b < d => b + c[b].size <= d
<1>1. \A d \in DOMAIN c : d \in Nat /\ d < Words
  BY PoolWords DEF Tiled
<1>2. c[b].size \in Nat /\ c[b].size > 0 /\ c[b].used \in BOOLEAN /\ b + c[b].size \in DOMAIN c \cup {Words}
  BY DEF Tiled
<1>3. /\ \A d \in DOMAIN c : d < b => d + c[d].size <= b
      /\ \A d \in DOMAIN c : b < d => b + c[b].size <= d
  BY DEF Tiled
<1> QED
  BY <1>1, <1>2, <1>3, PoolWords

Allocated(c, b, size, yes, no, rest) ==
  [d \in DOMAIN c \cup IF size = c[b].size THEN {} ELSE {b + size} |->
     CASE d = b        -> [size |-> size, used |-> yes]
       [] d = b + size /\ size < c[b].size -> [size |-> rest, used |-> no]
       [] d /= b /\ (d /= b + size \/ size = c[b].size) -> c[d]]

LEMMA AllocatedTiled ==
  ASSUME NEW c, Tiled(c), NEW b \in DOMAIN c, NEW size \in Header..Words, NEW yes \in BOOLEAN, NEW no \in BOOLEAN,
         NEW rest, rest = c[b].size - size, size = c[b].size \/ size + Header <= c[b].size
  PROVE  Tiled(Allocated(c, b, size, yes, no, rest))
<1> DEFINE new == Allocated(c, b, size, yes, no, rest)
<1>a. new = [d \in DOMAIN c \cup IF size = c[b].size THEN {} ELSE {b + size} |->
               CASE d = b        -> [size |-> size, used |-> yes]
                 [] d = b + size /\ size < c[b].size -> [size |-> rest, used |-> no]
                 [] d /= b /\ (d /= b + size \/ size = c[b].size) -> c[d]]
  BY DEF Allocated
<1> HIDE DEF new
<1>1. size \in Nat /\ size > 0 /\ Words \in Nat /\ Words > 0
  BY PoolWords
<1>2. /\ b \in Nat /\ b < Words /\ c[b].size \in Nat /\ c[b].size > 0 /\ b + c[b].size <= Words
      /\ b + c[b].size \in DOMAIN c \cup {Words}
      /\ \A d \in DOMAIN c : d < b => d + c[d].size <= b
      /\ \A d \in DOMAIN c : b < d => b + c[b].size <= d
  BY BlockEnds
<1>3. \A d \in DOMAIN c : /\ d \in 0..(Words - 1) /\ c[d].size \in Nat /\ c[d].size > 0 /\ c[d].used \in BOOLEAN
                          /\ d + c[d].size \in DOMAIN c \cup {Words}
  BY DEF Tiled
<1>4. CASE size = c[b].size
  <2>1. DOMAIN new = DOMAIN c /\ \A d \in DOMAIN c : new[d] = IF d = b THEN [size |-> size, used |-> yes] ELSE c[d]
    BY <1>a, <1>1, <1>4
  <2>2. new[b].size = c[b].size /\ new[b].used = yes /\ \A d \in DOMAIN c \ {b} : new[d] = c[d]
    BY <1>4, <2>1
  <2>3. \A d \in DOMAIN c : new[d].size = c[d].size /\ new[d].used \in BOOLEAN
    BY <1>3, <2>2
  <2> QED
    BY <2>1, <2>3 DEF Tiled, new
<1>5. CASE size # c[b].size
  <2> DEFINE cut == b + size
  <2>1. size < c[b].size /\ cut \in Nat /\ b < cut /\ cut < b + c[b].size /\ cut # b
    BY <1>1, <1>2, <1>5, PoolWords
  <2>2. cut \notin DOMAIN c
    BY <1>2, <1>3, <2>1
  <2>3. DOMAIN new = DOMAIN c \cup {cut}
    BY <1>a, <1>5
  <2>4. /\ new[b] = [size |-> size, used |-> yes] /\ new[cut] = [size |-> rest, used |-> no]
        /\ \A d \in DOMAIN c \ {b} : new[d] = c[d]
    <3>1. b \in DOMAIN new /\ cut \in DOMAIN new /\ \A d \in DOMAIN c \ {b} : d \in DOMAIN new /\ d # cut
      BY <2>2, <2>3
    <3> QED
      BY <1>a, <2>1, <2>2, <3>1
  <2> HIDE DEF cut
  <2>6. b + size = cut /\ cut + rest = b + c[b].size /\ rest \in Nat /\ rest > 0
    BY <1>1, <1>2, <2>1 DEF cut
  <2>5. new[b].size = size /\ new[b].used = yes /\ new[cut].size = rest /\ new[cut].used = no
    <3>1. new[b].size = size /\ new[b].used = yes
      BY <2>4
    <3>2. new[cut] = [size |-> rest, used |-> no]
      BY <2>4
    <3>3. new[cut].size = rest
      BY <1>1, <1>2, <2>6, <3>2
    <3>4. new[cut].used = no
      BY <1>1, <1>2, <2>6, <3>2
    <3> QED
      BY <3>1, <3>3, <3>4
  <2>7. DOMAIN new \subseteq 0..(Words - 1) /\ 0 \in DOMAIN new
    BY <1>1, <1>2, <2>1, <2>3 DEF Tiled
  <2>8. \A d \in DOMAIN new : /\ new[d].size \in Nat /\ new[d].size > 0 /\ new[d].used \in BOOLEAN
                              /\ d + new[d].size \in DOMAIN new \cup {Words}
    <3> TAKE d \in DOMAIN new
    <3>1. CASE d = b
      BY <1>1, <2>3, <2>5, <2>6, <3>1
    <3>2. CASE d = cut
      BY <1>2, <2>3, <2>5, <2>6, <3>2
    <3>3. CASE d \in DOMAIN c \ {b}
      <4>1. new[d] = c[d] /\ d \in DOMAIN c
        BY <2>4, <3>3
      <4>2. c[d].size \in Nat /\ c[d].size > 0 /\ c[d].used \in BOOLEAN /\ d + c[d].size \in DOMAIN c \cup {Words}
        BY <1>3, <4>1
      <4> QED
        BY <2>3, <4>1, <4>2
    <3> QED
      BY <2>3, <3>1, <3>2, <3>3
  <2>9. \A d, e \in DOMAIN new : d < e => d + new[d].size <= e
    <3> SUFFICES ASSUME NEW d \in DOMAIN new, NEW e \in DOMAIN new, d < e PROVE d + new[d].size <= e
      OBVIOUS
    <3>1. CASE d = b
      <4>1. e # b
        BY <1>2, <3>1
      <4>2. CASE e = cut
        BY <1>1, <1>2, <2>1, <2>5, <2>6, <3>1, <4>2
      <4>3. CASE e \in DOMAIN c
        <5>1. b + c[b].size <= e /\ e \in Nat
          BY <1>2, <1>3, <3>1, <4>3
        <5> QED
          BY <1>1, <1>2, <2>1, <2>5, <3>1, <5>1
      <4> QED
        BY <2>3, <4>2, <4>3
    <3>2. CASE d = cut
      <4>1. e \in DOMAIN c /\ e \in Nat /\ b < e
        BY <1>2, <1>3, <2>1, <2>3, <3>2
      <4>2. b + c[b].size <= e
        BY <1>2, <4>1
      <4> QED
        BY <2>5, <2>6, <3>2, <4>2
    <3>3. CASE d \in DOMAIN c \ {b}
      <4>1. new[d].size = c[d].size /\ d \in Nat /\ c[d].size \in Nat
        <5>1. new[d] = c[d] /\ d \in DOMAIN c
          BY <2>4, <3>3
        <5>2. d \in 0..(Words - 1) /\ c[d].size \in Nat
          BY <1>3, <5>1
        <5>3. d \in Nat
          BY <1>1, <5>2
        <5>4. new[d].size = c[d].size /\ new[d].size \in Nat
          BY <5>1, <5>2
        <5> QED
          BY <5>2, <5>3, <5>4
      <4>2. CASE e = cut
        <5>1. d < b
          <6>1. ~(b < d)
            <7>1. ASSUME b < d PROVE FALSE
              BY <1>2, <2>1, <3>3, <4>1, <4>2, <7>1
            <7> QED
              BY <7>1
          <6> QED
            BY <1>2, <3>3, <4>1, <6>1
        <5>2. d + c[d].size <= b
          BY <1>2, <3>3, <5>1
        <5> QED
          BY <1>2, <2>1, <4>1, <4>2, <5>2
      <4>3. CASE e \in DOMAIN c
        <5>1. d + c[d].size <= e
          BY <3>3, <4>3 DEF Tiled
        <5> QED
          BY <4>1, <5>1
      <4> QED
        BY <2>3, <4>2, <4>3
    <3> QED
      BY <2>3, <3>1, <3>2, <3>3
  <2> QED
    BY <2>7, <2>8, <2>9 DEF Tiled, new
<1> QED
  BY <1>4, <1>5 DEF new

(* A block that is given back: it and its free neighbours are one.         *)
Joins(c, first, last, joined, new) ==
  /\ first \in DOMAIN c /\ last \in DOMAIN c /\ first <= last
  /\ \A d : d \in joined <=> d \in DOMAIN c /\ first <= d /\ d <= last
  /\ DOMAIN new = (DOMAIN c \ joined) \cup {first} /\ \A d \in DOMAIN c \ joined : new[d] = c[d]
  /\ first + new[first].size = last + c[last].size /\ new[first].size \in Nat /\ new[first].used \in BOOLEAN

LEMMA JoinedTiled ==
  ASSUME NEW c, NEW first, NEW last, NEW joined, NEW new, Tiled(c), Joins(c, first, last, joined, new)
  PROVE  Tiled(new)
<1> DEFINE end == last + c[last].size
<1>1. /\ first \in Nat /\ last \in Nat /\ end \in Nat /\ last < end /\ end <= Words /\ end \in DOMAIN c \cup {Words}
      /\ Words \in Nat /\ Words > 0
      /\ \A d \in DOMAIN c : d < first => d + c[d].size <= first
      /\ \A d \in DOMAIN c : last < d => end <= d
  BY BlockEnds, PoolWords DEF Joins
<1>2. \A d \in DOMAIN c : /\ d \in 0..(Words - 1) /\ c[d].size \in Nat /\ c[d].size > 0 /\ c[d].used \in BOOLEAN
                          /\ d + c[d].size \in DOMAIN c \cup {Words}
  BY DEF Tiled
<1>3. DOMAIN new = (DOMAIN c \ joined) \cup {first} /\ first \in joined /\ first <= last /\ first \in DOMAIN c
  BY <1>1 DEF Joins
<1>4. \A d \in DOMAIN c \ joined : new[d] = c[d]
  BY DEF Joins
<1>5. \A d : d \in joined <=> d \in DOMAIN c /\ first <= d /\ d <= last
  BY DEF Joins
<1>6. first + new[first].size = end /\ new[first].size \in Nat /\ new[first].size > 0 /\ new[first].used \in BOOLEAN
  BY <1>1 DEF Joins
<1> HIDE DEF end
<1>7. end \in DOMAIN new \cup {Words}
  BY <1>1, <1>2, <1>3, <1>5
<1>8. DOMAIN new \subseteq 0..(Words - 1) /\ 0 \in DOMAIN new
  <2>1. 0 \in DOMAIN c
    BY DEF Tiled
  <2>2. 0 \in joined => first = 0
    BY <1>1, <1>5
  <2> QED
    BY <1>2, <1>3, <2>1, <2>2
<1>9. \A d \in DOMAIN new : /\ new[d].size \in Nat /\ new[d].size > 0 /\ new[d].used \in BOOLEAN
                            /\ d + new[d].size \in DOMAIN new \cup {Words}
  <2> TAKE d \in DOMAIN new
  <2>1. CASE d = first
    BY <1>6, <1>7, <2>1
  <2>2. CASE d \in DOMAIN c \ joined
    <3>1. new[d] = c[d] /\ d \in Nat /\ c[d].size \in Nat /\ d + c[d].size \in DOMAIN c \cup {Words}
      BY <1>2, <1>4, <2>2
    <3>2. CASE d < first
      <4>1. d + c[d].size <= first /\ d + c[d].size \in Nat
        BY <1>1, <2>2, <3>1, <3>2
      <4>2. d + c[d].size \in joined => d + c[d].size = first
        BY <1>1, <1>5, <4>1
      <4> QED
        BY <1>2, <1>3, <2>2, <3>1, <4>2
    <3>3. CASE d > last
      <4>1. d + c[d].size > last /\ d + c[d].size \in Nat
        BY <1>1, <3>1, <3>3
      <4>2. d + c[d].size \notin joined
        BY <1>1, <1>5, <4>1
      <4> QED
        BY <1>2, <1>3, <2>2, <3>1, <4>2
    <3>4. ~(first <= d /\ d <= last)
      BY <1>5, <2>2
    <3>5. d < first \/ d > last
      BY <1>1, <3>1, <3>4
    <3> QED
      BY <3>2, <3>3, <3>5
  <2> QED
    BY <1>3, <2>1, <2>2
<1>10. \A d, e \in DOMAIN new : d < e => d + new[d].size <= e
  <2> SUFFICES ASSUME NEW d \in DOMAIN new, NEW e \in DOMAIN new, d < e PROVE d + new[d].size <= e
    OBVIOUS
  <2>1. d \in DOMAIN c /\ e \in DOMAIN c /\ d \in Nat /\ e \in Nat
    BY <1>2, <1>3
  <2>2. CASE d = first
    <3>1. e \notin joined
      BY <1>1, <1>3, <2>1, <2>2
    <3>2. e > last
      BY <1>1, <1>5, <2>1, <2>2, <3>1
    <3>3. end <= e
      BY <1>1, <2>1, <3>2
    <3> QED
      BY <1>6, <2>2, <3>3
  <2>3. CASE d # first
    <3>1. new[d] = c[d]
      BY <1>3, <1>4, <2>3
    <3>2. d + c[d].size <= e
      BY <2>1 DEF Tiled
    <3> QED
      BY <3>1, <3>2
  <2> QED
    BY <2>2, <2>3
<1> QED
  BY <1>8, <1>9, <1>10 DEF Tiled

Neighbours(c, b) ==
  {d \in DOMAIN c : d = b + c[b].size /\ ~c[d].used} \cup {d \in DOMAIN c : d + c[d].size = b /\ ~c[d].used} \cup {b}

Freed(c, b, no) ==
  [d \in (DOMAIN c \ Neighbours(c, b)) \cup {Min(Neighbours(c, b))} |->
     IF d \in Neighbours(c, b)
     THEN [size |-> Max({e + c[e].size : e \in Neighbours(c, b)}) - Min(Neighbours(c, b)), used |-> no]
     ELSE c[d]]

LEMMA FreedTiled ==
  ASSUME NEW c, Tiled(c), NEW b \in DOMAIN c, NEW no \in BOOLEAN
  PROVE  Tiled(Freed(c, b, no))
<1> DEFINE joined == Neighbours(c, b)
           new    == Freed(c, b, no)
<1>a. joined \subseteq DOMAIN c /\ b \in joined /\ \A d \in joined : d = b \/ d + c[d].size = b \/ d = b + c[b].size
  BY DEF Neighbours
<1>b. new = [d \in (DOMAIN c \ joined) \cup {Min(joined)} |->
               IF d \in joined
               THEN [size |-> Max({e + c[e].size : e \in joined}) - Min(joined), used |-> no]
               ELSE c[d]]
  BY DEF Freed
<1> HIDE DEF joined, new
<1> DEFINE End(d) == d + c[d].size
<1>1. \A d \in DOMAIN c : /\ d \in Nat /\ End(d) \in Nat /\ d < End(d) /\ End(d) <= Words
                          /\ \A e \in DOMAIN c : (d < e => End(d) <= e) /\ (e < d => End(e) <= d)
  BY BlockEnds
<1> HIDE DEF End
<1>2. joined \subseteq DOMAIN c /\ b \in joined /\ \A d \in joined : d = b \/ End(d) = b \/ d = End(b)
  BY <1>a DEF End
<1>3. joined \subseteq Nat /\ joined # {}
  BY <1>1, <1>2
<1>4. PICK first \in joined : \A d \in joined : first <= d
  BY <1>3, LeastNumber
<1>5. Min(joined) = first
  <2>1. Min(joined) \in joined /\ \A d \in joined : Min(joined) <= d
    BY <1>4 DEF Min
  <2> QED
    <3>1. Min(joined) \in Nat /\ first \in Nat /\ first <= Min(joined) /\ Min(joined) <= first
      BY <1>3, <1>4, <2>1
    <3> QED
      BY <3>1
<1>6. PICK last \in joined : \A d \in joined : d <= last
  <2>1. joined \subseteq 0..Words
    BY <1>1, <1>2, PoolWords
  <2>2. Largest(joined) \in joined /\ \A d \in joined : d <= Largest(joined)
    BY <1>2, <2>1, LargestIs, PoolWords
  <2> QED
    BY <2>2
<1>7. \A d \in DOMAIN c : d \in joined <=> first <= d /\ d <= last
  <2> TAKE d \in DOMAIN c
  <2>1. d \in joined => first <= d /\ d <= last
    BY <1>4, <1>6
  <2>2. ASSUME first <= d, d <= last, d \notin joined PROVE FALSE
    <3>1. d # b /\ d # first /\ d # last
      BY <1>2, <2>2
    <3>2. CASE d < b
      <4>1. first < b /\ End(first) = b
        BY <1>1, <1>2, <2>2, <3>1, <3>2
      <4>2. first < d /\ End(first) <= d
        BY <1>1, <1>2, <2>2, <3>1
      <4> QED
        BY <1>1, <1>2, <3>2, <4>1, <4>2
    <3>3. CASE b < d
      <4>1. b < last /\ last = End(b)
        BY <1>1, <1>2, <2>2, <3>1, <3>3
      <4>2. End(b) <= d
        BY <1>1, <1>2, <3>3
      <4> QED
        BY <1>1, <1>2, <2>2, <3>1, <4>1, <4>2
    <3> QED
      BY <1>1, <1>2, <3>1, <3>2, <3>3
  <2> QED
    BY <2>1, <2>2
<1>8. Max({e + c[e].size : e \in joined}) = End(last)
  <2> DEFINE ends == {e + c[e].size : e \in joined}
  <2>1. \A x \in ends : \E e \in joined : x = End(e)
    BY DEF End
  <2>2. End(last) \in ends
    BY DEF End
  <2> HIDE DEF ends
  <2>3. \A x \in ends : x \in Nat /\ x <= End(last)
    <3> TAKE x \in ends
    <3>1. PICK e \in joined : x = End(e)
      BY <2>1
    <3>2. e \in DOMAIN c /\ last \in DOMAIN c /\ e <= last
      BY <1>2, <1>6
    <3>3. e = last \/ End(e) <= last
      BY <1>1, <3>2
    <3> QED
      BY <1>1, <3>1, <3>2, <3>3
  <2>4. End(last) \in Nat
    BY <2>2, <2>3
  <2>5. Max(ends) \in ends /\ \A x \in ends : Max(ends) >= x
    BY <2>2, <2>3, <2>4 DEF Max
  <2>6. Max(ends) \in Nat /\ Max(ends) <= End(last) /\ Max(ends) >= End(last)
    BY <2>2, <2>3, <2>5
  <2>7. Max(ends) = End(last)
    BY <2>4, <2>6
  <2> QED
    BY <2>7 DEF ends
<1>9. joined = {e \in DOMAIN c : first <= e /\ e <= last} /\ first <= last
  BY <1>2, <1>4, <1>7
<1> DEFINE size == End(last) - first
<1>10. size \in Nat /\ first + size = last + c[last].size
  <2>1. End(last) \in Nat /\ first \in Nat /\ first < End(last) /\ End(last) = last + c[last].size
    BY <1>1, <1>2, <1>9 DEF End
  <2> QED
    BY <2>1
<1>11. new = [d \in (DOMAIN c \ joined) \cup {first} |->
                IF d \in joined THEN [size |-> size, used |-> no] ELSE c[d]]
  BY <1>b, <1>5, <1>8
<1> HIDE DEF size
<1>12. DOMAIN new = (DOMAIN c \ joined) \cup {first} /\ first \in joined
  BY <1>11
<1>13. new[first] = [size |-> size, used |-> no] /\ \A d \in DOMAIN c \ joined : new[d] = c[d]
  <2>1. first \in (DOMAIN c \ joined) \cup {first} /\ \A d \in DOMAIN c \ joined : d \in (DOMAIN c \ joined) \cup {first}
    OBVIOUS
  <2> QED
    BY <1>11, <1>12, <2>1
<1>14. new[first].size = size /\ new[first].used = no
  BY <1>13
<1>15. first \in DOMAIN c /\ last \in DOMAIN c /\ first <= last
  BY <1>2, <1>9
<1>16. \A d : d \in joined <=> d \in DOMAIN c /\ first <= d /\ d <= last
  BY <1>2, <1>7
<1>17. first + new[first].size = last + c[last].size /\ new[first].size \in Nat /\ new[first].used \in BOOLEAN
  BY <1>10, <1>14
<1>18. Joins(c, first, last, joined, new)
  BY <1>12, <1>13, <1>15, <1>16, <1>17 DEF Joins
<1> QED
  BY <1>18, JoinedTiled DEF new

-----------------------------------------------------------------------------
(* What a walk has passed                                                  *)

Behind(c, n)     == {b \in DOMAIN c : b < n}
UsedBehind(c, n) == [b \in {d \in DOMAIN c : d < n /\ c[d].used} |-> c[b].size]

LEMMA BehindTyped ==
  ASSUME NEW c, Tiled(c), NEW n
  PROVE  /\ IsFiniteSet(Behind(c, n)) /\ Cardinality(Behind(c, n)) \in Nat
         /\ Tallied(UsedBehind(c, n)) /\ Total(UsedBehind(c, n)) \in Nat
<1>1. IsFiniteSet(0..(Words - 1))
  BY PoolWords, FS_Interval
<1>2. Behind(c, n) \subseteq 0..(Words - 1) /\ DOMAIN UsedBehind(c, n) \subseteq 0..(Words - 1)
  BY DEF Tiled, Behind, UsedBehind
<1>3. /\ IsFiniteSet(Behind(c, n)) /\ Cardinality(Behind(c, n)) \in Nat /\ IsFiniteSet(DOMAIN UsedBehind(c, n))
  BY <1>1, <1>2, FS_Subset, FS_CardinalityType
<1>4. \A b \in DOMAIN UsedBehind(c, n) : UsedBehind(c, n)[b] \in Nat
  BY DEF Tiled, UsedBehind
<1>5. Tallied(UsedBehind(c, n))
  BY <1>3, <1>4 DEF Tallied
<1> QED
  BY <1>3, <1>5, TotalInNat

LEMMA NothingBehind ==
  ASSUME NEW c, Tiled(c)
  PROVE  Cardinality(Behind(c, 0)) = 0 /\ Total(UsedBehind(c, 0)) = 0
<1>1. \A b \in DOMAIN c : ~(b < 0)
  BY PoolWords DEF Tiled
<1>2. Behind(c, 0) = {} /\ DOMAIN UsedBehind(c, 0) = {}
  BY <1>1 DEF Behind, UsedBehind
<1> QED
  BY <1>2, FS_EmptySet, NothingToCount

LEMMA AllBehind ==
  ASSUME NEW c, Tiled(c)
  PROVE  Behind(c, Words) = DOMAIN c /\ UsedBehind(c, Words) = [b \in {d \in DOMAIN c : c[d].used} |-> c[b].size]
<1>1. \A b \in DOMAIN c : b < Words
  BY PoolWords DEF Tiled
<1>2. {d \in DOMAIN c : d < Words /\ c[d].used} = {d \in DOMAIN c : c[d].used}
  BY <1>1
<1> QED
  BY <1>1, <1>2 DEF Behind, UsedBehind

LEMMA OneBehind ==
  ASSUME NEW c, Tiled(c), NEW n \in DOMAIN c, NEW m, m = n + c[n].size
  PROVE  /\ m \in DOMAIN c \cup {Words}
         /\ Cardinality(Behind(c, m)) = Cardinality(Behind(c, n)) + 1
         /\ Total(UsedBehind(c, m)) = Total(UsedBehind(c, n)) + IF c[n].used THEN c[n].size ELSE 0
<1>1. /\ n \in Nat /\ c[n].size \in Nat /\ c[n].used \in BOOLEAN /\ m \in Nat /\ n < m /\ m \in DOMAIN c \cup {Words}
      /\ \A d \in DOMAIN c : n < d => m <= d
  BY BlockEnds
<1>2. \A d \in DOMAIN c : d \in Nat
  BY PoolWords DEF Tiled
<1>3. \A d \in DOMAIN c : d < m <=> d < n \/ d = n
  BY <1>1, <1>2
<1>4. Cardinality(Behind(c, m)) = Cardinality(Behind(c, n)) + 1
  <2>1. Behind(c, m) = Behind(c, n) \cup {n} /\ n \notin Behind(c, n)
    BY <1>1, <1>3 DEF Behind
  <2> QED
    BY <2>1, BehindTyped, FS_AddElement
<1>5. Total(UsedBehind(c, m)) = Total(UsedBehind(c, n)) + IF c[n].used THEN c[n].size ELSE 0
  <2> DEFINE f == UsedBehind(c, m)
             g == UsedBehind(c, n)
  <2>1. /\ \A d : d \in DOMAIN f <=> d \in DOMAIN c /\ d < m /\ c[d].used
        /\ \A d : d \in DOMAIN g <=> d \in DOMAIN c /\ d < n /\ c[d].used
        /\ \A d \in DOMAIN f : f[d] = c[d].size
        /\ \A d \in DOMAIN g : g[d] = c[d].size
    BY DEF UsedBehind
  <2>2. Tallied(f) /\ Tallied(g) /\ Total(f) \in Nat /\ Total(g) \in Nat
    BY BehindTyped
  <2> HIDE DEF f, g
  <2>3. n \notin DOMAIN g /\ \A d \in DOMAIN g : d \in DOMAIN f /\ f[d] = g[d]
    BY <1>1, <1>3, <2>1
  <2>4. CASE c[n].used
    <3>1. DOMAIN f = DOMAIN g \cup {n} /\ f[n] = c[n].size
      BY <1>3, <2>1, <2>4
    <3>2. Total(f) = Total(g) + f[n]
      BY <1>1, <2>2, <2>3, <3>1, OneMore
    <3> QED
      BY <2>4, <3>1, <3>2 DEF f, g
  <2>5. CASE ~c[n].used
    <3>1. DOMAIN f = DOMAIN g
      BY <1>3, <2>1, <2>5
    <3>2. Total(f) = Total(g)
      BY <2>3, <3>1, SameTotal
    <3> QED
      BY <2>2, <2>5, <3>2 DEF f, g
  <2> QED
    BY <1>1, <2>4, <2>5
<1> QED
  BY <1>1, <1>4, <1>5

-----------------------------------------------------------------------------
(* What a walk tallies                                                     *)

LEMMA LargerOfTwo ==
  ASSUME NEW a \in Nat, NEW b \in Nat
  PROVE  Max({a, b}) \in Nat /\ Max({a, b}) \in {a, b} /\ Max({a, b}) >= a /\ Max({a, b}) >= b
<1>1. \E x \in {a, b} : \A y \in {a, b} : x >= y
  <2>1. CASE a >= b
    BY <2>1
  <2>2. CASE b >= a
    BY <2>2
  <2> QED
    BY <2>1, <2>2
<1>2. Max({a, b}) \in {a, b} /\ \A y \in {a, b} : Max({a, b}) >= y
  BY <1>1 DEF Max
<1> QED
  BY <1>2

LEMMA BucketsAre ==
  /\ Buckets = 0..Bucket(Words) /\ Bucket(Words) \in Nat /\ IsFiniteSet(Buckets)
  /\ \A size \in Nat : size <= Words => Bucket(size) \in Buckets
<1> DEFINE Powers(size) == {0} \cup {b \in 1 .. size : 2 ^ b <= size}
<1>1. \A size \in Nat : Bucket(size) \in Powers(size) /\ \A b \in Powers(size) : b <= Bucket(size)
  <2> TAKE size \in Nat
  <2> DEFINE S == Powers(size)
  <2>1. S \subseteq 0..size /\ S # {}
    OBVIOUS
  <2>2. Bucket(size) = Max(S)
    BY DEF Bucket
  <2> HIDE DEF S
  <2>3. Largest(S) = Max(S) /\ Largest(S) \in S /\ \A b \in S : b <= Largest(S)
    BY <2>1, LargestIs DEF Largest
  <2> QED
    BY <2>2, <2>3 DEF S
<1>2. \A size \in Nat : Bucket(size) \in Nat
  BY <1>1
<1>3. \A size \in Nat : size <= Words => Powers(size) \subseteq Powers(Words)
  BY PoolWords
<1> HIDE DEF Powers
<1>4. \A size \in Nat : size <= Words => Bucket(size) <= Bucket(Words)
  BY <1>1, <1>3, PoolWords
<1>5. Words \in Nat /\ Buckets = 0..Bucket(Words)
  BY PoolWords DEF Buckets
<1>6. Bucket(Words) \in Nat /\ 0 \in Nat
  BY <1>2, <1>5
<1>7. IsFiniteSet(0..Bucket(Words))
  BY <1>6, FS_Interval
<1> QED
  BY <1>2, <1>4, <1>5, <1>6, <1>7

LEMMA SizesTallied ==
  ASSUME NEW sizes \in [Buckets -> Nat]
  PROVE  Tallied(sizes) /\ Total(sizes) \in Nat
<1>1. Tallied(sizes)
  BY BucketsAre DEF Tallied
<1> QED
  BY <1>1, TotalInNat

LEMMA NoSizesYet == NoSizes \in [Buckets -> Nat] /\ Total(NoSizes) = 0
<1>1. NoSizes \in [Buckets -> Nat] /\ \A b \in DOMAIN NoSizes : NoSizes[b] = 0
  BY DEF NoSizes
<1>2. \A x : x \notin Units(NoSizes)
  BY <1>1, UnitsOf
<1>3. Units(NoSizes) = {}
  BY <1>2
<1> QED
  BY <1>1, <1>3, FS_EmptySet DEF Total

LEMMA SizeNoted ==
  ASSUME NEW sizes \in [Buckets -> Nat], NEW size \in Nat, size <= Words
  PROVE  /\ NoteSize(sizes, size) \in [Buckets -> Nat]
         /\ Total(NoteSize(sizes, size)) = Total(sizes) + size
<1> DEFINE i   == Bucket(size)
           new == NoteSize(sizes, size)
<1>1. i \in Buckets
  BY BucketsAre
<1>2. new = [sizes EXCEPT ![i] = sizes[i] + size]
  BY DEF NoteSize
<1> HIDE DEF i, new
<1>3. new \in [Buckets -> Nat] /\ new[i] = sizes[i] + size /\ \A b \in Buckets \ {i} : new[b] = sizes[b]
  BY <1>1, <1>2
<1>4. Tallied(sizes) /\ Total(sizes) \in Nat /\ sizes[i] \in Nat
  BY <1>1, SizesTallied
<1>5. DOMAIN sizes = Buckets /\ DOMAIN new = Buckets /\ new[i] \in Nat
  BY <1>1, <1>3
<1>6. Total(new) + sizes[i] = Total(sizes) + new[i] /\ Total(new) \in Nat
  BY <1>1, <1>3, <1>4, <1>5, OneChanged
<1>7. Total(new) = Total(sizes) + size
  BY <1>3, <1>4, <1>6
<1> QED
  BY <1>3, <1>7 DEF new

Tallies == [blocks : Nat, used : Nat, free : Nat, largest : Nat]

LEMMA BlockTallied ==
  ASSUME NEW y \in Tallies, NEW h, h.size \in Nat, h.used \in BOOLEAN, y.largest <= y.free
  PROVE  /\ TallyBlock(y, h) \in Tallies /\ TallyBlock(y, h).blocks = y.blocks + 1
         /\ TallyBlock(y, h).used = y.used + IF h.used THEN h.size ELSE 0
         /\ TallyBlock(y, h).free = y.free + IF h.used THEN 0 ELSE h.size
         /\ TallyBlock(y, h).largest <= TallyBlock(y, h).free
<1> DEFINE new == TallyBlock(y, h)
<1>1. y.blocks \in Nat /\ y.used \in Nat /\ y.free \in Nat /\ y.largest \in Nat
  BY DEF Tallies
<1>2. /\ Max({y.largest, h.size}) \in Nat
      /\ Max({y.largest, h.size}) = y.largest \/ Max({y.largest, h.size}) = h.size
  BY <1>1, LargerOfTwo
<1>3. /\ new.blocks = y.blocks + 1 /\ new.used = IF h.used THEN y.used + h.size ELSE y.used
      /\ new.free = IF h.used THEN y.free ELSE y.free + h.size
      /\ new.largest = IF h.used THEN y.largest ELSE Max({y.largest, h.size})
      /\ new = [blocks |-> new.blocks, used |-> new.used, free |-> new.free, largest |-> new.largest]
  BY DEF TallyBlock
<1> HIDE DEF new
<1>4. new.blocks \in Nat /\ new.used \in Nat /\ new.free \in Nat /\ new.largest \in Nat
  BY <1>1, <1>2, <1>3
<1>5. new \in Tallies
  BY <1>3, <1>4 DEF Tallies
<1>6. new.largest <= new.free
  BY <1>1, <1>2, <1>3
<1>7. /\ new.used = y.used + IF h.used THEN h.size ELSE 0
      /\ new.free = y.free + IF h.used THEN 0 ELSE h.size
  BY <1>1, <1>3
<1> QED
  BY <1>3, <1>5, <1>6, <1>7 DEF new

-----------------------------------------------------------------------------
(* The walks and the cache                                                 *)

Walks == [pool : Pools, cursor : Nat, tally : Tallies, sizes : [Buckets -> Nat],
          capped : BOOLEAN, ok : BOOLEAN, quiet : BOOLEAN]

Caches == [walked : BOOLEAN, capped : BOOLEAN, blocks : Nat, used : Nat, free : Nat, largest : Nat]

Stores     == {"blocks", "used", "free", "largest", "sizes"}
WalkPlaces == {"out", "walk", "walked", "capped", "stored"} \cup Stores

OccupancyTypes ==
  /\ DOMAIN chain = Pools /\ \A p \in Pools : Tiled(chain[p])
  /\ walk \in [Refreshers -> Walks] /\ at \in [Refreshers -> WalkPlaces]
  /\ cache \in [Pools -> Caches] /\ DOMAIN whole = Pools /\ overlapped \in BOOLEAN

(* A walk has counted every word up to its cursor; and a walk over a pool  *)
(* that has not moved stands where a block begins, and counted the blocks. *)
Counted(w) ==
  /\ w.cursor <= Words /\ w.tally.used + w.tally.free = w.cursor
  /\ w.tally.largest <= w.tally.free /\ Total(w.sizes) = w.tally.used

Aligned(c, w) ==
  /\ w.cursor \in DOMAIN c \cup {Words}
  /\ w.tally.blocks = Cardinality(Behind(c, w.cursor)) /\ w.tally.used = Total(UsedBehind(c, w.cursor))

Result(w) == [tally |-> w.tally, sizes |-> w.sizes]

WalkerInv(t) ==
  /\ Counted(walk[t]) /\ (walk[t].quiet => Aligned(chain[walk[t].pool], walk[t]))
  /\ at[t] \notin {"out", "walk"} /\ Kept(walk[t]) => Result(walk[t]) \in whole[walk[t].pool]
  /\ at[t] \in Stores => Kept(walk[t])

WholeInv ==
  \A p \in Pools : \A s \in whole[p] :
    s.tally.used + s.tally.free = Words /\ s.tally.largest <= s.tally.free /\ Total(s.sizes) = s.tally.used

CacheInv == \A p \in Pools, f \in Figures : cache[p][f] \in {0} \cup {s.tally[f] : s \in whole[p]}

(* While one thread stores, what it has stored is its own; the flag is up  *)
(* before the figures are there.                                           *)
Unfinished == {"capped", "blocks", "used", "free"}

StoresInv ==
  overlapped \/ (/\ \A t, u \in Refreshers : at[t] # "out" /\ at[u] # "out" => t = u
                 /\ \A p \in Pools : cache[p].walked => \/ cache[p].used + cache[p].free = Words
                                                        \/ \E t \in Refreshers : walk[t].pool = p /\ at[t] \in Unfinished
                 /\ \A t \in Refreshers : at[t] = "capped" => (cache[walk[t].pool].walked <=> Kept(walk[t]))
                 /\ \A t \in Refreshers : at[t] = "free" => cache[walk[t].pool].used = walk[t].tally.used)

OccupancyInv == OccupancyTypes /\ (\A t \in Refreshers : WalkerInv(t)) /\ WholeInv /\ CacheInv /\ StoresInv

LEMMA FiguresOf == Figures = {"blocks", "used", "free", "largest"}
BY DEF Figures, NoTally

LEMMA WalkTyped ==
  ASSUME OccupancyTypes, NEW t \in Refreshers
  PROVE  /\ walk[t] \in Walks /\ walk[t].pool \in Pools /\ walk[t].cursor \in Nat
         /\ walk[t].tally \in Tallies /\ walk[t].sizes \in [Buckets -> Nat]
         /\ walk[t].tally.blocks \in Nat /\ walk[t].tally.used \in Nat /\ walk[t].tally.free \in Nat
         /\ walk[t].tally.largest \in Nat
         /\ at[t] \in WalkPlaces /\ Tiled(chain[walk[t].pool]) /\ cache[walk[t].pool] \in Caches
<1>1. walk[t] \in Walks /\ at[t] \in WalkPlaces
  BY DEF OccupancyTypes
<1>2. walk[t].pool \in Pools /\ walk[t].cursor \in Nat /\ walk[t].tally \in Tallies /\ walk[t].sizes \in [Buckets -> Nat]
  BY <1>1 DEF Walks
<1>3. /\ walk[t].tally.blocks \in Nat /\ walk[t].tally.used \in Nat /\ walk[t].tally.free \in Nat
      /\ walk[t].tally.largest \in Nat
  BY <1>2 DEF Tallies
<1> QED
  BY <1>1, <1>2, <1>3 DEF OccupancyTypes

(* A walk that stands still in a pool that stands still.                   *)
LEMMA WalkerStays ==
  ASSUME NEW t \in Refreshers, WalkerInv(t), walk'[t] = walk[t], at'[t] = at[t],
         chain'[walk[t].pool] = chain[walk[t].pool], whole[walk[t].pool] \subseteq whole'[walk[t].pool]
  PROVE  WalkerInv(t)'
BY DEF WalkerInv

LEMMA CacheStays ==
  ASSUME CacheInv, cache' = cache, \A p \in Pools : whole[p] \subseteq whole'[p]
  PROVE  CacheInv'
BY DEF CacheInv, Figures, NoTally

(* A thread goes on with its walk, or from it.                             *)
LEMMA WalkStep ==
  ASSUME OccupancyInv, NEW t \in Refreshers, NEW to \in WalkPlaces, NEW w \in Walks,
         at' = [at EXCEPT ![t] = to], walk' = [walk EXCEPT ![t] = w],
         chain' = chain, cache' = cache, overlapped' = overlapped,
         DOMAIN whole' = Pools, \A p \in Pools : whole[p] \subseteq whole'[p], WholeInv',
         at[t] \notin Unfinished, to \notin Unfinished, at[t] # "out", WalkerInv(t)'
  PROVE  OccupancyInv'
<1>1. OccupancyTypes /\ WholeInv /\ CacheInv /\ StoresInv /\ \A u \in Refreshers : WalkerInv(u)
  BY DEF OccupancyInv
<1>2. /\ at'[t] = to /\ walk'[t] = w
      /\ \A u \in Refreshers \ {t} : at'[u] = at[u] /\ walk'[u] = walk[u]
  BY <1>1 DEF OccupancyTypes
<1>3. OccupancyTypes'
  BY <1>1 DEF OccupancyTypes
<1>4. \A u \in Refreshers : WalkerInv(u)'
  <2> TAKE u \in Refreshers
  <2>1. CASE u = t
    BY <2>1
  <2>2. CASE u # t
    <3>1. walk[u].pool \in Pools
      BY <1>1, WalkTyped
    <3> QED
      BY <1>1, <1>2, <2>2, <3>1, WalkerStays
  <2> QED
    BY <2>1, <2>2
<1>5. CacheInv'
  BY <1>1, CacheStays
<1>6. StoresInv'
  <2>1. CASE overlapped
    BY <2>1 DEF StoresInv
  <2>2. CASE ~overlapped
    <3>1. \A u, v \in Refreshers : at'[u] # "out" /\ at'[v] # "out" => u = v
      BY <1>1, <1>2, <2>2 DEF StoresInv
    <3>2. \A u \in Refreshers : at[u] \in Unfinished \/ at'[u] \in Unfinished => u # t
      BY <1>2
    <3>3. \A u \in Refreshers : /\ at'[u] = "capped" => (cache[walk'[u].pool].walked <=> Kept(walk'[u]))
                                /\ at'[u] = "free" => cache[walk'[u].pool].used = walk'[u].tally.used
      BY <1>1, <1>2, <2>2, <3>2 DEF StoresInv, Unfinished
    <3>4. ASSUME NEW p \in Pools, cache[p].walked
          PROVE  \/ cache[p].used + cache[p].free = Words
                 \/ \E u \in Refreshers : walk'[u].pool = p /\ at'[u] \in Unfinished
      <4>1. \/ cache[p].used + cache[p].free = Words
            \/ \E u \in Refreshers : walk[u].pool = p /\ at[u] \in Unfinished
        BY <1>1, <2>2, <3>4 DEF StoresInv
      <4> QED
        BY <1>2, <3>2, <4>1
    <3> QED
      BY <3>1, <3>3, <3>4 DEF StoresInv, Kept
  <2> QED
    BY <2>1, <2>2
<1> QED
  BY <1>3, <1>4, <1>5, <1>6 DEF OccupancyInv

(* A thread stores one thing in the cache.                                 *)
StoresOne(t, to, k) ==
  /\ at' = [at EXCEPT ![t] = to] /\ cache' = [cache EXCEPT ![walk[t].pool] = k]
  /\ walk' = walk /\ chain' = chain /\ whole' = whole /\ overlapped' = overlapped
  /\ at[t] \notin {"out", "walk"} /\ to \notin {"out", "walk"} /\ (to \in Stores => Kept(walk[t]))
  /\ \A f \in Figures : k[f] = cache[walk[t].pool][f] \/ (Kept(walk[t]) /\ k[f] = walk[t].tally[f])
  /\ overlapped \/ (/\ k.walked => k.used + k.free = Words \/ to \in Unfinished
                    /\ to = "capped" => (k.walked <=> Kept(walk[t]))
                    /\ to = "free" => k.used = walk[t].tally.used)

LEMMA StoreStep ==
  ASSUME OccupancyInv, NEW t \in Refreshers, NEW to \in WalkPlaces, NEW k \in Caches, StoresOne(t, to, k)
  PROVE  OccupancyInv'
<1> DEFINE p == walk[t].pool
<1>a. p = walk[t].pool
  OBVIOUS
<1> HIDE DEF p
<1>0. /\ at' = [at EXCEPT ![t] = to] /\ cache' = [cache EXCEPT ![p] = k]
      /\ walk' = walk /\ chain' = chain /\ whole' = whole /\ overlapped' = overlapped
      /\ at[t] \notin {"out", "walk"} /\ to \notin {"out", "walk"} /\ (to \in Stores => Kept(walk[t]))
      /\ \A f \in Figures : k[f] = cache[p][f] \/ (Kept(walk[t]) /\ k[f] = walk[t].tally[f])
      /\ overlapped \/ (/\ k.walked => k.used + k.free = Words \/ to \in Unfinished
                        /\ to = "capped" => (k.walked <=> Kept(walk[t]))
                        /\ to = "free" => k.used = walk[t].tally.used)
  BY <1>a DEF StoresOne
<1> USE <1>0, <1>a
<1>1. OccupancyTypes /\ WholeInv /\ CacheInv /\ StoresInv /\ \A u \in Refreshers : WalkerInv(u)
  BY DEF OccupancyInv
<1>2. p \in Pools
  BY <1>1, WalkTyped
<1>3. /\ at'[t] = to /\ \A u \in Refreshers \ {t} : at'[u] = at[u]
      /\ cache'[p] = k /\ \A q \in Pools \ {p} : cache'[q] = cache[q]
  BY <1>1, <1>2 DEF OccupancyTypes
<1>4. OccupancyTypes'
  BY <1>1, <1>2 DEF OccupancyTypes
<1>5. \A u \in Refreshers : WalkerInv(u)'
  <2> TAKE u \in Refreshers
  <2>1. CASE u = t
    BY <1>1, <1>3, <2>1 DEF WalkerInv
  <2>2. CASE u # t
    BY <1>1, <1>3, <2>2, WalkerStays
  <2> QED
    BY <2>1, <2>2
<1>6. CacheInv'
  <2>1. ASSUME NEW q \in Pools, NEW f \in Figures
        PROVE  cache'[q][f] \in {0} \cup {s.tally[f] : s \in whole[q]}
    <3>1. cache[q][f] \in {0} \cup {s.tally[f] : s \in whole[q]}
      BY <1>1 DEF CacheInv
    <3>2. CASE cache'[q][f] = cache[q][f]
      BY <3>1, <3>2
    <3>3. CASE q = p /\ Kept(walk[t]) /\ k[f] = walk[t].tally[f]
      <4>1. Result(walk[t]) \in whole[p] /\ Result(walk[t]).tally = walk[t].tally
        BY <1>1, <3>3 DEF WalkerInv, Result
      <4> QED
        BY <1>3, <3>3, <4>1
    <3> QED
      BY <1>3, <3>2, <3>3
  <2> QED
    BY <2>1 DEF CacheInv, Figures, NoTally
<1>7. StoresInv'
  <2>1. CASE overlapped
    BY <2>1 DEF StoresInv
  <2>2. CASE ~overlapped
    <3>1. /\ \A u, v \in Refreshers : at[u] # "out" /\ at[v] # "out" => u = v
          /\ \A q \in Pools : cache[q].walked => \/ cache[q].used + cache[q].free = Words
                                                 \/ \E u \in Refreshers : walk[u].pool = q /\ at[u] \in Unfinished
          /\ \A u \in Refreshers : at[u] = "capped" => (cache[walk[u].pool].walked <=> Kept(walk[u]))
          /\ \A u \in Refreshers : at[u] = "free" => cache[walk[u].pool].used = walk[u].tally.used
      BY <1>1, <2>2 DEF StoresInv
    <3>2. \A u \in Refreshers : at'[u] # "out" => u = t
      BY <1>3, <3>1
    <3>3. \A u, v \in Refreshers : at'[u] # "out" /\ at'[v] # "out" => u = v
      BY <3>2
    <3>4. \A u \in Refreshers : at'[u] = "capped" => (cache'[walk[u].pool].walked <=> Kept(walk[u]))
      BY <1>3, <2>2, <3>2
    <3>5. \A u \in Refreshers : at'[u] = "free" => cache'[walk[u].pool].used = walk[u].tally.used
      BY <1>3, <2>2, <3>2
    <3>6. ASSUME NEW q \in Pools, cache'[q].walked
          PROVE  \/ cache'[q].used + cache'[q].free = Words
                 \/ \E u \in Refreshers : walk[u].pool = q /\ at'[u] \in Unfinished
      <4>1. CASE q = p
        BY <1>3, <2>2, <3>6, <4>1
      <4>2. CASE q # p
        BY <1>3, <3>1, <3>6, <4>2
      <4> QED
        BY <4>1, <4>2
    <3> QED
      BY <2>2, <3>3, <3>4, <3>5, <3>6 DEF StoresInv, Kept
  <2> QED
    BY <2>1, <2>2
<1>8. WholeInv'
  BY <1>1 DEF WholeInv
<1> QED
  BY <1>4, <1>5, <1>6, <1>7, <1>8 DEF OccupancyInv

-----------------------------------------------------------------------------
(* Every step                                                              *)

LEMMA FreshWalk ==
  ASSUME NEW p \in Pools, NEW c, Tiled(c)
  PROVE  Fresh(p) \in Walks /\ Counted(Fresh(p)) /\ Aligned(c, Fresh(p)) /\ Fresh(p).pool = p
<1> DEFINE w == Fresh(p)
<1>1. /\ w = [pool |-> p, cursor |-> 0, tally |-> NoTally, sizes |-> NoSizes,
              capped |-> FALSE, ok |-> TRUE, quiet |-> TRUE]
      /\ w.pool = p /\ w.cursor = 0 /\ w.tally = NoTally /\ w.sizes = NoSizes
  BY DEF Fresh
<1>2. /\ NoTally \in Tallies /\ NoTally.blocks = 0 /\ NoTally.used = 0 /\ NoTally.free = 0 /\ NoTally.largest = 0
  BY DEF NoTally, Tallies
<1>3. w \in Walks
  BY <1>1, <1>2, NoSizesYet DEF Walks
<1> HIDE DEF w
<1>4. Counted(w)
  BY <1>1, <1>2, NoSizesYet, PoolWords DEF Counted
<1>5. 0 \in DOMAIN c
  BY DEF Tiled
<1>6. Aligned(c, w)
  BY <1>1, <1>2, <1>5, NothingBehind DEF Aligned
<1> QED
  BY <1>1, <1>3, <1>4, <1>6 DEF w

LEMMA OccupancyStart == PoolInit => OccupancyInv
<1> SUFFICES ASSUME PoolInit PROVE OccupancyInv
  OBVIOUS
<1>1. /\ chain \in [Pools -> Tilings] /\ at = [t \in Refreshers |-> "out"] /\ walk = [t \in Refreshers |-> Fresh(Main)]
      /\ cache = [p \in Pools |-> NoCache] /\ whole = [p \in Pools |-> {}] /\ overlapped = FALSE
  BY DEF PoolInit
<1>2. \A p \in Pools : Tiled(chain[p])
  BY <1>1, CutsTile
<1>3. /\ NoCache \in Caches /\ ~NoCache.walked /\ NoCache["blocks"] = 0 /\ NoCache["used"] = 0
      /\ NoCache["free"] = 0 /\ NoCache["largest"] = 0
  BY DEF NoCache, Caches
<1>4. Fresh(Main) \in Walks /\ Counted(Fresh(Main)) /\ Aligned(chain[Main], Fresh(Main)) /\ Fresh(Main).pool = Main
  BY <1>2, PoolWords, FreshWalk
<1>5. OccupancyTypes
  <2>1. walk \in [Refreshers -> Walks] /\ at \in [Refreshers -> WalkPlaces]
    BY <1>1, <1>4 DEF WalkPlaces
  <2>2. cache \in [Pools -> Caches]
    BY <1>1, <1>3
  <2> QED
    BY <1>1, <1>2, <2>1, <2>2 DEF OccupancyTypes
<1>6. \A t \in Refreshers : WalkerInv(t)
  <2> TAKE t \in Refreshers
  <2>1. walk[t] = Fresh(Main) /\ at[t] = "out"
    BY <1>1
  <2> QED
    BY <1>4, <2>1 DEF WalkerInv, Stores
<1>7. WholeInv
  BY <1>1 DEF WholeInv
<1>8. CacheInv
  <2> SUFFICES ASSUME NEW p \in Pools, NEW f \in Figures PROVE cache[p][f] = 0
    BY DEF CacheInv
  <2>1. cache[p] = NoCache
    BY <1>1
  <2> QED
    BY <1>3, <2>1, FiguresOf
<1>9. StoresInv
  <2>1. \A t \in Refreshers : at[t] = "out"
    BY <1>1
  <2>2. \A p \in Pools : ~cache[p].walked
    BY <1>1, <1>3
  <2> QED
    BY <2>1, <2>2 DEF StoresInv
<1> QED
  BY <1>5, <1>6, <1>7, <1>8, <1>9 DEF OccupancyInv

(* The engine splits and merges under the walks.                           *)
LEMMA MovedKeeps ==
  ASSUME OccupancyInv, NEW p \in Pools, NEW blocks, Moved(p, blocks), Tiled(blocks)
  PROVE  OccupancyInv'
<1>1. OccupancyTypes /\ WholeInv /\ CacheInv /\ StoresInv /\ \A u \in Refreshers : WalkerInv(u)
  BY DEF OccupancyInv
<1>2. /\ chain' = [chain EXCEPT ![p] = blocks]
      /\ walk' = [t \in Refreshers |-> [walk[t] EXCEPT !.quiet = walk[t].quiet /\ walk[t].pool /= p]]
      /\ at' = at /\ cache' = cache /\ whole' = whole /\ overlapped' = overlapped
  BY DEF Moved
<1>3. DOMAIN chain' = Pools /\ chain'[p] = blocks /\ \A q \in Pools \ {p} : chain'[q] = chain[q]
  BY <1>1, <1>2 DEF OccupancyTypes
<1>4. ASSUME NEW t \in Refreshers
      PROVE  /\ walk'[t] \in Walks /\ walk'[t].pool = walk[t].pool /\ walk'[t].cursor = walk[t].cursor
             /\ walk'[t].tally = walk[t].tally /\ walk'[t].sizes = walk[t].sizes
             /\ (Kept(walk'[t]) <=> Kept(walk[t]))
             /\ (walk'[t].quiet => walk[t].quiet /\ walk[t].pool # p)
  <2> DEFINE w == walk[t]
  <2>1. w \in Walks
    BY <1>1 DEF OccupancyTypes
  <2>2. \A q \in BOOLEAN : /\ [w EXCEPT !.quiet = q] \in Walks /\ [w EXCEPT !.quiet = q].pool = w.pool
                           /\ [w EXCEPT !.quiet = q].cursor = w.cursor /\ [w EXCEPT !.quiet = q].tally = w.tally
                           /\ [w EXCEPT !.quiet = q].sizes = w.sizes
                           /\ [w EXCEPT !.quiet = q].ok = w.ok /\ [w EXCEPT !.quiet = q].capped = w.capped
                           /\ [w EXCEPT !.quiet = q].quiet = q
    BY <2>1 DEF Walks
  <2>3. walk'[t] = [w EXCEPT !.quiet = w.quiet /\ w.pool /= p]
    BY <1>2
  <2>4. (w.quiet /\ w.pool /= p) \in BOOLEAN
    OBVIOUS
  <2> HIDE DEF w
  <2>5. PICK q \in BOOLEAN : q = (w.quiet /\ w.pool /= p) /\ walk'[t] = [w EXCEPT !.quiet = q]
    BY <2>3, <2>4
  <2>6. /\ walk'[t] \in Walks /\ walk'[t].pool = w.pool /\ walk'[t].cursor = w.cursor /\ walk'[t].tally = w.tally
        /\ walk'[t].sizes = w.sizes
    BY <2>2, <2>5
  <2>7. walk'[t].ok = w.ok /\ walk'[t].capped = w.capped /\ walk'[t].quiet = q
    BY <2>2, <2>5
  <2>8. Kept(walk'[t]) <=> Kept(w)
    BY <2>7 DEF Kept
  <2> QED
    BY <2>5, <2>6, <2>7, <2>8 DEF w
<1>5. OccupancyTypes'
  <2>1. walk' \in [Refreshers -> Walks]
    BY <1>2, <1>4
  <2>2. \A q \in Pools : Tiled(chain'[q])
    BY <1>1, <1>3 DEF OccupancyTypes
  <2> QED
    BY <1>1, <1>2, <1>3, <2>1, <2>2 DEF OccupancyTypes
<1>6. \A t \in Refreshers : WalkerInv(t)'
  <2> TAKE t \in Refreshers
  <2>1. WalkerInv(t) /\ walk[t].pool \in Pools
    BY <1>1, WalkTyped
  <2>2. Counted(walk'[t])
    BY <1>4, <2>1 DEF WalkerInv, Counted
  <2>3. walk'[t].quiet => Aligned(chain'[walk'[t].pool], walk'[t])
    BY <1>3, <1>4, <2>1 DEF WalkerInv, Aligned
  <2>4. at'[t] \notin {"out", "walk"} /\ Kept(walk'[t]) => Result(walk'[t]) \in whole'[walk'[t].pool]
    BY <1>2, <1>4, <2>1 DEF WalkerInv, Result
  <2>5. at'[t] \in Stores => Kept(walk'[t])
    BY <1>2, <1>4, <2>1 DEF WalkerInv
  <2> QED
    BY <2>2, <2>3, <2>4, <2>5 DEF WalkerInv, Stores
<1>7. WholeInv' /\ CacheInv'
  BY <1>1, <1>2, CacheStays DEF WholeInv
<1>8. StoresInv'
  <2>1. CASE overlapped
    BY <1>2, <2>1 DEF StoresInv
  <2>2. CASE ~overlapped
    <3>1. /\ \A t, u \in Refreshers : at[t] # "out" /\ at[u] # "out" => t = u
          /\ \A q \in Pools : cache[q].walked => \/ cache[q].used + cache[q].free = Words
                                                 \/ \E t \in Refreshers : walk[t].pool = q /\ at[t] \in Unfinished
          /\ \A t \in Refreshers : at[t] = "capped" => (cache[walk[t].pool].walked <=> Kept(walk[t]))
          /\ \A t \in Refreshers : at[t] = "free" => cache[walk[t].pool].used = walk[t].tally.used
      BY <1>1, <2>2 DEF StoresInv
    <3>2. \A q \in Pools : cache'[q].walked => \/ cache'[q].used + cache'[q].free = Words
                                               \/ \E t \in Refreshers : walk'[t].pool = q /\ at'[t] \in Unfinished
      BY <1>2, <1>4, <3>1
    <3>3. \A t \in Refreshers : at'[t] = "capped" => (cache'[walk'[t].pool].walked <=> Kept(walk'[t]))
      BY <1>2, <1>4, <3>1
    <3>4. \A t \in Refreshers : at'[t] = "free" => cache'[walk'[t].pool].used = walk'[t].tally.used
      BY <1>2, <1>4, <3>1
    <3> QED
      BY <1>2, <3>1, <3>2, <3>3, <3>4 DEF StoresInv, Unfinished, Kept
  <2> QED
    BY <2>1, <2>2
<1> QED
  BY <1>5, <1>6, <1>7, <1>8 DEF OccupancyInv

LEMMA EngineKeeps ==
  ASSUME OccupancyInv, NEW p \in Pools, NEW b \in DOMAIN chain[p],
         EngineFrees(p, b) \/ \E size \in Header..Words : EngineAllocates(p, b, size)
  PROVE  OccupancyInv'
<1> DEFINE c == chain[p]
<1>1. Tiled(c)
  BY DEF OccupancyInv, OccupancyTypes
<1>2. CASE EngineFrees(p, b)
  <2>1. Moved(p, Freed(c, b, FALSE))
    BY <1>2 DEF EngineFrees, Freed, Neighbours
  <2>2. Tiled(Freed(c, b, FALSE))
    BY <1>1, FreedTiled
  <2> QED
    BY <2>1, <2>2, MovedKeeps
<1>3. ASSUME NEW size \in Header..Words, EngineAllocates(p, b, size) PROVE OccupancyInv'
  <2>1. /\ Moved(p, Allocated(c, b, size, TRUE, FALSE, c[b].size - size))
        /\ size = c[b].size \/ size + Header <= c[b].size
    BY <1>3 DEF EngineAllocates, Allocated
  <2>2. Tiled(Allocated(c, b, size, TRUE, FALSE, c[b].size - size))
    BY <1>1, <2>1, AllocatedTiled
  <2> QED
    BY <2>1, <2>2, MovedKeeps
<1> QED
  BY <1>2, <1>3

LEMMA OneThread ==
  ASSUME OccupancyInv, NEW t \in Refreshers
  PROVE  OccupancyTypes /\ WholeInv /\ CacheInv /\ StoresInv /\ WalkerInv(t) /\ Tiled(chain[walk[t].pool])
BY WalkTyped DEF OccupancyInv

LEMMA RefreshKeeps ==
  ASSUME OccupancyInv, NEW t \in Refreshers, Refresh(t)
  PROVE  OccupancyInv'
<1>1. OccupancyTypes /\ WholeInv /\ CacheInv /\ StoresInv /\ \A u \in Refreshers : WalkerInv(u)
  BY DEF OccupancyInv
<1>2. /\ at[t] = "out" /\ at' = [at EXCEPT ![t] = "walk"] /\ walk' = [walk EXCEPT ![t] = Fresh(Main)]
      /\ (overlapped' <=> (overlapped \/ \E u \in Refreshers : at[u] /= "out")) /\ overlapped' \in BOOLEAN
      /\ chain' = chain /\ cache' = cache /\ whole' = whole
  BY DEF Refresh, Goes
<1>3. Fresh(Main) \in Walks /\ Counted(Fresh(Main)) /\ Aligned(chain[Main], Fresh(Main)) /\ Fresh(Main).pool = Main
  BY <1>1, PoolWords, FreshWalk DEF OccupancyTypes
<1>4. /\ at'[t] = "walk" /\ walk'[t] = Fresh(Main)
      /\ \A u \in Refreshers \ {t} : at'[u] = at[u] /\ walk'[u] = walk[u]
  BY <1>1, <1>2 DEF OccupancyTypes
<1>5. OccupancyTypes'
  <2>1. at' \in [Refreshers -> WalkPlaces] /\ walk' \in [Refreshers -> Walks]
    BY <1>1, <1>2, <1>3 DEF OccupancyTypes, WalkPlaces
  <2> QED
    BY <1>1, <1>2, <2>1 DEF OccupancyTypes
<1>6. \A u \in Refreshers : WalkerInv(u)'
  <2> TAKE u \in Refreshers
  <2>1. CASE u = t
    BY <1>2, <1>3, <1>4, <2>1 DEF WalkerInv, Stores
  <2>2. CASE u # t
    BY <1>1, <1>2, <1>4, <2>2, WalkerStays
  <2> QED
    BY <2>1, <2>2
<1>7. WholeInv' /\ CacheInv'
  BY <1>1, <1>2, CacheStays DEF WholeInv
<1>8. StoresInv'
  <2>1. CASE overlapped'
    BY <2>1 DEF StoresInv
  <2>2. CASE ~overlapped'
    <3>1. ~overlapped /\ \A u \in Refreshers : at[u] = "out"
      BY <1>2, <2>2
    <3>2. \A q \in Pools : cache[q].walked => cache[q].used + cache[q].free = Words
      BY <1>1, <3>1 DEF StoresInv, Unfinished
    <3>3. \A u \in Refreshers : at'[u] # "out" => u = t
      BY <1>4, <3>1
    <3>4. \A u \in Refreshers : at'[u] # "capped" /\ at'[u] # "free"
      BY <1>4, <3>1
    <3> QED
      BY <1>2, <3>2, <3>3, <3>4 DEF StoresInv
  <2> QED
    BY <2>1, <2>2
<1> QED
  BY <1>5, <1>6, <1>7, <1>8 DEF OccupancyInv

(* The walk is given up, cut short, or over.                               *)
LEMMA LeaveKeeps ==
  ASSUME OccupancyInv, NEW t \in Refreshers, Refused(t) \/ Capped(t)
  PROVE  OccupancyInv'
<1>1. OccupancyTypes /\ WholeInv /\ CacheInv /\ WalkerInv(t)
  BY OneThread
<1>2. PICK yes \in BOOLEAN, no \in BOOLEAN :
        /\ yes = TRUE /\ no = FALSE
        /\ walk' = [walk EXCEPT ![t].ok = no] \/ walk' = [walk EXCEPT ![t].capped = yes]
  BY DEF Refused, Capped
<1>3. /\ at[t] = "walk" /\ at' = [at EXCEPT ![t] = "walked"]
      /\ chain' = chain /\ cache' = cache /\ whole' = whole /\ overlapped' = overlapped
  BY DEF Refused, Capped, Goes
<1>4. walk[t] \in Walks
  BY <1>1, WalkTyped
<1>5. \E w \in Walks : /\ walk' = [walk EXCEPT ![t] = w] /\ ~Kept(w)
                       /\ w.pool = walk[t].pool /\ w.cursor = walk[t].cursor /\ w.tally = walk[t].tally
                       /\ w.sizes = walk[t].sizes /\ w.quiet = walk[t].quiet
  <2>1. \A b \in BOOLEAN : /\ [walk[t] EXCEPT !.ok = b] \in Walks /\ [walk[t] EXCEPT !.ok = b].pool = walk[t].pool
                           /\ [walk[t] EXCEPT !.ok = b].cursor = walk[t].cursor
                           /\ [walk[t] EXCEPT !.ok = b].tally = walk[t].tally
                           /\ [walk[t] EXCEPT !.ok = b].sizes = walk[t].sizes
                           /\ [walk[t] EXCEPT !.ok = b].quiet = walk[t].quiet
                           /\ [walk[t] EXCEPT !.ok = b].ok = b
    BY <1>4 DEF Walks
  <2>2. \A b \in BOOLEAN : /\ [walk[t] EXCEPT !.capped = b] \in Walks /\ [walk[t] EXCEPT !.capped = b].pool = walk[t].pool
                           /\ [walk[t] EXCEPT !.capped = b].cursor = walk[t].cursor
                           /\ [walk[t] EXCEPT !.capped = b].tally = walk[t].tally
                           /\ [walk[t] EXCEPT !.capped = b].sizes = walk[t].sizes
                           /\ [walk[t] EXCEPT !.capped = b].quiet = walk[t].quiet
                           /\ [walk[t] EXCEPT !.capped = b].capped = b
    BY <1>4 DEF Walks
  <2>3. CASE walk' = [walk EXCEPT ![t].ok = no]
    <3> DEFINE w == [walk[t] EXCEPT !.ok = no]
    <3>1. walk' = [walk EXCEPT ![t] = w]
      BY <2>3
    <3>2. /\ w \in Walks /\ w.pool = walk[t].pool /\ w.cursor = walk[t].cursor /\ w.tally = walk[t].tally
          /\ w.sizes = walk[t].sizes
      BY <2>1
    <3>3. w.quiet = walk[t].quiet /\ w.ok = no
      BY <2>1
    <3> HIDE DEF w
    <3>4. ~Kept(w)
      BY <1>2, <3>3 DEF Kept
    <3> QED
      BY <3>1, <3>2, <3>3, <3>4
  <2>4. CASE walk' = [walk EXCEPT ![t].capped = yes]
    <3> DEFINE w == [walk[t] EXCEPT !.capped = yes]
    <3>1. walk' = [walk EXCEPT ![t] = w]
      BY <2>4
    <3>2. /\ w \in Walks /\ w.pool = walk[t].pool /\ w.cursor = walk[t].cursor /\ w.tally = walk[t].tally
          /\ w.sizes = walk[t].sizes
      BY <2>2
    <3>3. w.quiet = walk[t].quiet /\ w.capped = yes
      BY <2>2
    <3> HIDE DEF w
    <3>4. ~Kept(w)
      BY <1>2, <3>3 DEF Kept
    <3> QED
      BY <3>1, <3>2, <3>3, <3>4
  <2> QED
    BY <1>2, <2>3, <2>4
<1>6. PICK w \in Walks : /\ walk' = [walk EXCEPT ![t] = w] /\ ~Kept(w)
                         /\ w.pool = walk[t].pool /\ w.cursor = walk[t].cursor /\ w.tally = walk[t].tally
                         /\ w.sizes = walk[t].sizes /\ w.quiet = walk[t].quiet
  BY <1>5
<1>7. walk'[t] = w /\ at'[t] = "walked"
  BY <1>1, <1>3, <1>6 DEF OccupancyTypes
<1>8. WalkerInv(t)'
  <2>1. Counted(w)
    BY <1>1, <1>6 DEF WalkerInv, Counted
  <2>2. w.quiet => Aligned(chain[w.pool], w)
    BY <1>1, <1>6 DEF WalkerInv, Aligned
  <2> QED
    BY <1>3, <1>6, <1>7, <2>1, <2>2 DEF WalkerInv, Stores
<1>9. DOMAIN whole' = Pools /\ WholeInv'
  BY <1>1, <1>3 DEF OccupancyTypes, WholeInv
<1> QED
  BY <1>3, <1>6, <1>8, <1>9, WalkStep DEF WalkPlaces, Unfinished

LEMMA WalkedKeeps ==
  ASSUME OccupancyInv, NEW t \in Refreshers, Walked(t)
  PROVE  OccupancyInv'
<1>1. OccupancyTypes /\ WholeInv /\ CacheInv /\ WalkerInv(t)
  BY OneThread
<1> DEFINE w == walk[t]
           p == w.pool
<1>2. /\ at[t] = "walk" /\ at' = [at EXCEPT ![t] = "walked"] /\ w.cursor >= Words
      /\ whole' = [whole EXCEPT ![p] = whole[p] \cup {Result(w)}]
      /\ chain' = chain /\ cache' = cache /\ walk' = walk /\ overlapped' = overlapped
  BY DEF Walked, Goes, Result
<1>3. p \in Pools /\ w \in Walks /\ w.cursor \in Nat
  BY <1>1, WalkTyped
<1>4. walk' = [walk EXCEPT ![t] = w] /\ at'[t] = "walked"
  BY <1>1, <1>2 DEF OccupancyTypes
<1>5. DOMAIN whole' = Pools /\ whole'[p] = whole[p] \cup {Result(w)} /\ \A q \in Pools \ {p} : whole'[q] = whole[q]
  BY <1>1, <1>2, <1>3 DEF OccupancyTypes
<1>6. Counted(w) /\ w.cursor = Words
  BY <1>1, <1>2, <1>3, PoolWords DEF WalkerInv, Counted
<1>7. Result(w).tally = w.tally /\ Result(w).sizes = w.sizes
  BY DEF Result
<1>8. WholeInv'
  <2> SUFFICES ASSUME NEW q \in Pools, NEW s \in whole'[q]
               PROVE  s.tally.used + s.tally.free = Words /\ s.tally.largest <= s.tally.free /\ Total(s.sizes) = s.tally.used
    BY DEF WholeInv
  <2>1. CASE s \in whole[q]
    BY <1>1, <2>1 DEF WholeInv
  <2>2. CASE s = Result(w)
    BY <1>6, <1>7, <2>2 DEF Counted
  <2> QED
    BY <1>5, <2>1, <2>2
<1>9. \A q \in Pools : whole[q] \subseteq whole'[q]
  BY <1>5
<1>10. WalkerInv(t)'
  BY <1>1, <1>2, <1>4, <1>5 DEF WalkerInv, Stores
<1> QED
  BY <1>2, <1>3, <1>4, <1>5, <1>8, <1>9, <1>10, WalkStep DEF WalkPlaces, Unfinished

(* A header is read; it is there unless the block has moved.               *)
LEMMA ReadKeeps ==
  ASSUME OccupancyInv, NEW t \in Refreshers, ReadHeader(t)
  PROVE  OccupancyInv'
<1>1. OccupancyTypes /\ WholeInv /\ CacheInv /\ WalkerInv(t) /\ Tiled(chain[walk[t].pool])
  BY OneThread
<1> DEFINE w == walk[t]
           c == chain[w.pool]
<1>2. /\ at[t] = "walk" /\ w.cursor < Words
      /\ chain' = chain /\ cache' = cache /\ whole' = whole /\ overlapped' = overlapped
  BY DEF ReadHeader
<1>3. PICK h \in HeadersAt(w.pool, w.cursor) :
        IF Believed(h.size, Words - w.cursor)
        THEN /\ walk' = [walk EXCEPT ![t].cursor = @ + h.size, ![t].tally = TallyBlock(@, h),
                                     ![t].sizes = IF h.used THEN NoteSize(@, h.size) ELSE @]
             /\ UNCHANGED at
        ELSE walk' = [walk EXCEPT ![t].ok = FALSE] /\ Goes(t, "walked")
  BY DEF ReadHeader
<1>4. /\ w \in Walks /\ w.pool \in Pools /\ w.cursor \in Nat /\ w.tally \in Tallies /\ w.sizes \in [Buckets -> Nat]
      /\ w.tally.blocks \in Nat /\ w.tally.used \in Nat /\ w.tally.free \in Nat /\ w.tally.largest \in Nat
  BY <1>1, WalkTyped
<1>5. /\ h.size \in Nat /\ h.used \in BOOLEAN /\ Words \in Nat
      /\ w.cursor \in DOMAIN c => h = c[w.cursor]
  <2>1. CASE w.cursor \in DOMAIN c
    <3>1. h = c[w.cursor]
      BY <2>1 DEF HeadersAt
    <3> QED
      BY <1>1, <2>1, <3>1, PoolWords DEF Tiled
  <2>2. CASE w.cursor \notin DOMAIN c
    <3>1. h \in [size : 0 .. Words + 1, used : BOOLEAN]
      BY <2>2 DEF HeadersAt
    <3> QED
      BY <2>2, <3>1, PoolWords
  <2> QED
    BY <2>1, <2>2
<1>6. DOMAIN whole' = Pools /\ WholeInv'
  BY <1>1, <1>2 DEF OccupancyTypes, WholeInv
<1>7. Counted(w) /\ (w.quiet => Aligned(c, w))
  BY <1>1 DEF WalkerInv
<1> HIDE DEF w, c
<1>8. CASE Believed(h.size, Words - w.cursor)
  <2> DEFINE y == TallyBlock(w.tally, h)
             z == IF h.used THEN NoteSize(w.sizes, h.size) ELSE w.sizes
  <2>1. h.size # 0 /\ h.size <= Words - w.cursor
    BY <1>8 DEF Believed
  <2>2. w.cursor + h.size \in Nat /\ w.cursor + h.size <= Words /\ h.size <= Words
    BY <1>2, <1>4, <1>5, <2>1
  <2>3. /\ y \in Tallies /\ y.blocks = w.tally.blocks + 1
        /\ y.used = w.tally.used + IF h.used THEN h.size ELSE 0
        /\ y.free = w.tally.free + IF h.used THEN 0 ELSE h.size
        /\ y.largest <= y.free
    BY <1>4, <1>5, <1>7, BlockTallied DEF Counted
  <2>4. z \in [Buckets -> Nat] /\ Total(z) = y.used
    <3>1. CASE h.used
      <4>1. z = NoteSize(w.sizes, h.size)
        BY <3>1
      <4>2. z \in [Buckets -> Nat] /\ Total(z) = Total(w.sizes) + h.size
        BY <1>4, <1>5, <2>2, <4>1, SizeNoted
      <4> HIDE DEF y, z
      <4> QED
        BY <1>4, <1>5, <1>7, <2>3, <3>1, <4>2 DEF Counted
    <3>2. CASE ~h.used
      <4>1. z = w.sizes
        BY <3>2
      <4> HIDE DEF y, z
      <4> QED
        BY <1>4, <1>5, <1>7, <2>3, <3>2, <4>1 DEF Counted
    <3> QED
      BY <1>5, <3>1, <3>2
  <2>5. walk' = [walk EXCEPT ![t].cursor = w.cursor + h.size, ![t].tally = y, ![t].sizes = z] /\ at' = at
    BY <1>3, <1>8 DEF w
  <2> HIDE DEF y, z
  <2> DEFINE new == [[[w EXCEPT !.cursor = w.cursor + h.size] EXCEPT !.tally = y] EXCEPT !.sizes = z]
  <2>6. walk' = [walk EXCEPT ![t] = new] /\ at' = [at EXCEPT ![t] = "walk"]
    BY <1>1, <1>2, <2>5 DEF OccupancyTypes, w
  <2>7. /\ new \in Walks /\ new.pool = w.pool /\ new.cursor = w.cursor + h.size /\ new.tally = y /\ new.sizes = z
    <3> DEFINE a == [w EXCEPT !.cursor = w.cursor + h.size]
               b == [a EXCEPT !.tally = y]
    <3>1. a \in Walks /\ a.pool = w.pool /\ a.cursor = w.cursor + h.size
      BY <1>4, <2>2 DEF Walks
    <3> HIDE DEF a
    <3>2. b \in Walks /\ b.pool = a.pool /\ b.cursor = a.cursor /\ b.tally = y
      BY <2>3, <3>1 DEF Walks
    <3> HIDE DEF b
    <3>3. /\ [b EXCEPT !.sizes = z] \in Walks /\ [b EXCEPT !.sizes = z].pool = b.pool
          /\ [b EXCEPT !.sizes = z].cursor = b.cursor /\ [b EXCEPT !.sizes = z].tally = b.tally
          /\ [b EXCEPT !.sizes = z].sizes = z
      BY <2>4, <3>2 DEF Walks
    <3>4. new = [b EXCEPT !.sizes = z]
      BY DEF a, b
    <3> HIDE DEF new
    <3> QED
      BY <3>1, <3>2, <3>3, <3>4
  <2>8. new.quiet <=> w.quiet
    BY <1>4 DEF Walks
  <2> HIDE DEF new
  <2>9. walk'[t] = new /\ at'[t] = "walk"
    BY <1>1, <2>6 DEF OccupancyTypes
  <2>10. Counted(new)
    <3>1. y.used \in Nat /\ y.free \in Nat
      BY <2>3 DEF Tallies
    <3>2. y.used + y.free = w.cursor + h.size
      BY <1>4, <1>5, <1>7, <2>3 DEF Counted
    <3> QED
      BY <2>2, <2>3, <2>4, <2>7, <3>2 DEF Counted
  <2>11. new.quiet => Aligned(c, new)
    <3> SUFFICES ASSUME w.quiet PROVE Aligned(c, new)
      BY <2>8
    <3>1. /\ w.cursor \in DOMAIN c /\ h = c[w.cursor] /\ Tiled(c)
          /\ w.tally.blocks = Cardinality(Behind(c, w.cursor)) /\ w.tally.used = Total(UsedBehind(c, w.cursor))
      BY <1>1, <1>2, <1>4, <1>5, <1>7 DEF Aligned, c, w
    <3>2. /\ new.cursor \in DOMAIN c \cup {Words}
          /\ Cardinality(Behind(c, new.cursor)) = Cardinality(Behind(c, w.cursor)) + 1
          /\ Total(UsedBehind(c, new.cursor)) = Total(UsedBehind(c, w.cursor)) + IF h.used THEN h.size ELSE 0
      BY <2>7, <3>1, OneBehind
    <3> QED
      BY <2>3, <2>7, <3>1, <3>2 DEF Aligned
  <2>12. WalkerInv(t)'
    BY <1>2, <2>7, <2>9, <2>10, <2>11 DEF WalkerInv, Stores, c
  <2> QED
    BY <1>2, <1>6, <2>6, <2>7, <2>12, WalkStep DEF WalkPlaces, Unfinished
<1>9. CASE ~Believed(h.size, Words - w.cursor)
  <2>1. PICK no \in BOOLEAN : no = FALSE /\ walk' = [walk EXCEPT ![t].ok = no]
    BY <1>3, <1>9 DEF w
  <2>2. at' = [at EXCEPT ![t] = "walked"]
    BY <1>3, <1>9 DEF w, Goes
  <2> DEFINE new == [w EXCEPT !.ok = no]
  <2>3. walk' = [walk EXCEPT ![t] = new]
    BY <2>1 DEF w
  <2>4. /\ new \in Walks /\ new.pool = w.pool /\ new.cursor = w.cursor /\ new.tally = w.tally /\ new.sizes = w.sizes
    BY <1>4 DEF Walks
  <2>5. new.quiet = w.quiet /\ new.ok = no
    BY <1>4 DEF Walks
  <2> HIDE DEF new
  <2>6. ~Kept(new)
    BY <2>1, <2>5 DEF Kept
  <2>7. walk'[t] = new /\ at'[t] = "walked"
    BY <1>1, <2>2, <2>3 DEF OccupancyTypes
  <2>8. Counted(new) /\ (new.quiet => Aligned(c, new))
    BY <1>7, <2>4, <2>5 DEF Counted, Aligned
  <2>9. WalkerInv(t)'
    BY <1>2, <2>4, <2>6, <2>7, <2>8 DEF WalkerInv, Stores, c
  <2> QED
    BY <1>2, <1>6, <2>2, <2>3, <2>4, <2>9, WalkStep DEF WalkPlaces, Unfinished
<1> QED
  BY <1>8, <1>9

LEMMA SizesKeep ==
  ASSUME OccupancyInv, NEW t \in Refreshers, StoreSizes(t)
  PROVE  OccupancyInv'
<1>1. OccupancyTypes /\ WholeInv /\ CacheInv /\ WalkerInv(t)
  BY OneThread
<1>2. /\ at[t] = "sizes" /\ at' = [at EXCEPT ![t] = "stored"]
      /\ chain' = chain /\ cache' = cache /\ whole' = whole /\ overlapped' = overlapped /\ walk' = walk
  BY DEF StoreSizes, Goes
<1>3. walk[t] \in Walks /\ walk' = [walk EXCEPT ![t] = walk[t]] /\ at'[t] = "stored"
  BY <1>1, <1>2, WalkTyped DEF OccupancyTypes
<1>4. DOMAIN whole' = Pools /\ WholeInv'
  BY <1>1, <1>2 DEF OccupancyTypes, WholeInv
<1>5. WalkerInv(t)'
  BY <1>1, <1>2, <1>3 DEF WalkerInv, Stores
<1> QED
  BY <1>2, <1>3, <1>4, <1>5, WalkStep DEF WalkPlaces, Unfinished

LEMMA NextPoolKeeps ==
  ASSUME OccupancyInv, NEW t \in Refreshers, NextPool(t)
  PROVE  OccupancyInv'
<1>1. OccupancyTypes /\ WholeInv /\ CacheInv /\ WalkerInv(t)
  BY OneThread
<1>2. /\ at[t] = "stored"
      /\ chain' = chain /\ cache' = cache /\ whole' = whole /\ overlapped' = overlapped
  BY DEF NextPool
<1>3. DOMAIN whole' = Pools /\ WholeInv'
  BY <1>1, <1>2 DEF OccupancyTypes, WholeInv
<1>4. CASE at' = [at EXCEPT ![t] = "out"] /\ walk' = walk
  <2>1. walk[t] \in Walks /\ walk' = [walk EXCEPT ![t] = walk[t]] /\ at'[t] = "out"
    BY <1>1, <1>4, WalkTyped DEF OccupancyTypes
  <2>2. WalkerInv(t)'
    BY <1>1, <1>2, <1>4, <2>1 DEF WalkerInv, Stores
  <2> QED
    BY <1>2, <1>3, <1>4, <2>1, <2>2, WalkStep DEF WalkPlaces, Unfinished
<1>5. ASSUME NEW side \in Pools, at' = [at EXCEPT ![t] = "walk"], walk' = [walk EXCEPT ![t] = Fresh(side)]
      PROVE  OccupancyInv'
  <2>1. /\ Fresh(side) \in Walks /\ Counted(Fresh(side)) /\ Aligned(chain[side], Fresh(side)) /\ Fresh(side).pool = side
    BY <1>1, FreshWalk DEF OccupancyTypes
  <2>2. walk'[t] = Fresh(side) /\ at'[t] = "walk"
    BY <1>1, <1>5 DEF OccupancyTypes
  <2>3. WalkerInv(t)'
    BY <1>2, <2>1, <2>2 DEF WalkerInv, Stores
  <2> QED
    BY <1>2, <1>3, <1>5, <2>1, <2>3, WalkStep DEF WalkPlaces, Unfinished
<1> QED
  BY <1>4, <1>5 DEF NextPool, Goes

LEMMA FlagKeeps ==
  ASSUME OccupancyInv, NEW t \in Refreshers, StoreFlag(t)
  PROVE  OccupancyInv'
<1>1. OccupancyTypes /\ WholeInv /\ CacheInv /\ StoresInv /\ WalkerInv(t)
  BY OneThread
<1> DEFINE p == walk[t].pool
           k == cache[p]
<1>2. p \in Pools /\ k \in Caches /\ walk[t] \in Walks
  BY <1>1, WalkTyped
<1>3. \A b \in BOOLEAN : /\ [k EXCEPT !.walked = b] \in Caches
                         /\ \A f \in Figures : [k EXCEPT !.walked = b][f] = k[f]
  BY <1>2, FiguresOf DEF Caches
<1>4. \A b \in BOOLEAN : /\ [k EXCEPT !.capped = b] \in Caches
                         /\ \A f \in Figures : [k EXCEPT !.capped = b][f] = k[f]
  BY <1>2, FiguresOf DEF Caches
<1>5. \A b \in BOOLEAN : [k EXCEPT !.walked = b].walked = b
  BY <1>2 DEF Caches
<1>6. \A b \in BOOLEAN : [k EXCEPT !.capped = b].walked = k.walked
  BY <1>2 DEF Caches
<1>7. walk' = walk /\ chain' = chain /\ whole' = whole /\ overlapped' = overlapped
  BY DEF StoreFlag
<1>8. CASE /\ at[t] = "walked" /\ at' = [at EXCEPT ![t] = "capped"]
           /\ cache' = [cache EXCEPT ![p].walked = Kept(walk[t])]
  <2>1. Kept(walk[t]) \in BOOLEAN
    BY DEF Kept
  <2>2. PICK b \in BOOLEAN : b = Kept(walk[t]) /\ cache' = [cache EXCEPT ![p] = [k EXCEPT !.walked = b]]
    BY <1>8, <2>1
  <2> DEFINE new == [k EXCEPT !.walked = b]
  <2>3. new \in Caches /\ \A f \in Figures : new[f] = k[f]
    BY <1>3
  <2>4. new.walked = b
    BY <1>5
  <2> HIDE DEF new
  <2>5. new.walked <=> Kept(walk[t])
    BY <2>2, <2>4
  <2>6. cache' = [cache EXCEPT ![p] = new]
    BY <2>2 DEF new
  <2> HIDE DEF k, p
  <2>7. p = walk[t].pool /\ k = cache[p]
    BY DEF k, p
  <2> QED
    <3>1. StoresOne(t, "capped", new) /\ "capped" \in WalkPlaces
      BY <1>7, <1>8, <2>3, <2>5, <2>6, <2>7 DEF WalkPlaces, Stores, Unfinished, StoresOne
    <3> QED
      BY <2>3, <3>1, StoreStep
<1>9. CASE /\ at[t] = "capped" /\ at' = [at EXCEPT ![t] = IF Kept(walk[t]) THEN "blocks" ELSE "stored"]
           /\ cache' = [cache EXCEPT ![p].capped = walk[t].capped]
  <2>1. walk[t].capped \in BOOLEAN
    BY <1>2 DEF Walks
  <2>2. PICK b \in BOOLEAN : cache' = [cache EXCEPT ![p] = [k EXCEPT !.capped = b]]
    BY <1>9, <2>1
  <2> DEFINE new == [k EXCEPT !.capped = b]
             to  == IF Kept(walk[t]) THEN "blocks" ELSE "stored"
  <2>3. new \in Caches /\ \A f \in Figures : new[f] = k[f]
    BY <1>4
  <2>4. new.walked = k.walked
    BY <1>6
  <2> HIDE DEF new
  <2>5. new.used = k.used /\ new.free = k.free
    <3>1. new["used"] = k["used"] /\ new["free"] = k["free"]
      BY <2>3, FiguresOf
    <3> QED
      BY <3>1
  <2>6. overlapped \/ (new.walked => (new.used + new.free = Words \/ to \in Unfinished))
    <3>1. CASE Kept(walk[t])
      BY <3>1 DEF Unfinished
    <3>2. CASE ~Kept(walk[t])
      BY <1>1, <1>9, <2>4, <3>2 DEF StoresInv
    <3> QED
      BY <3>1, <3>2
  <2>7. to \in {"blocks", "stored"} /\ (to = "blocks" => Kept(walk[t]))
    OBVIOUS
  <2>8. cache' = [cache EXCEPT ![p] = new] /\ at' = [at EXCEPT ![t] = to]
    BY <1>9, <2>2 DEF new
  <2> HIDE DEF k, p, to
  <2>9. p = walk[t].pool /\ k = cache[p]
    BY DEF k, p
  <2>10. to \in WalkPlaces /\ to \notin {"out", "walk", "capped", "free"} /\ (to \in Stores => Kept(walk[t]))
    BY <2>7 DEF WalkPlaces, Stores
  <2> QED
    <3>1. StoresOne(t, to, new)
      BY <1>7, <1>9, <2>3, <2>6, <2>8, <2>9, <2>10 DEF StoresOne
    <3> QED
      BY <2>3, <2>10, <3>1, StoreStep
<1> QED
  BY <1>8, <1>9 DEF StoreFlag, Goes

LEMMA FigureKeeps ==
  ASSUME OccupancyInv, NEW t \in Refreshers, NEW f \in Figures, StoreFigure(t, f)
  PROVE  OccupancyInv'
<1>1. OccupancyTypes /\ WholeInv /\ CacheInv /\ StoresInv /\ WalkerInv(t)
  BY OneThread
<1> DEFINE p   == walk[t].pool
           k   == cache[p]
           y   == walk[t].tally
           new == [k EXCEPT ![f] = y[f]]
           to  == AfterFigure[f]
<1>2. p \in Pools /\ k \in Caches /\ y \in Tallies
  BY <1>1, WalkTyped
<1>3. /\ at[t] = f /\ at' = [at EXCEPT ![t] = to] /\ cache' = [cache EXCEPT ![p] = new]
      /\ walk' = walk /\ chain' = chain /\ whole' = whole /\ overlapped' = overlapped
  BY DEF StoreFigure, Goes
<1>4. f \in {"blocks", "used", "free", "largest"}
  BY FiguresOf
<1>5. y[f] \in Nat
  BY <1>2, <1>4 DEF Tallies
<1>6. new \in Caches /\ \A g \in Figures : new[g] = k[g] \/ (g = f /\ new[g] = y[g])
  <2>1. \A x \in Nat : [k EXCEPT ![f] = x] \in Caches
    BY <1>2, <1>4 DEF Caches
  <2>2. \A x \in Nat, g \in Figures : [k EXCEPT ![f] = x][g] = IF g = f THEN x ELSE k[g]
    BY <1>2, <1>4, FiguresOf DEF Caches
  <2> QED
    BY <1>5, <2>1, <2>2
<1>7. /\ new.walked = k.walked
      /\ new.used = IF f = "used" THEN y.used ELSE k.used
      /\ new.free = IF f = "free" THEN y.free ELSE k.free
  BY <1>2, <1>4 DEF Caches
<1> HIDE DEF new
<1>8. /\ f = "blocks" => to = "used"
      /\ f = "used" => to = "free"
      /\ f = "free" => to = "largest"
      /\ f = "largest" => to = "sizes"
  BY DEF AfterFigure
<1> HIDE DEF to
<1>9. Kept(walk[t]) /\ Result(walk[t]) \in whole[p] /\ Result(walk[t]).tally = y
  BY <1>1, <1>3, <1>4 DEF WalkerInv, Stores, Result
<1>10. y.used + y.free = Words
  BY <1>1, <1>2, <1>9 DEF WholeInv
<1>11. to \in WalkPlaces /\ to \notin {"out", "walk", "capped"}
  BY <1>4, <1>8 DEF WalkPlaces, Stores
<1>12. at[t] \notin {"out", "walk"} /\ \A g \in Figures : new[g] = cache[p][g] \/ (Kept(walk[t]) /\ new[g] = walk[t].tally[g])
  BY <1>3, <1>4, <1>6, <1>9
<1>13. CASE overlapped
  <2> HIDE DEF p, k, y
  <2>1. p = walk[t].pool
    BY DEF p
  <2> QED
    <3>1. StoresOne(t, to, new)
      BY <1>3, <1>9, <1>11, <1>12, <1>13, <2>1 DEF StoresOne
    <3> QED
      BY <1>6, <1>11, <3>1, StoreStep
<1>14. CASE ~overlapped
  <2>1. new.walked => new.used + new.free = Words \/ to \in Unfinished
    <3>1. CASE f \in {"blocks", "used"}
      BY <1>8, <3>1 DEF Unfinished
    <3>2. CASE f = "free"
      <4>1. k.used = y.used
        BY <1>1, <1>3, <1>14, <3>2 DEF StoresInv
      <4> QED
        BY <1>7, <1>10, <3>2, <4>1
    <3>3. CASE f = "largest"
      <4>1. \A u \in Refreshers : at[u] \in Unfinished => u = t
        BY <1>1, <1>3, <1>14, <3>3 DEF StoresInv, Unfinished
      <4>2. at[t] \notin Unfinished
        BY <1>3, <3>3 DEF Unfinished
      <4>3. k.walked => k.used + k.free = Words
        BY <1>1, <1>2, <1>14, <4>1, <4>2 DEF StoresInv
      <4> QED
        BY <1>7, <3>3, <4>3
    <3> QED
      BY <1>4, <3>1, <3>2, <3>3
  <2>2. to = "free" => new.used = walk[t].tally.used
    BY <1>4, <1>7, <1>8
  <2> HIDE DEF p, k, y
  <2>3. p = walk[t].pool
    BY DEF p
  <2> QED
    <3>1. StoresOne(t, to, new)
      BY <1>3, <1>9, <1>11, <1>12, <2>1, <2>2, <2>3 DEF StoresOne
    <3> QED
      BY <1>6, <1>11, <3>1, StoreStep
<1> QED
  BY <1>13, <1>14

LEMMA OccupancyNext == OccupancyInv /\ [PoolNext]_occupancyVars => OccupancyInv'
<1> SUFFICES ASSUME OccupancyInv, [PoolNext]_occupancyVars PROVE OccupancyInv'
  OBVIOUS
<1>1. ASSUME NEW p \in Pools, NEW b \in DOMAIN chain[p],
             EngineFrees(p, b) \/ \E size \in Header..Words : EngineAllocates(p, b, size)
      PROVE  OccupancyInv'
  BY <1>1, EngineKeeps
<1>2. ASSUME NEW t \in Refreshers,
             \/ Refresh(t) \/ Refused(t) \/ ReadHeader(t) \/ Capped(t) \/ Walked(t)
             \/ StoreFlag(t) \/ StoreSizes(t) \/ NextPool(t)
             \/ \E f \in Figures : StoreFigure(t, f)
      PROVE  OccupancyInv'
  BY <1>2, RefreshKeeps, LeaveKeeps, ReadKeeps, WalkedKeeps, FlagKeeps, SizesKeep, NextPoolKeeps, FigureKeeps
<1>3. CASE UNCHANGED occupancyVars
  <2>1. /\ chain' = chain /\ at' = at /\ walk' = walk /\ cache' = cache /\ whole' = whole /\ overlapped' = overlapped
    BY <1>3 DEF occupancyVars
  <2>2. OccupancyTypes' /\ WholeInv'
    BY <2>1 DEF OccupancyInv, OccupancyTypes, WholeInv
  <2>3. CacheInv'
    BY <2>1, CacheStays DEF OccupancyInv
  <2>4. \A t \in Refreshers : WalkerInv(t)'
    BY <2>1, WalkerStays DEF OccupancyInv
  <2>5. StoresInv'
    BY <2>1 DEF OccupancyInv, StoresInv, Kept, Unfinished
  <2> QED
    BY <2>2, <2>3, <2>4, <2>5 DEF OccupancyInv
<1> QED
  BY <1>1, <1>2, <1>3 DEF PoolNext

LEMMA OccupancySays == OccupancyInv => OccupancyWhole
<1> SUFFICES ASSUME OccupancyInv, NEW p \in Pools
             PROVE  /\ \A f \in Figures : cache[p][f] \in {0} \cup {w.tally[f] : w \in whole[p]}
                    /\ \A w \in whole[p] : /\ w.tally.used + w.tally.free = Words
                                           /\ w.tally.largest <= w.tally.free /\ Total(w.sizes) = w.tally.used
                    /\ \A t \in Refreshers :
                         (at[t] = "walked" /\ walk[t].pool = p /\ walk[t].quiet /\ Kept(walk[t])) =>
                            /\ walk[t].tally.used = UsedBytes(p)
                            /\ walk[t].tally.blocks = Cardinality(DOMAIN chain[p])
                    /\ (~overlapped /\ ~Storing(p) /\ cache[p].walked) => cache[p].used + cache[p].free = Words
  BY DEF OccupancyWhole
<1>1. OccupancyTypes /\ WholeInv /\ CacheInv /\ StoresInv /\ \A t \in Refreshers : WalkerInv(t)
  BY DEF OccupancyInv
<1>2. \A f \in Figures : cache[p][f] \in {0} \cup {w.tally[f] : w \in whole[p]}
  BY <1>1 DEF CacheInv
<1>3. \A w \in whole[p] : /\ w.tally.used + w.tally.free = Words
                          /\ w.tally.largest <= w.tally.free /\ Total(w.sizes) = w.tally.used
  BY <1>1 DEF WholeInv
<1>4. ASSUME NEW t \in Refreshers, at[t] = "walked", walk[t].pool = p, walk[t].quiet, Kept(walk[t])
      PROVE  walk[t].tally.used = UsedBytes(p) /\ walk[t].tally.blocks = Cardinality(DOMAIN chain[p])
  <2>1. Counted(walk[t]) /\ Aligned(chain[p], walk[t]) /\ Result(walk[t]) \in whole[p]
    BY <1>1, <1>4 DEF WalkerInv
  <2>2. Result(walk[t]).tally = walk[t].tally
    BY DEF Result
  <2>3. walk[t].cursor = Words
    BY <1>3, <2>1, <2>2 DEF Counted
  <2>4. Tiled(chain[p])
    BY <1>1 DEF OccupancyTypes
  <2>5. /\ walk[t].tally.blocks = Cardinality(Behind(chain[p], Words))
        /\ walk[t].tally.used = Total(UsedBehind(chain[p], Words))
    BY <2>1, <2>3 DEF Aligned
  <2> QED
    BY <2>4, <2>5, AllBehind DEF UsedBytes, UsedBlocks
<1>5. ASSUME ~overlapped, ~Storing(p), cache[p].walked
      PROVE  cache[p].used + cache[p].free = Words
  <2>1. \A t \in Refreshers : walk[t].pool = p => at[t] \notin Unfinished
    BY <1>5 DEF Storing, Unfinished
  <2> QED
    BY <1>1, <1>5, <2>1 DEF StoresInv
<1> QED
  BY <1>2, <1>3, <1>4, <1>5

(* What is said of a pool was seen by a walk that came to its end and      *)
(* accounts for every word once, and a walk that nothing disturbed reports *)
(* the pool as it is, for pools of any size, cut into blocks in any way,   *)
(* and any number of threads. (walk_pool, tally_block, store_occupancy)    *)
THEOREM OccupancyIsWhole == OccupancySpec => []OccupancyWhole
BY OccupancyStart, OccupancyNext, OccupancySays, PTL DEF OccupancySpec

-----------------------------------------------------------------------------
(* Functions that are defined level by level                               *)

(* A function on 0..n is given by its first value and by what follows a    *)
(* value at each place.                                                    *)
Given(f, first, follows, n) ==
  f = [l \in 0..n |-> IF l = 0 THEN first ELSE follows[<<l, f[l - 1]>>]]

LEMMA GivenTyped ==
  ASSUME NEW first \in Nat, NEW follows \in [Nat \X Nat -> Nat], NEW n \in Nat, NEW f, Given(f, first, follows, n)
  PROVE  /\ f \in [0..n -> Nat] /\ f[0] = first
         /\ \A l \in 1..n : f[l] = follows[<<l, f[l - 1]>>] /\ l - 1 \in 0..n
<1>1. DOMAIN f = 0..n /\ \A l \in 0..n : f[l] = IF l = 0 THEN first ELSE follows[<<l, f[l - 1]>>]
  BY DEF Given
<1> DEFINE Bad == {l \in 0..n : f[l] \notin Nat}
<1>2. Bad = {}
  <2> SUFFICES ASSUME Bad # {} PROVE FALSE
    OBVIOUS
  <2>1. Bad \subseteq Nat
    OBVIOUS
  <2> HIDE DEF Bad
  <2>2. PICK m \in Bad : \A l \in Bad : m <= l
    BY <2>1, LeastNumber
  <2>3. m \in 0..n /\ f[m] \notin Nat
    BY <2>2 DEF Bad
  <2>4. m # 0
    BY <1>1, <2>3
  <2>5. m - 1 \in 0..n /\ ~(m <= m - 1)
    BY <2>3, <2>4
  <2>6. f[m - 1] \in Nat
    BY <2>2, <2>5 DEF Bad
  <2>7. <<m, f[m - 1]>> \in Nat \X Nat
    BY <2>3, <2>6
  <2> QED
    BY <1>1, <2>3, <2>4, <2>7
<1>3. \A l \in 0..n : f[l] \in Nat
  BY <1>2
<1>4. f \in [0..n -> Nat]
  <2>1. f = [l \in 0..n |-> f[l]]
    BY <1>1 DEF Given
  <2> QED
    BY <1>3, <2>1
<1>5. 0 \in 0..n /\ \A l \in 1..n : l \in 0..n /\ l # 0 /\ l - 1 \in 0..n
  OBVIOUS
<1>6. f[0] = first /\ \A l \in 1..n : f[l] = follows[<<l, f[l - 1]>>]
  BY <1>1, <1>5
<1> QED
  BY <1>4, <1>5, <1>6

LEMMA GivenExists ==
  ASSUME NEW first \in Nat, NEW follows \in [Nat \X Nat -> Nat], NEW n \in Nat
  PROVE  \E f : Given(f, first, follows, n)
<1> DEFINE Bad == {k \in Nat : ~ \E f : Given(f, first, follows, k)}
<1> SUFFICES ASSUME n \in Bad PROVE FALSE
  OBVIOUS
<1>1. Bad \subseteq Nat
  OBVIOUS
<1> HIDE DEF Bad
<1>2. PICK m \in Bad : \A k \in Bad : m <= k
  BY <1>1, LeastNumber
<1>3. m \in Nat /\ ~ \E f : Given(f, first, follows, m)
  BY <1>2 DEF Bad
<1>4. CASE m = 0
  <2> DEFINE f == [l \in 0..0 |-> first]
  <2>1. f = [l \in 0..0 |-> IF l = 0 THEN first ELSE follows[<<l, f[l - 1]>>]]
    OBVIOUS
  <2> HIDE DEF f
  <2> QED
    BY <1>3, <1>4, <2>1 DEF Given
<1>5. CASE m # 0
  <2>1. m - 1 \in Nat /\ ~(m <= m - 1)
    BY <1>3, <1>5
  <2>2. m - 1 \notin Bad
    BY <1>2, <2>1
  <2>3. PICK g : Given(g, first, follows, m - 1)
    BY <2>1, <2>2 DEF Bad
  <2>4. \A l \in 0..(m - 1) : g[l] = IF l = 0 THEN first ELSE follows[<<l, g[l - 1]>>]
    BY <2>3 DEF Given
  <2> DEFINE f == [l \in 0..m |-> IF l = m THEN follows[<<m, g[m - 1]>>] ELSE g[l]]
             h == [l \in 0..m |-> IF l = 0 THEN first ELSE follows[<<l, f[l - 1]>>]]
  <2>5. \A l \in 0..m : f[l] = h[l]
    <3> SUFFICES ASSUME NEW l \in 0..m PROVE f[l] = h[l]
      OBVIOUS
    <3>1. CASE l = m
      <4>1. l - 1 \in 0..m /\ l - 1 # m /\ l # 0
        BY <1>3, <1>5, <3>1
      <4>2. f[l - 1] = g[l - 1]
        BY <4>1
      <4> QED
        BY <3>1, <4>1, <4>2
    <3>2. CASE l # m /\ l # 0
      <4>1. l \in 0..(m - 1) /\ l - 1 \in 0..m /\ l - 1 # m
        BY <1>3, <3>2
      <4>2. f[l - 1] = g[l - 1] /\ f[l] = g[l]
        BY <3>2, <4>1
      <4> QED
        BY <2>4, <3>2, <4>1, <4>2
    <3>3. CASE l # m /\ l = 0
      <4>1. l \in 0..(m - 1)
        BY <1>3, <3>3
      <4> QED
        BY <2>4, <3>3, <4>1
    <3> QED
      BY <3>1, <3>2, <3>3
  <2>6. f = h
    BY <2>5
  <2>7. Given(f, first, follows, m)
    <3> HIDE DEF f
    <3> QED
      BY <2>6 DEF Given
  <2> QED
    BY <1>3, <2>7
<1> QED
  BY <1>4, <1>5

-----------------------------------------------------------------------------
(* The levels of a texture                                                 *)

LEMMA HalvingsAre ==
  ASSUME NEW extent \in Nat, NEW n \in Nat
  PROVE  /\ Halvings(extent, n) \in [0..n -> Nat] /\ Halvings(extent, n)[0] = AtLeastOne(extent)
         /\ \A l \in 1..n : Halvings(extent, n)[l] = HalfExtent(Halvings(extent, n)[l - 1])
<1> DEFINE Is(f)   == f = [l \in 0..n |-> IF l = 0 THEN AtLeastOne(extent) ELSE HalfExtent(f[l - 1])]
           first   == AtLeastOne(extent)
           follows == [p \in Nat \X Nat |-> HalfExtent(p[2])]
           all     == Halvings(extent, n)
<1>1. first \in Nat /\ follows \in [Nat \X Nat -> Nat]
  <2>1. \A k \in Nat : AtLeastOne(k) \in Nat /\ k \div 2 \in Nat
    BY DEF AtLeastOne
  <2>2. \A k \in Nat : HalfExtent(k) \in Nat
    BY <2>1 DEF HalfExtent
  <2> QED
    BY <2>1, <2>2
<1>2. \A l \in Nat, x \in Nat : follows[<<l, x>>] = HalfExtent(x)
  OBVIOUS
<1> HIDE DEF first, follows
<1>3. \E f : Is(f)
  <2>1. PICK f : Given(f, first, follows, n)
    BY <1>1, GivenExists
  <2>2. /\ f \in [0..n -> Nat] /\ f[0] = first
        /\ \A l \in 1..n : f[l] = follows[<<l, f[l - 1]>>] /\ l - 1 \in 0..n
    BY <1>1, <2>1, GivenTyped
  <2>3. \A l \in 0..n : f[l] = IF l = 0 THEN AtLeastOne(extent) ELSE HalfExtent(f[l - 1])
    <3> TAKE l \in 0..n
    <3>1. CASE l = 0
      BY <2>2, <3>1 DEF first
    <3>2. CASE l # 0
      <4>1. l \in 1..n /\ l \in Nat
        BY <3>2
      <4>2. f[l] = follows[<<l, f[l - 1]>>] /\ f[l - 1] \in Nat
        BY <2>2, <4>1
      <4> QED
        BY <1>2, <3>2, <4>1, <4>2
    <3> QED
      BY <3>1, <3>2
  <2>4. Is(f)
    BY <2>2, <2>3
  <2> QED
    BY <2>4
<1>4. all = CHOOSE f : Is(f)
  BY DEF Halvings
<1> HIDE DEF Is, all
<1>5. Is(all)
  BY <1>3, <1>4
<1>6. /\ DOMAIN all = 0..n /\ all[0] = AtLeastOne(extent)
      /\ \A l \in 1..n : all[l] = HalfExtent(all[l - 1])
      /\ all = [l \in 0..n |-> all[l]]
  BY <1>5 DEF Is
<1> DEFINE given == [l \in 0..n |-> IF l = 0 THEN AtLeastOne(extent) ELSE HalfExtent(all[l - 1])]
<1>7. all \in [0..n -> Nat]
  <2> DEFINE Bad == {l \in 0..n : all[l] \notin Nat}
  <2> SUFFICES ASSUME Bad # {} PROVE FALSE
    BY <1>6
  <2>1. Bad \subseteq Nat
    OBVIOUS
  <2> HIDE DEF Bad
  <2>2. PICK m \in Bad : \A l \in Bad : m <= l
    BY <2>1, LeastNumber
  <2>3. m \in 0..n /\ all[m] \notin Nat
    BY <2>2 DEF Bad
  <2>4. m # 0
    BY <1>1, <1>6, <2>3 DEF first
  <2>5. m \in 1..n /\ m - 1 \in 0..n /\ ~(m <= m - 1)
    BY <2>3, <2>4
  <2>6. all[m - 1] \in Nat
    BY <2>2, <2>5 DEF Bad
  <2>7. follows[<<m, all[m - 1]>>] \in Nat
    BY <1>1, <2>3, <2>6
  <2>8. m \in Nat /\ follows[<<m, all[m - 1]>>] = HalfExtent(all[m - 1])
    BY <1>2, <2>3, <2>6
  <2>9. all[m] = HalfExtent(all[m - 1])
    BY <1>6, <2>5
  <2> QED
    BY <2>3, <2>7, <2>8, <2>9
<1> QED
  BY <1>6, <1>7 DEF all

LEMMA LevelBytesInNat ==
  ASSUME NEW s \in Shapes, NEW l \in 0..s.levels
  PROVE  LevelBytes(MipLevels(s)[l]) \in Nat
<1>1. s.width \in Nat /\ s.height \in Nat /\ s.levels \in Nat /\ s.block \in Nat
  BY UploadAssumption
<1> DEFINE width  == Halvings(s.width, s.levels)
           height == Halvings(s.height, s.levels)
           level  == MipLevels(s)[l]
<1>2. width[l] \in Nat /\ height[l] \in Nat
  BY <1>1, HalvingsAre
<1>3. level.pitch = BlocksFor(width[l]) * s.block /\ level.rows = BlocksFor(height[l])
  BY DEF MipLevels
<1> HIDE DEF width, height, level
<1>4. \A n \in Nat : BlocksFor(n) \in Nat
  <2> TAKE n \in Nat
  <2>1. AtLeastOne(n) + BlockExtent - 1 \in Nat
    BY DEF AtLeastOne, BlockExtent
  <2>2. \A k \in Nat : k \div BlockExtent \in Nat
    BY DEF BlockExtent
  <2> QED
    BY <2>1, <2>2 DEF BlocksFor
<1>5. BlocksFor(width[l]) \in Nat /\ BlocksFor(height[l]) \in Nat
  BY <1>2, <1>4
<1>6. BlocksFor(width[l]) * s.block \in Nat
  BY <1>1, <1>5
<1>7. level.pitch * level.rows \in Nat
  BY <1>3, <1>5, <1>6
<1> QED
  BY <1>7 DEF LevelBytes, level

-----------------------------------------------------------------------------
(* Where the levels lie                                                    *)

LEMMA ExtentsAre ==
  ASSUME NEW extent \in Nat, NEW n \in Nat
  PROVE  Halvings(extent, n) \in [0..n -> Nat \ {0}]
<1> DEFINE all == Halvings(extent, n)
<1>1. /\ all \in [0..n -> Nat] /\ all[0] = AtLeastOne(extent)
      /\ \A l \in 1..n : all[l] = HalfExtent(all[l - 1])
  BY HalvingsAre
<1>2. \A k \in Nat : AtLeastOne(k) \in Nat \ {0} /\ k \div 2 \in Nat
  BY DEF AtLeastOne
<1> HIDE DEF all
<1> SUFFICES ASSUME NEW l \in 0..n PROVE all[l] \in Nat \ {0}
  <2>1. all = [l \in 0..n |-> all[l]]
    BY <1>1
  <2> QED
    BY <2>1 DEF all
<1>3. CASE l = 0
  BY <1>1, <1>2, <1>3
<1>4. CASE l # 0
  <2>1. l \in 1..n /\ l - 1 \in 0..n
    BY <1>4
  <2>2. all[l] = HalfExtent(all[l - 1]) /\ all[l - 1] \in Nat
    BY <1>1, <2>1
  <2> QED
    BY <1>2, <2>2 DEF HalfExtent
<1> QED
  BY <1>3, <1>4

LEMMA StartsAre ==
  ASSUME NEW n \in Nat, NEW sizes \in [0..(n - 1) -> Nat]
  PROVE  /\ Starts(sizes, n) \in [0..n -> Nat] /\ Starts(sizes, n)[0] = 0
         /\ \A l \in 0..(n - 1) : Starts(sizes, n)[l + 1] = Starts(sizes, n)[l] + sizes[l]
<1> DEFINE Is(f)   == f = [l \in 0..n |-> IF l = 0 THEN 0 ELSE f[l - 1] + sizes[l - 1]]
           follows == [p \in Nat \X Nat |-> p[2] + (IF p[1] \in 1..n THEN sizes[p[1] - 1] ELSE 0)]
           all     == Starts(sizes, n)
<1>1. follows \in [Nat \X Nat -> Nat]
  <2>1. \A l \in 1..n : l - 1 \in 0..(n - 1)
    OBVIOUS
  <2>2. \A p \in Nat \X Nat : p[2] + (IF p[1] \in 1..n THEN sizes[p[1] - 1] ELSE 0) \in Nat
    <3> TAKE p \in Nat \X Nat
    <3>1. CASE p[1] \in 1..n
      BY <2>1, <3>1
    <3>2. CASE p[1] \notin 1..n
      BY <3>2
    <3> QED
      BY <3>1, <3>2
  <2> QED
    BY <2>2
<1>2. \A l \in 1..n, x \in Nat : follows[<<l, x>>] = x + sizes[l - 1] /\ sizes[l - 1] \in Nat
  <2> TAKE l \in 1..n, x \in Nat
  <2>1. <<l, x>> \in Nat \X Nat /\ <<l, x>>[1] = l /\ <<l, x>>[2] = x /\ l - 1 \in 0..(n - 1)
    OBVIOUS
  <2>2. follows[<<l, x>>] = <<l, x>>[2] + (IF <<l, x>>[1] \in 1..n THEN sizes[<<l, x>>[1] - 1] ELSE 0)
    BY <2>1
  <2> HIDE DEF follows
  <2>3. follows[<<l, x>>] = x + sizes[l - 1]
    BY <2>1, <2>2
  <2> QED
    BY <2>1, <2>3
<1> HIDE DEF follows
<1>3. \E f : Is(f)
  <2>1. PICK f : Given(f, 0, follows, n)
    BY <1>1, GivenExists
  <2>2. /\ f \in [0..n -> Nat] /\ f[0] = 0
        /\ \A l \in 1..n : f[l] = follows[<<l, f[l - 1]>>] /\ l - 1 \in 0..n
    BY <1>1, <2>1, GivenTyped
  <2>3. \A l \in 0..n : f[l] = IF l = 0 THEN 0 ELSE f[l - 1] + sizes[l - 1]
    <3> TAKE l \in 0..n
    <3>1. CASE l # 0
      <4>1. l \in 1..n
        BY <3>1
      <4>2. f[l] = follows[<<l, f[l - 1]>>] /\ f[l - 1] \in Nat
        BY <2>2, <4>1
      <4> QED
        BY <1>2, <3>1, <4>1, <4>2
    <3> QED
      BY <2>2, <3>1
  <2> DEFINE g == [l \in 0..n |-> IF l = 0 THEN 0 ELSE f[l - 1] + sizes[l - 1]]
  <2>4. \A l \in 0..n : g[l] = IF l = 0 THEN 0 ELSE f[l - 1] + sizes[l - 1]
    OBVIOUS
  <2>5. f = g
    <3>1. g = [l \in 0..n |-> g[l]] /\ f = [l \in 0..n |-> f[l]]
      BY <2>2
    <3> HIDE DEF g
    <3> QED
      BY <2>3, <2>4, <3>1
  <2> QED
    BY <2>5
<1>4. all = CHOOSE f : Is(f)
  BY DEF Starts
<1> HIDE DEF Is, all
<1>5. Is(all)
  BY <1>3, <1>4
<1>6. /\ DOMAIN all = 0..n /\ all[0] = 0 /\ all = [l \in 0..n |-> all[l]]
      /\ \A l \in 1..n : all[l] = all[l - 1] + sizes[l - 1]
  <2> DEFINE g == [l \in 0..n |-> IF l = 0 THEN 0 ELSE all[l - 1] + sizes[l - 1]]
  <2>1. DOMAIN g = 0..n /\ g = [l \in 0..n |-> g[l]] /\ g[0] = 0
    OBVIOUS
  <2>2. \A l \in 1..n : g[l] = all[l - 1] + sizes[l - 1]
    OBVIOUS
  <2>3. all = g
    BY <1>5 DEF Is
  <2> HIDE DEF g
  <2> QED
    BY <2>1, <2>2, <2>3
<1>7. all \in [0..n -> Nat]
  <2> DEFINE Bad == {l \in 0..n : all[l] \notin Nat}
  <2> SUFFICES ASSUME Bad # {} PROVE FALSE
    BY <1>6
  <2>1. Bad \subseteq Nat
    OBVIOUS
  <2> HIDE DEF Bad
  <2>2. PICK m \in Bad : \A l \in Bad : m <= l
    BY <2>1, LeastNumber
  <2>3. m \in 0..n /\ all[m] \notin Nat
    BY <2>2 DEF Bad
  <2>4. m # 0
    BY <1>6, <2>3
  <2>5. m \in 1..n /\ m - 1 \in 0..n /\ ~(m <= m - 1)
    BY <2>3, <2>4
  <2>6. all[m - 1] \in Nat
    BY <2>2, <2>5 DEF Bad
  <2>7. sizes[m - 1] \in Nat
    BY <1>2, <2>5
  <2>8. all[m] = all[m - 1] + sizes[m - 1]
    BY <1>6, <2>5
  <2> QED
    BY <2>3, <2>6, <2>7, <2>8
<1>8. \A l \in 0..(n - 1) : all[l + 1] = all[l] + sizes[l]
  <2> TAKE l \in 0..(n - 1)
  <2>1. l + 1 \in 1..n /\ (l + 1) - 1 = l
    OBVIOUS
  <2> QED
    BY <1>6, <2>1
<1> QED
  BY <1>6, <1>7, <1>8 DEF all

(* How many blocks cover so many pixels.                                   *)
LEMMA BlocksAre ==
  ASSUME NEW n \in Nat \ {0}
  PROVE  /\ BlocksFor(n) \in Nat \ {0} /\ BlocksFor(n) = (n + 3) \div 4
         /\ (AtLeastOne(n) + 3) \div 4 = BlocksFor(n)
<1>1. AtLeastOne(n) = n /\ n + BlockExtent - 1 = n + 3 /\ BlockExtent = 4
  BY DEF AtLeastOne, BlockExtent
<1>2. (n + 3) \div 4 \in Nat \ {0}
  OBVIOUS
<1>3. BlocksFor(n) = (n + 3) \div 4
  BY <1>1 DEF BlocksFor
<1> QED
  BY <1>1, <1>2, <1>3

(* From a multiple of a block to a later pixel.                            *)
LEMMA BlocksBetween ==
  ASSUME NEW first \in Nat, NEW last \in Nat, NEW extent \in Nat, 4 * first < last, last <= extent
  PROVE  first + BlocksFor(last - 4 * first) <= BlocksFor(extent)
<1>1. last - 4 * first \in Nat \ {0} /\ extent \in Nat \ {0}
  OBVIOUS
<1>2. BlocksFor(last - 4 * first) = (last - 4 * first + 3) \div 4 /\ BlocksFor(extent) = (extent + 3) \div 4
  BY <1>1, BlocksAre
<1>3. first + (last - 4 * first + 3) \div 4 <= (extent + 3) \div 4
  OBVIOUS
<1> QED
  BY <1>2, <1>3

LEMMA BlockOf ==
  ASSUME NEW i \in Nat
  PROVE  (4 * i) \div BlockExtent = i
BY DEF BlockExtent

LEMMA RowOf ==
  ASSUME NEW row \in Nat, NEW pitch \in Nat \ {0}, NEW x \in 0..(pitch - 1)
  PROVE  (row * pitch + x) \div pitch = row
OBVIOUS

LEMMA RowsWithin ==
  ASSUME NEW row \in Nat, NEW rows \in Nat, NEW pitch \in Nat, row < rows
  PROVE  /\ row * pitch \in Nat /\ pitch * rows \in Nat
         /\ row * pitch + pitch <= pitch * rows
OBVIOUS

(* The bytes of the levels of a texture.                                   *)
LevelSizes(s) ==
  [l \in 0..(s.levels - 1) |->
     BlocksFor(Halvings(s.width, s.levels)[l]) * s.block * BlocksFor(Halvings(s.height, s.levels)[l])]

LEMMA ShapeIs ==
  ASSUME NEW s \in Shapes
  PROVE  s.width \in Nat /\ s.height \in Nat /\ s.levels \in Nat \ {0} /\ s.block \in {8, 16}
BY UploadAssumption

LEMMA SizesAre ==
  ASSUME NEW s \in Shapes
  PROVE  /\ LevelSizes(s) \in [0..(s.levels - 1) -> Nat]
         /\ \A l \in 0..(s.levels - 1) : LevelSizes(s)[l] > 0
<1> DEFINE width  == Halvings(s.width, s.levels)
           height == Halvings(s.height, s.levels)
<1>1. s.levels \in Nat \ {0} /\ s.block \in {8, 16}
  BY ShapeIs
<1>2. width \in [0..s.levels -> Nat \ {0}] /\ height \in [0..s.levels -> Nat \ {0}]
  BY ShapeIs, ExtentsAre
<1>3. LevelSizes(s) = [l \in 0..(s.levels - 1) |-> BlocksFor(width[l]) * s.block * BlocksFor(height[l])]
  BY DEF LevelSizes
<1> HIDE DEF width, height
<1>4. \A l \in 0..(s.levels - 1) : BlocksFor(width[l]) * s.block * BlocksFor(height[l]) \in Nat \ {0}
  <2> TAKE l \in 0..(s.levels - 1)
  <2>1. l \in 0..s.levels
    BY <1>1
  <2>2. BlocksFor(width[l]) \in Nat \ {0} /\ BlocksFor(height[l]) \in Nat \ {0}
    BY <1>2, <2>1, BlocksAre
  <2>3. \A a, c \in Nat \ {0} : a * 8 * c \in Nat \ {0} /\ a * 16 * c \in Nat \ {0}
    OBVIOUS
  <2> QED
    BY <1>1, <2>2, <2>3
<1> QED
  BY <1>3, <1>4

LEMMA LevelAt ==
  ASSUME NEW s \in Shapes, NEW l \in 0..(s.levels - 1)
  PROVE  LET level == MipLevels(s)[l] IN
         /\ level.width \in Nat \ {0} /\ level.height \in Nat \ {0}
         /\ level.pitch = BlocksFor(level.width) * s.block /\ level.rows = BlocksFor(level.height)
         /\ level.offset \in Nat
         /\ MipLevels(s)[l + 1].offset = level.offset + LevelSizes(s)[l]
         /\ LevelSizes(s)[l] = level.pitch * level.rows
<1> DEFINE level  == MipLevels(s)[l]
           width  == Halvings(s.width, s.levels)
           height == Halvings(s.height, s.levels)
           starts == Starts(LevelSizes(s), s.levels)
<1>1. s.levels \in Nat \ {0} /\ l \in 0..s.levels /\ l + 1 \in 0..s.levels
  BY ShapeIs
<1>2. width \in [0..s.levels -> Nat \ {0}] /\ height \in [0..s.levels -> Nat \ {0}]
  BY ShapeIs, ExtentsAre
<1>3. starts \in [0..s.levels -> Nat] /\ starts[l + 1] = starts[l] + LevelSizes(s)[l]
  BY <1>1, SizesAre, StartsAre
<1>4. \A k \in 0..s.levels :
        /\ MipLevels(s)[k].offset = starts[k]
        /\ MipLevels(s)[k].width = width[k] /\ MipLevels(s)[k].height = height[k]
        /\ MipLevels(s)[k].pitch = BlocksFor(width[k]) * s.block /\ MipLevels(s)[k].rows = BlocksFor(height[k])
  BY DEF MipLevels, LevelSizes
<1>5. LevelSizes(s)[l] = BlocksFor(width[l]) * s.block * BlocksFor(height[l])
  BY DEF LevelSizes
<1> HIDE DEF width, height, starts
<1> QED
  BY <1>1, <1>2, <1>3, <1>4, <1>5

(* The game writes into the rows of the level that it locked, whatever     *)
(* part of it it locked.                                                   *)
LEMMA RectWithin ==
  ASSUME NEW s \in Shapes, NEW l \in 0..(s.levels - 1),
         NEW rect \in Rects(MipLevels(s)[l]), NEW b \in Touched(s, MipLevels(s)[l], rect)
  PROVE  LET level == MipLevels(s)[l] IN
         /\ level.offset <= b.from /\ b.to <= level.offset + LevelBytes(level)
         /\ (b.from - level.offset) \div level.pitch = (b.to - 1 - level.offset) \div level.pitch
<1> DEFINE level  == MipLevels(s)[l]
           offset == level.offset
           pitch  == level.pitch
           rows   == level.rows
<1>1. /\ level.width \in Nat \ {0} /\ level.height \in Nat \ {0} /\ offset \in Nat
      /\ pitch = BlocksFor(level.width) * s.block /\ rows = BlocksFor(level.height)
  BY LevelAt
<1>2. s.block \in {8, 16}
  BY ShapeIs
<1>3. PICK i \in Nat, j \in Nat :
        /\ rect.left = 4 * i /\ rect.top = 4 * j
        /\ rect.right \in 1..level.width /\ rect.bottom \in 1..level.height
        /\ 4 * i < rect.right /\ 4 * j < rect.bottom
  BY DEF Rects, Lockable
<1> DEFINE wide == BlocksFor(rect.right - rect.left)
           high == BlocksFor(rect.bottom - rect.top)
<1>4. /\ wide \in Nat \ {0} /\ i + wide <= BlocksFor(level.width)
      /\ high \in Nat \ {0} /\ j + high <= rows
  <2>1. /\ rect.right - 4 * i \in Nat \ {0} /\ rect.bottom - 4 * j \in Nat \ {0}
        /\ rect.right \in Nat /\ rect.bottom \in Nat /\ rect.right <= level.width /\ rect.bottom <= level.height
    BY <1>1, <1>3
  <2>2. wide \in Nat \ {0} /\ high \in Nat \ {0}
    BY <1>3, <2>1, BlocksAre
  <2>3. i + wide <= BlocksFor(level.width)
    BY <1>1, <1>3, <2>1, BlocksBetween
  <2>4. j + high <= BlocksFor(level.height)
    BY <1>1, <1>3, <2>1, BlocksBetween
  <2> QED
    BY <1>1, <2>2, <2>3, <2>4
<1>5. BlocksFor(level.width) \in Nat \ {0} /\ rows \in Nat \ {0}
  BY <1>1, BlocksAre
<1>6. PICK r \in 0..(high - 1) :
        b = [from |-> LockedAt(s, level, rect) + r * pitch, to |-> LockedAt(s, level, rect) + r * pitch + wide * s.block]
  BY DEF Touched
<1>7. LockedAt(s, level, rect) = offset + j * pitch + i * s.block
  BY <1>3, BlockOf DEF LockedAt
<1> DEFINE x == i * s.block
           y == wide * s.block
<1>8. pitch \in Nat \ {0} /\ x \in Nat /\ y \in Nat \ {0} /\ x + y <= pitch
  <2> DEFINE across == BlocksFor(level.width)
  <2>1. across \in Nat \ {0} /\ i + wide <= across /\ wide \in Nat \ {0}
    BY <1>4, <1>5
  <2>2. pitch = across * s.block
    BY <1>1
  <2> HIDE DEF across, wide, pitch
  <2>3. CASE s.block = 8
    BY <2>1, <2>2, <2>3
  <2>4. CASE s.block = 16
    BY <2>1, <2>2, <2>4
  <2> QED
    BY <1>2, <2>3, <2>4
<1>9. b.from = offset + j * pitch + x + r * pitch /\ b.to = offset + j * pitch + x + r * pitch + y
  BY <1>6, <1>7
<1>10. LevelBytes(level) = pitch * rows
  BY DEF LevelBytes
<1>11. j + r \in Nat /\ j + r < rows /\ r \in Nat
  BY <1>4, <1>5
<1> HIDE DEF level, offset, pitch, rows, wide, high, x, y
<1>12. j * pitch + r * pitch = (j + r) * pitch /\ j * pitch \in Nat /\ r * pitch \in Nat
  BY <1>8, <1>11
<1> DEFINE row == j + r
<1>13. b.from - offset = row * pitch + x /\ b.to - 1 - offset = row * pitch + (x + y - 1) /\ b.from = offset + (row * pitch + x)
  BY <1>1, <1>8, <1>9, <1>12
<1>14. row \in Nat /\ row < rows
  BY <1>11
<1> HIDE DEF row
<1>15. /\ row * pitch \in Nat /\ pitch * rows \in Nat /\ row * pitch + pitch <= pitch * rows
  BY <1>5, <1>8, <1>14, RowsWithin
<1>16. x \in 0..(pitch - 1) /\ x + y - 1 \in 0..(pitch - 1)
  BY <1>8
<1>17. (row * pitch + x) \div pitch = row /\ (row * pitch + (x + y - 1)) \div pitch = row
  BY <1>8, <1>14, <1>16, RowOf
<1>18. offset <= b.from
  BY <1>1, <1>8, <1>13, <1>15
<1>19. b.to <= offset + pitch * rows
  <2>1. b.to = offset + row * pitch + (x + y)
    BY <1>1, <1>8, <1>9, <1>12 DEF row
  <2> QED
    BY <1>1, <1>8, <1>15, <2>1
<1> QED
  BY <1>10, <1>13, <1>17, <1>18, <1>19 DEF level, offset, pitch, rows

-----------------------------------------------------------------------------
(* What the ledger counts                                                  *)

LEMMA CountedIs ==
  ASSUME NEW s \in Shapes
  PROVE  TextureBytes(s, s.levels) = MappingSize(s)
<1> DEFINE n      == s.levels
           width  == Halvings(s.width, n)
           height == Halvings(s.height, n)
           bytes  == [l \in 0..(n - 1) |-> CountedBytes(width[l], height[l], s.block)]
<1>1. n \in Nat \ {0} /\ s.block \in Nat
  BY ShapeIs
<1>2. width \in [0..n -> Nat \ {0}] /\ height \in [0..n -> Nat \ {0}]
  BY ShapeIs, ExtentsAre
<1>3. LevelSizes(s) = [l \in 0..(n - 1) |-> BlocksFor(width[l]) * s.block * BlocksFor(height[l])]
  BY DEF LevelSizes
<1>4. TextureBytes(s, n) = Starts(bytes, n)[n]
  BY <1>1 DEF TextureBytes
<1>5. MappingSize(s) = Starts(LevelSizes(s), n)[n]
  <2>1. n \in 0..n
    BY <1>1
  <2> QED
    BY <2>1 DEF MappingSize, MipLevels, LevelSizes
<1>6. \A l \in 0..(n - 1) :
        CountedBytes(width[l], height[l], s.block) = BlocksFor(width[l]) * s.block * BlocksFor(height[l])
  <2> HIDE DEF width, height
  <2> TAKE l \in 0..(n - 1)
  <2>1. l \in 0..n
    BY <1>1
  <2>2. width[l] \in Nat \ {0} /\ height[l] \in Nat \ {0}
    BY <1>2, <2>1
  <2>3. /\ (AtLeastOne(width[l]) + 3) \div 4 = BlocksFor(width[l]) /\ BlocksFor(width[l]) \in Nat
        /\ (AtLeastOne(height[l]) + 3) \div 4 = BlocksFor(height[l]) /\ BlocksFor(height[l]) \in Nat
    BY <2>2, BlocksAre
  <2>4. \A a, b, c \in Nat : a * c * b = a * b * c
    OBVIOUS
  <2> QED
    BY <1>1, <2>3, <2>4 DEF CountedBytes
<1> HIDE DEF width, height, n
<1>7. bytes = LevelSizes(s)
  BY <1>3, <1>6
<1> QED
  BY <1>4, <1>5, <1>7 DEF n

LEMMA LengthsExist ==
  ASSUME NEW m \in Nat
  PROVE  \E f : f = [n \in 1..m |-> IF n = 1 THEN 1 ELSE f[n \div 2] + 1]
<1> DEFINE Is(f, k) == f = [n \in 1..k |-> IF n = 1 THEN 1 ELSE f[n \div 2] + 1]
           Bad      == {k \in Nat : ~ \E f : Is(f, k)}
<1> SUFFICES ASSUME m \in Bad PROVE FALSE
  OBVIOUS
<1>1. Bad \subseteq Nat
  OBVIOUS
<1> HIDE DEF Bad
<1>2. PICK k \in Bad : \A n \in Bad : k <= n
  BY <1>1, LeastNumber
<1>3. k \in Nat /\ ~ \E f : Is(f, k)
  BY <1>2 DEF Bad
<1>4. CASE k = 0
  <2> DEFINE f == [n \in 1..0 |-> 1]
  <2>1. f = [n \in 1..0 |-> IF n = 1 THEN 1 ELSE f[n \div 2] + 1]
    OBVIOUS
  <2> HIDE DEF f
  <2> QED
    BY <1>3, <1>4, <2>1
<1>5. CASE k # 0
  <2>1. k - 1 \in Nat /\ ~(k <= k - 1)
    BY <1>3, <1>5
  <2>2. PICK g : Is(g, k - 1)
    BY <1>2, <2>1 DEF Bad
  <2>3. \A n \in 1..(k - 1) : g[n] = IF n = 1 THEN 1 ELSE g[n \div 2] + 1
    BY <2>2
  <2> HIDE DEF Is
  <2> DEFINE f == [n \in 1..k |-> IF n = k /\ k # 1 THEN g[k \div 2] + 1 ELSE IF n = 1 THEN 1 ELSE g[n]]
             h == [n \in 1..k |-> IF n = 1 THEN 1 ELSE f[n \div 2] + 1]
  <2>4. \A n \in 1..(k - 1) : n \in 1..k /\ f[n] = g[n]
    <3> TAKE n \in 1..(k - 1)
    <3>1. n \in 1..k /\ n # k
      BY <1>3
    <3> QED
      BY <2>3, <3>1
  <2>5. \A n \in 1..k : n = 1 \/ n \div 2 \in 1..(k - 1)
    BY <1>3
  <2>6. \A n \in 1..k : f[n] = h[n]
    <3> TAKE n \in 1..k
    <3>1. CASE n = 1
      BY <3>1
    <3>2. CASE n # 1
      <4>1. n \div 2 \in 1..(k - 1) /\ f[n \div 2] = g[n \div 2]
        BY <2>4, <2>5, <3>2
      <4>2. h[n] = g[n \div 2] + 1
        BY <3>2, <4>1
      <4>3. CASE n = k
        BY <3>2, <4>2, <4>3
      <4>4. CASE n # k
        <5>1. n \in 1..(k - 1) /\ f[n] = g[n]
          BY <1>3, <3>2, <4>4
        <5>2. g[n] = g[n \div 2] + 1
          BY <2>3, <3>2, <5>1
        <5> QED
          BY <4>2, <5>1, <5>2
      <4> QED
        BY <4>3, <4>4
    <3> QED
      BY <3>1, <3>2
  <2>7. f = h
    BY <2>6
  <2>8. Is(f, k)
    <3> HIDE DEF f
    <3> QED
      BY <2>7 DEF Is
  <2> QED
    BY <1>3, <2>8
<1> QED
  BY <1>4, <1>5

(* How long a chain is, from any extent on.                                *)
LEMMA LengthsAre ==
  ASSUME NEW m \in Nat, NEW f, f = CHOOSE g : g = [n \in 1..m |-> IF n = 1 THEN 1 ELSE g[n \div 2] + 1]
  PROVE  \A n \in 1..m : f[n] = IF n = 1 THEN 1 ELSE f[n \div 2] + 1
<1> DEFINE Is(g) == g = [n \in 1..m |-> IF n = 1 THEN 1 ELSE g[n \div 2] + 1]
<1>1. \E g : Is(g)
  BY LengthsExist
<1>2. f = CHOOSE g : Is(g)
  OBVIOUS
<1> HIDE DEF Is
<1>3. Is(f)
  BY <1>1, <1>2
<1> DEFINE all == [n \in 1..m |-> IF n = 1 THEN 1 ELSE f[n \div 2] + 1]
<1>4. \A n \in 1..m : all[n] = IF n = 1 THEN 1 ELSE f[n \div 2] + 1
  OBVIOUS
<1>5. f = all
  BY <1>3 DEF Is
<1> HIDE DEF all
<1> QED
  BY <1>4, <1>5

(* A texture with all its levels has as many as its larger extent can be   *)
(* halved.                                                                 *)
LEMMA CompleteChain ==
  ASSUME NEW s \in Shapes, Complete(s)
  PROVE  ChainLength(s) = s.levels
<1> DEFINE n         == s.levels
           width     == Halvings(s.width, n)
           height    == Halvings(s.height, n)
           largest   == AtLeastOne(IF s.width > s.height THEN s.width ELSE s.height)
           Widest(l) == IF width[l] > height[l] THEN width[l] ELSE height[l]
           Length    == CHOOSE g : g = [k \in 1..largest |-> IF k = 1 THEN 1 ELSE g[k \div 2] + 1]
<1>1. n \in Nat \ {0} /\ s.width \in Nat /\ s.height \in Nat
  BY ShapeIs
<1>2. width \in [0..n -> Nat \ {0}] /\ height \in [0..n -> Nat \ {0}]
  BY <1>1, ExtentsAre
<1>3. /\ width[0] = AtLeastOne(s.width) /\ height[0] = AtLeastOne(s.height)
      /\ \A l \in 1..n : width[l] = HalfExtent(width[l - 1]) /\ height[l] = HalfExtent(height[l - 1])
  BY <1>1, HalvingsAre
<1>4. ChainLength(s) = Length[largest]
  BY DEF ChainLength
<1>5. \A l \in 0..(n - 1) : (width[l] = 1 /\ height[l] = 1) <=> l = n - 1
  <2>1. \A l \in 0..n : MipLevels(s)[l].width = width[l] /\ MipLevels(s)[l].height = height[l]
    BY DEF MipLevels
  <2>2. \A l \in 0..(n - 1) : l \in 0..n
    BY <1>1
  <2> HIDE DEF width, height
  <2> QED
    BY <2>1, <2>2 DEF Complete
<1> HIDE DEF width, height, n
<1>6. largest \in Nat \ {0} /\ largest = Widest(0)
  BY <1>1, <1>3 DEF AtLeastOne
<1>7. \A l \in 0..n : Widest(l) \in Nat \ {0}
  BY <1>2
<1>8. \A l \in 0..(n - 1) : Widest(l) = 1 <=> l = n - 1
  <2> TAKE l \in 0..(n - 1)
  <2>1. l \in 0..n
    BY <1>1
  <2>2. width[l] \in Nat \ {0} /\ height[l] \in Nat \ {0}
    BY <1>2, <2>1
  <2>3. Widest(l) = 1 <=> (width[l] = 1 /\ height[l] = 1)
    BY <2>2
  <2> QED
    BY <1>5, <2>3
<1>9. \A l \in 1..(n - 1) : Widest(l) = Widest(l - 1) \div 2 /\ Widest(l - 1) > 1 /\ l - 1 \in 0..(n - 1)
  <2> TAKE l \in 1..(n - 1)
  <2>1. l \in 1..n /\ l - 1 \in 0..n /\ l - 1 \in 0..(n - 1) /\ l - 1 # n - 1
    BY <1>1
  <2>2. width[l - 1] \in Nat \ {0} /\ height[l - 1] \in Nat \ {0}
    BY <1>2, <2>1
  <2>3. Widest(l - 1) > 1
    BY <1>7, <1>8, <2>1
  <2>4. width[l] = HalfExtent(width[l - 1]) /\ height[l] = HalfExtent(height[l - 1])
    BY <1>3, <2>1
  <2>5. \A a \in Nat \ {0} : HalfExtent(a) = IF a = 1 THEN 1 ELSE a \div 2
    BY DEF HalfExtent, AtLeastOne
  <2>6. Widest(l) = Widest(l - 1) \div 2
    BY <2>2, <2>3, <2>4, <2>5
  <2> QED
    BY <2>1, <2>3, <2>6
<1> HIDE DEF Widest, largest, Length
<1>10. \A k \in 1..largest : Length[k] = IF k = 1 THEN 1 ELSE Length[k \div 2] + 1
  BY <1>6, LengthsAre DEF Length
<1>11. \A l \in 0..(n - 1) : Widest(l) \in 1..largest
  <2> DEFINE Bad == {l \in 0..(n - 1) : Widest(l) \notin 1..largest}
  <2> SUFFICES ASSUME Bad # {} PROVE FALSE
    OBVIOUS
  <2>1. Bad \subseteq Nat
    OBVIOUS
  <2> HIDE DEF Bad
  <2>2. PICK l \in Bad : \A k \in Bad : l <= k
    BY <2>1, LeastNumber
  <2>3. l \in 0..(n - 1) /\ Widest(l) \notin 1..largest
    BY <2>2 DEF Bad
  <2>4. l # 0
    BY <1>6, <2>3
  <2>5. l \in 1..(n - 1) /\ ~(l <= l - 1)
    BY <2>3, <2>4
  <2>6. Widest(l) = Widest(l - 1) \div 2 /\ Widest(l - 1) > 1 /\ l - 1 \in 0..(n - 1)
    BY <1>9, <2>5
  <2>7. Widest(l - 1) \in 1..largest
    BY <2>2, <2>5, <2>6 DEF Bad
  <2> QED
    BY <1>6, <2>3, <2>6, <2>7
<1>12. \A d \in 0..(n - 1) : Length[Widest(n - 1 - d)] = d + 1
  <2> DEFINE Bad == {d \in 0..(n - 1) : Length[Widest(n - 1 - d)] # d + 1}
  <2> SUFFICES ASSUME Bad # {} PROVE FALSE
    OBVIOUS
  <2>1. Bad \subseteq Nat
    OBVIOUS
  <2> HIDE DEF Bad
  <2>2. PICK d \in Bad : \A k \in Bad : d <= k
    BY <2>1, LeastNumber
  <2>3. d \in 0..(n - 1) /\ Length[Widest(n - 1 - d)] # d + 1
    BY <2>2 DEF Bad
  <2>4. n - 1 - d \in 0..(n - 1) /\ Widest(n - 1 - d) \in 1..largest
    BY <1>1, <1>11, <2>3
  <2>5. CASE d = 0
    <3>1. n - 1 - d = n - 1 /\ Widest(n - 1 - d) = 1
      BY <1>1, <1>8, <2>4, <2>5
    <3>2. Length[1] = 1
      BY <1>10, <2>4, <3>1
    <3> QED
      BY <2>3, <2>5, <3>1, <3>2
  <2>6. CASE d # 0
    <3>1. d - 1 \in 0..(n - 1) /\ ~(d <= d - 1) /\ n - 1 - (d - 1) = n - d /\ n - d \in 1..(n - 1) /\ (n - d) - 1 = n - 1 - d
      BY <1>1, <2>3, <2>6
    <3>2. Length[Widest(n - 1 - (d - 1))] = d - 1 + 1
      BY <2>2, <3>1 DEF Bad
    <3>3. Length[Widest(n - d)] = d
      <4>1. d - 1 + 1 = d
        BY <2>3
      <4> QED
        BY <3>1, <3>2, <4>1
    <3>4. Widest(n - d) = Widest(n - 1 - d) \div 2 /\ Widest(n - 1 - d) > 1
      BY <1>9, <3>1
    <3>5. Length[Widest(n - 1 - d)] = Length[Widest(n - 1 - d) \div 2] + 1
      BY <1>10, <2>4, <3>4
    <3> QED
      BY <2>3, <3>3, <3>4, <3>5
  <2> QED
    BY <2>5, <2>6
<1>13. n - 1 \in 0..(n - 1) /\ n - 1 - (n - 1) = 0 /\ n - 1 + 1 = n
  BY <1>1
<1>14. Length[Widest(n - 1 - (n - 1))] = n - 1 + 1
  BY <1>12, <1>13
<1> QED
  BY <1>4, <1>6, <1>13, <1>14 DEF n

LEMMA LayoutsAreSound ==
  ASSUME NEW s \in Shapes
  PROVE  LayoutSound(s)
<1>1. TextureBytes(s, s.levels) = MappingSize(s)
  BY CountedIs
<1>2. ASSUME Complete(s) PROVE TextureBytes(s, 0) = MappingSize(s)
  <2>1. ChainLength(s) = s.levels /\ s.levels # 0
    BY <1>2, CompleteChain, ShapeIs
  <2>2. TextureBytes(s, 0) = TextureBytes(s, s.levels)
    BY <2>1 DEF TextureBytes
  <2> QED
    BY <1>1, <2>2
<1>3. ASSUME NEW l \in 0..(s.levels - 1)
      PROVE  LET level == MipLevels(s)[l]
                 end   == level.offset + LevelBytes(level)
             IN  /\ LevelBytes(level) > 0 /\ end = MipLevels(s)[l + 1].offset
                 /\ \A rect \in Rects(level) : \A b \in Touched(s, level, rect) :
                      /\ level.offset <= b.from /\ b.to <= end
                      /\ (b.from - level.offset) \div level.pitch = (b.to - 1 - level.offset) \div level.pitch
  <2> DEFINE level == MipLevels(s)[l]
  <2>1. LevelBytes(level) = LevelSizes(s)[l] /\ MipLevels(s)[l + 1].offset = level.offset + LevelSizes(s)[l]
    BY LevelAt DEF LevelBytes
  <2>2. LevelSizes(s)[l] > 0
    BY SizesAre
  <2>3. \A rect \in Rects(level) : \A b \in Touched(s, level, rect) :
          /\ level.offset <= b.from /\ b.to <= level.offset + LevelBytes(level)
          /\ (b.from - level.offset) \div level.pitch = (b.to - 1 - level.offset) \div level.pitch
    BY RectWithin
  <2> HIDE DEF level
  <2> QED
    BY <2>1, <2>2, <2>3 DEF level
<1> HIDE DEF MipLevels
<1> QED
  BY <1>1, <1>2, <1>3 DEF LayoutSound

-----------------------------------------------------------------------------
(* The staging textures                                                    *)

UploadSteps == {"idle", "map", "next", "acquire", "create", "copy", "update", "offer", "release"}
(* A thread has a staging texture at these.                                *)
Equipped    == {"copy", "update", "offer", "release"}
Uploads     == [step : UploadSteps, owed : SUBSET Levels, level : Levels,
                staging : Handles \cup {NoHandle}, passed : BOOLEAN]

UploadTypes ==
  /\ shape \in Shapes
  /\ DOMAIN view = Levels /\ DOMAIN section = Levels /\ DOMAIN gpu = Levels
  /\ marking \subseteq Levels /\ dirty \subseteq Levels
  /\ up \in [Uploaders -> Uploads]
  /\ \A t \in Uploaders : up[t].step = "idle" => up[t].owed = {}
  /\ alive \subseteq Handles /\ drained \subseteq alive
  /\ DOMAIN made = Handles /\ DOMAIN content = Handles

(* The extents that a thread needs of a staging texture.                   *)
Needs(t) == Extent(up[t].level)

(* Who has what: an upload, the pool or a rescue.                          *)
OwnersInv ==
  /\ \A t \in Uploaders : up[t].staging = NoHandle <=> up[t].step \notin Equipped
  /\ \A t \in Uploaders : up[t].staging # NoHandle =>
       /\ up[t].staging \in alive \ drained
       /\ made[up[t].staging] = Needs(t)
  /\ \A t, u \in Uploaders : up[t].staging = up[u].staging /\ up[t].staging # NoHandle => t = u
  /\ \A e \in entries :
       /\ e.handle \in alive \ drained
       /\ made[e.handle] = e.extent
       /\ \A t \in Uploaders : up[t].staging # e.handle
       /\ \A f \in entries : e.handle = f.handle => e = f
  /\ \A h \in alive : \/ h \in drained
                      \/ \E e \in entries : e.handle = h
                      \/ \E t \in Uploaders : up[t].staging = h

Worth == [e \in entries |-> e.bytes]
PoolInv ==
  /\ IsFiniteSet(entries) /\ \A e \in entries : e.bytes \in Nat
  /\ held = Total(Worth) /\ held <= Budget /\ Cardinality(entries) <= MaxEntries

(* Who is still to bring a level's present content, and who has a content. *)
Comes(t, l)   == l \in up[t].owed \/ (up[t].level = l /\ up[t].step \in {"acquire", "create", "copy"})
Carries(t, l) == up[t].level = l /\ up[t].step = "update"
Current(t, l) == content[up[t].staging] = section[l]
Pending(l)    == l \in dirty \cup marking \/ view[l] = "write" \/ \E t \in Uploaders : Comes(t, l)

(* Unless the level is pending or failed, somebody carries what was        *)
(* written last; or nobody carries anything else who would not know that   *)
(* it was passed.                                                          *)
LevelShown(l) ==
  \/ Pending(l) \/ l \in failed
  \/ \E t \in Uploaders : Carries(t, l) /\ Current(t, l)
  \/ /\ gpu[l] = section[l] \/ l \in overtaken
     /\ \A t \in Uploaders : Carries(t, l) => up[t].passed \/ Current(t, l)
ShownInv == \A l \in Levels : LevelShown(l)

UploadInv == UploadTypes /\ OwnersInv /\ PoolInv /\ ShownInv

LEMMA UploadIs ==
  ASSUME UploadTypes, NEW t \in Uploaders
  PROVE  /\ up[t] \in Uploads
         /\ up[t] = [step |-> up[t].step, owed |-> up[t].owed, level |-> up[t].level,
                     staging |-> up[t].staging, passed |-> up[t].passed]
         /\ up[t].step \in UploadSteps /\ up[t].owed \subseteq Levels /\ up[t].level \in Levels
         /\ up[t].staging \in Handles \cup {NoHandle} /\ up[t].passed \in BOOLEAN
<1>1. up[t] \in Uploads
  BY DEF UploadTypes
<1>2. PICK a \in UploadSteps, o \in SUBSET Levels, l \in Levels, h \in Handles \cup {NoHandle}, p \in BOOLEAN :
        up[t] = [step |-> a, owed |-> o, level |-> l, staging |-> h, passed |-> p]
  BY <1>1 DEF Uploads
<1> QED
  BY <1>1, <1>2

LEMMA LevelsAre ==
  ASSUME UploadTypes
  PROVE  shape.levels \in Nat \ {0} /\ 0 \in Levels /\ Levels \subseteq Nat
         /\ \A l \in Levels : l \in 0..shape.levels
<1>1. shape.levels \in Nat \ {0}
  BY UploadAssumption DEF UploadTypes
<1> QED
  BY <1>1 DEF Levels

LEMMA UploadStart == UploadInit => UploadInv
<1> SUFFICES ASSUME UploadInit PROVE UploadInv
  OBVIOUS
<1>1. /\ shape \in Shapes /\ view = [l \in Levels |-> "none"] /\ marking = {}
      /\ section = [l \in Levels |-> 0] /\ gpu = [l \in Levels |-> 0] /\ dirty = {}
      /\ up = [t \in Uploaders |-> Idle]
      /\ alive = {} /\ made = [h \in Handles |-> NoExtent] /\ content = [h \in Handles |-> 0]
      /\ entries = {} /\ held = 0 /\ drained = {}
  BY DEF UploadInit
<1>2. 0 \in Levels
  BY <1>1, UploadAssumption DEF Levels
<1>3. Idle \in Uploads /\ Idle.step = "idle" /\ Idle.staging = NoHandle /\ Idle.owed = {} /\ Idle.level = 0
  BY <1>2 DEF Idle, Uploads, UploadSteps
<1>4. UploadTypes
  BY <1>1, <1>3 DEF UploadTypes
<1>5. OwnersInv
  BY <1>1, <1>3 DEF OwnersInv, Equipped
<1>6. PoolInv
  <2>1. DOMAIN Worth = {}
    BY <1>1 DEF Worth
  <2>2. Total(Worth) = 0
    BY <2>1, NothingToCount
  <2>3. IsFiniteSet({}) /\ Cardinality({}) = 0
    BY FS_EmptySet
  <2> QED
    BY <1>1, <2>2, <2>3, UploadAssumption DEF PoolInv
<1>7. ShownInv
  BY <1>1, <1>3 DEF ShownInv, LevelShown, Carries
<1> QED
  BY <1>4, <1>5, <1>6, <1>7 DEF UploadInv

-----------------------------------------------------------------------------
(* A thread moves on                                                       *)

LEMMA OneMoves ==
  ASSUME UploadTypes, NEW t \in Uploaders, NEW new \in Uploads, up' = [up EXCEPT ![t] = new]
  PROVE  up' \in [Uploaders -> Uploads] /\ up'[t] = new /\ \A u \in Uploaders \ {t} : up'[u] = up[u]
BY DEF UploadTypes

LEMMA SameWorth ==
  ASSUME PoolInv, UNCHANGED <<entries, held>>
  PROVE  PoolInv'
<1>1. Worth' = Worth
  BY DEF Worth
<1>2. Total(Worth)' = Total(Worth)
  BY <1>1
<1> QED
  BY <1>2 DEF PoolInv

LEMMA SameLayout ==
  ASSUME UNCHANGED shape
  PROVE  Levels' = Levels /\ Uploads' = Uploads /\ \A l : Extent(l)' = Extent(l)
BY DEF Levels, Uploads, Extent, MipOf

LEMMA OwnersStay ==
  ASSUME OwnersInv, UNCHANGED <<shape, alive, made, entries, drained>>,
         \A u \in Uploaders : /\ up'[u].staging = up[u].staging
                              /\ up'[u].step \in Equipped <=> up[u].step \in Equipped
                              /\ up[u].staging # NoHandle => up'[u].level = up[u].level
  PROVE  OwnersInv'
<1>1. \A u \in Uploaders : up[u].staging # NoHandle => Needs(u)' = Needs(u)
  BY DEF Needs, Extent, MipOf
<1>2. alive' = alive /\ made' = made /\ entries' = entries /\ drained' = drained
  OBVIOUS
<1>3. (\A u \in Uploaders : up[u].staging = NoHandle <=> up[u].step \notin Equipped)'
  BY DEF OwnersInv
<1>4. \A u \in Uploaders : up'[u].staging # NoHandle =>
        /\ up'[u].staging \in alive' \ drained'
        /\ made'[up'[u].staging] = Needs(u)'
  BY <1>1, <1>2 DEF OwnersInv
<1>5. \A u, v \in Uploaders : up'[u].staging = up'[v].staging /\ up'[u].staging # NoHandle => u = v
  BY DEF OwnersInv
<1>6. \A e \in entries' :
       /\ e.handle \in alive' \ drained'
       /\ made'[e.handle] = e.extent
       /\ \A u \in Uploaders : up'[u].staging # e.handle
       /\ \A f \in entries' : e.handle = f.handle => e = f
  BY <1>2 DEF OwnersInv
<1>7. \A h \in alive' : \/ h \in drained'
                        \/ \E e \in entries' : e.handle = h
                        \/ \E u \in Uploaders : up'[u].staging = h
  BY <1>2 DEF OwnersInv
<1> QED
  BY <1>3, <1>4, <1>5, <1>6, <1>7 DEF OwnersInv

LEMMA MovesShown ==
  ASSUME ShownInv, NEW t \in Uploaders, \A u \in Uploaders \ {t} : up'[u] = up[u],
         UNCHANGED <<shape, view, marking, section, gpu, content, overtaken>>, failed \subseteq failed',
         \A l \in Levels : Comes(t, l) \/ l \in dirty => Comes(t, l)' \/ l \in dirty' \/ l \in failed',
         \A l \in Levels : Carries(t, l) => Carries(t, l)' \/ l \in failed',
         \A l \in Levels : Carries(t, l)' => Carries(t, l),
         up'[t].step = "update" => up'[t].staging = up[t].staging /\ up'[t].passed = up[t].passed
  PROVE  ShownInv'
<1>1. Levels' = Levels
  BY SameLayout
<1> SUFFICES ASSUME NEW l \in Levels, l \notin failed', ~Pending(l)' PROVE LevelShown(l)'
  BY <1>1 DEF ShownInv, LevelShown
<1>2. \A u \in Uploaders \ {t} : /\ Comes(u, l)' <=> Comes(u, l)
                                 /\ Carries(u, l)' <=> Carries(u, l)
                                 /\ Current(u, l)' <=> Current(u, l)
                                 /\ up'[u].passed = up[u].passed
  BY DEF Comes, Carries, Current
<1>3. ~Pending(l)
  BY <1>2 DEF Pending
<1>4. Carries(t, l)' <=> Carries(t, l)
  OBVIOUS
<1>5. Carries(t, l)' => (Current(t, l)' <=> Current(t, l)) /\ up'[t].passed = up[t].passed
  BY DEF Carries, Current
<1>6. \/ \E u \in Uploaders : Carries(u, l) /\ Current(u, l)
      \/ /\ gpu[l] = section[l] \/ l \in overtaken
         /\ \A u \in Uploaders : Carries(u, l) => up[u].passed \/ Current(u, l)
  BY <1>3 DEF ShownInv, LevelShown
<1>7. CASE \E u \in Uploaders : Carries(u, l) /\ Current(u, l)
  <2>1. PICK u \in Uploaders : Carries(u, l) /\ Current(u, l)
    BY <1>7
  <2>2. Carries(u, l)' /\ Current(u, l)'
    BY <1>2, <1>4, <1>5, <2>1
  <2>3. (\E v \in Uploaders : Carries(v, l) /\ Current(v, l))'
    BY <2>2
  <2> QED
    BY <2>3 DEF LevelShown
<1>8. CASE /\ gpu[l] = section[l] \/ l \in overtaken
           /\ \A u \in Uploaders : Carries(u, l) => up[u].passed \/ Current(u, l)
  <2>1. \A u \in Uploaders : Carries(u, l)' => up'[u].passed \/ Current(u, l)'
    BY <1>2, <1>4, <1>5, <1>8
  <2>2. gpu'[l] = section'[l] \/ l \in overtaken'
    BY <1>8
  <2> QED
    BY <2>1, <2>2 DEF LevelShown
<1> QED
  BY <1>6, <1>7, <1>8

(* A step of a thread that leaves the staging textures where they are.     *)
LEMMA QuietMove ==
  ASSUME UploadInv, NEW t \in Uploaders, NEW new \in Uploads, up' = [up EXCEPT ![t] = new],
         new.step = "idle" => new.owed = {},
         new.staging = up[t].staging, new.step \in Equipped <=> up[t].step \in Equipped,
         up[t].staging # NoHandle => new.level = up[t].level,
         UNCHANGED <<writeVars, gpu, stagingVars, poolVars, drained, overtaken>>,
         dirty' \subseteq Levels, failed \subseteq failed',
         \A l \in Levels : Comes(t, l) \/ l \in dirty =>
           \/ l \in new.owed \/ (new.level = l /\ new.step \in {"acquire", "create", "copy"})
           \/ l \in dirty' \/ l \in failed',
         \A l \in Levels : Carries(t, l) => (new.level = l /\ new.step = "update") \/ l \in failed',
         new.step = "update" => up[t].step = "update" /\ new.level = up[t].level /\ new.passed = up[t].passed
  PROVE  UploadInv'
<1> USE DEF UploadInv
<1>1. up' \in [Uploaders -> Uploads] /\ up'[t] = new /\ \A u \in Uploaders \ {t} : up'[u] = up[u]
  BY OneMoves
<1>2. /\ shape' = shape /\ view' = view /\ marking' = marking /\ section' = section /\ gpu' = gpu
      /\ alive' = alive /\ made' = made /\ content' = content /\ entries' = entries /\ held' = held
      /\ drained' = drained /\ overtaken' = overtaken
  BY DEF writeVars, stagingVars, poolVars
<1>3. UploadTypes'
  BY <1>1, <1>2, SameLayout DEF UploadTypes
<1>4. OwnersInv'
  <2>1. \A u \in Uploaders : /\ up'[u].staging = up[u].staging
                             /\ up'[u].step \in Equipped <=> up[u].step \in Equipped
                             /\ up[u].staging # NoHandle => up'[u].level = up[u].level
    BY <1>1
  <2> QED
    BY <1>2, <2>1, OwnersStay
<1>5. PoolInv'
  BY <1>2, SameWorth
<1>6. ShownInv'
  <2>1. \A l \in Levels : Comes(t, l) \/ l \in dirty => Comes(t, l)' \/ l \in dirty' \/ l \in failed'
    BY <1>1 DEF Comes
  <2>2. \A l \in Levels : Carries(t, l) => Carries(t, l)' \/ l \in failed'
    BY <1>1 DEF Carries
  <2>3. \A l \in Levels : Carries(t, l)' => Carries(t, l)
    BY <1>1 DEF Carries
  <2>4. up'[t].step = "update" => up'[t].staging = up[t].staging /\ up'[t].passed = up[t].passed
    BY <1>1
  <2> QED
    BY <1>1, <1>2, <2>1, <2>2, <2>3, <2>4, MovesShown
<1> QED
  BY <1>3, <1>4, <1>5, <1>6

LEMMA TakeKeeps ==
  ASSUME UploadInv, NEW t \in Uploaders, Take(t)
  PROVE  UploadInv'
<1> DEFINE new == [step |-> "map", owed |-> dirty, level |-> up[t].level, staging |-> up[t].staging, passed |-> up[t].passed]
<1>1. /\ up[t].step = "idle" /\ up' = [up EXCEPT ![t].step = "map", ![t].owed = dirty] /\ dirty' = {}
      /\ UNCHANGED <<writeVars, gpu, stagingVars, poolVars, drained, overtaken, failed>>
  BY DEF Take
<1>2. UploadTypes /\ dirty \subseteq Levels
  BY DEF UploadInv, UploadTypes
<1>3. up' = [up EXCEPT ![t] = new]
  <2>1. DOMAIN up = Uploaders /\ up[t] = [step |-> up[t].step, owed |-> up[t].owed, level |-> up[t].level,
                                          staging |-> up[t].staging, passed |-> up[t].passed]
    BY <1>2, UploadIs DEF UploadTypes
  <2>2. [up[t] EXCEPT !.step = "map", !.owed = dirty] = new
    <3> DEFINE on == [step |-> "map", owed |-> up[t].owed, level |-> up[t].level, staging |-> up[t].staging, passed |-> up[t].passed]
    <3>1. [up[t] EXCEPT !.step = "map"] = on
      BY <2>1
    <3>2. [on EXCEPT !.owed = dirty] = new
      OBVIOUS
    <3> HIDE DEF on, new
    <3> QED
      BY <3>1, <3>2
  <2> QED
    BY <1>1, <2>1, <2>2
<1>4. new \in Uploads
  BY <1>2, UploadIs DEF Uploads, UploadSteps
<1>5. /\ new.step = "map" /\ new.owed = dirty /\ new.level = up[t].level /\ new.staging = up[t].staging
  OBVIOUS
<1> HIDE DEF new
<1>6. \A l \in Levels : ~Carries(t, l) /\ (Comes(t, l) => l \in up[t].owed)
  BY <1>1 DEF Comes, Carries
<1>7. up[t].owed = {}
  BY <1>1, <1>2 DEF UploadTypes
<1> QED
  BY <1>1, <1>2, <1>3, <1>4, <1>5, <1>6, <1>7, QuietMove DEF Equipped

LEMMA MapFailsKeeps ==
  ASSUME UploadInv, NEW t \in Uploaders, MapFails(t)
  PROVE  UploadInv'
<1>1. /\ up[t].step = "map" /\ up' = [up EXCEPT ![t] = Idle] /\ dirty' = dirty \cup up[t].owed
      /\ UNCHANGED <<writeVars, gpu, stagingVars, poolVars, drained, overtaken, failed>>
  BY DEF MapFails
<1>2. UploadTypes /\ dirty \subseteq Levels /\ up[t].owed \subseteq Levels /\ 0 \in Levels
  BY UploadIs, LevelsAre DEF UploadInv, UploadTypes
<1>3. Idle \in Uploads /\ Idle.step = "idle" /\ Idle.owed = {} /\ Idle.staging = NoHandle
  BY <1>2 DEF Idle, Uploads, UploadSteps
<1>4. up[t].staging = NoHandle
  BY <1>1 DEF UploadInv, OwnersInv, Equipped
<1>5. \A l \in Levels : ~Carries(t, l) /\ (Comes(t, l) => l \in up[t].owed)
  BY <1>1 DEF Comes, Carries
<1> QED
  BY <1>1, <1>2, <1>3, <1>4, <1>5, QuietMove DEF Equipped

LEMMA MapSectionKeeps ==
  ASSUME UploadInv, NEW t \in Uploaders, MapSection(t)
  PROVE  UploadInv'
<1> DEFINE new == [step |-> "next", owed |-> up[t].owed, level |-> up[t].level, staging |-> up[t].staging, passed |-> up[t].passed]
<1>1. /\ up[t].step = "map" /\ up' = [up EXCEPT ![t].step = "next"]
      /\ UNCHANGED <<writeVars, gpu, dirty, stagingVars, poolVars, drained, overtaken, failed>>
  BY DEF MapSection, Step
<1>2. UploadTypes /\ dirty \subseteq Levels
  BY DEF UploadInv, UploadTypes
<1>3. up' = [up EXCEPT ![t] = new]
  <2>1. DOMAIN up = Uploaders /\ up[t] = [step |-> up[t].step, owed |-> up[t].owed, level |-> up[t].level,
                                          staging |-> up[t].staging, passed |-> up[t].passed]
    BY <1>2, UploadIs DEF UploadTypes
  <2>2. [up[t] EXCEPT !.step = "next"] = new
    BY <2>1
  <2> QED
    BY <1>1, <2>1, <2>2
<1>4. new \in Uploads
  BY <1>2, UploadIs DEF Uploads, UploadSteps
<1>5. new.step = "next" /\ new.owed = up[t].owed /\ new.level = up[t].level /\ new.staging = up[t].staging
  OBVIOUS
<1> HIDE DEF new
<1>6. \A l \in Levels : ~Carries(t, l) /\ (Comes(t, l) => l \in up[t].owed)
  BY <1>1 DEF Comes, Carries
<1> QED
  BY <1>1, <1>2, <1>3, <1>4, <1>5, <1>6, QuietMove DEF Equipped

LEMMA NextLevelKeeps ==
  ASSUME UploadInv, NEW t \in Uploaders, NextLevel(t)
  PROVE  UploadInv'
<1> DEFINE l == Min(up[t].owed)
           new == [step |-> "acquire", owed |-> up[t].owed \ {l}, level |-> l, staging |-> up[t].staging, passed |-> up[t].passed]
<1>1. /\ up[t].step = "next" /\ up[t].owed # {}
      /\ up' = [up EXCEPT ![t].step = "acquire", ![t].level = l, ![t].owed = @ \ {l}]
      /\ UNCHANGED <<writeVars, gpu, dirty, stagingVars, poolVars, drained, overtaken, failed>>
  BY DEF NextLevel
<1>2. UploadTypes /\ dirty \subseteq Levels /\ up[t].owed \subseteq Levels /\ Levels \subseteq Nat
  BY UploadIs, LevelsAre DEF UploadInv, UploadTypes
<1>3. l \in up[t].owed
  BY <1>1, <1>2, LeastMember
<1> HIDE DEF l
<1>4. up' = [up EXCEPT ![t] = new]
  <2>1. DOMAIN up = Uploaders /\ up[t] = [step |-> up[t].step, owed |-> up[t].owed, level |-> up[t].level,
                                          staging |-> up[t].staging, passed |-> up[t].passed]
    BY <1>2, UploadIs DEF UploadTypes
  <2>2. [up[t] EXCEPT !.step = "acquire", !.level = l, !.owed = @ \ {l}] = new
    <3> DEFINE on   == [step |-> "acquire", owed |-> up[t].owed, level |-> up[t].level, staging |-> up[t].staging, passed |-> up[t].passed]
               with == [step |-> "acquire", owed |-> up[t].owed, level |-> l, staging |-> up[t].staging, passed |-> up[t].passed]
    <3>1. [up[t] EXCEPT !.step = "acquire"] = on
      BY <2>1
    <3>2. [on EXCEPT !.level = l] = with
      OBVIOUS
    <3>3. [with EXCEPT !.owed = up[t].owed \ {l}] = new
      OBVIOUS
    <3> HIDE DEF on, with, new
    <3> QED
      BY <3>1, <3>2, <3>3
  <2> QED
    BY <1>1, <2>1, <2>2
<1>5. new \in Uploads
  BY <1>2, <1>3, UploadIs DEF Uploads, UploadSteps
<1>6. new.step = "acquire" /\ new.owed = up[t].owed \ {l} /\ new.level = l /\ new.staging = up[t].staging
  OBVIOUS
<1> HIDE DEF new
<1>7. up[t].staging = NoHandle
  BY <1>1 DEF UploadInv, OwnersInv, Equipped
<1>8. \A k \in Levels : ~Carries(t, k) /\ (Comes(t, k) => k = l \/ k \in up[t].owed \ {l})
  BY <1>1 DEF Comes, Carries
<1> QED
  BY <1>1, <1>2, <1>4, <1>5, <1>6, <1>7, <1>8, QuietMove DEF Equipped

LEMMA DoneKeeps ==
  ASSUME UploadInv, NEW t \in Uploaders, Done(t)
  PROVE  UploadInv'
<1>1. /\ up[t].step = "next" /\ up[t].owed = {} /\ up' = [up EXCEPT ![t] = Idle]
      /\ UNCHANGED <<writeVars, gpu, dirty, stagingVars, poolVars, drained, overtaken, failed>>
  BY DEF Done
<1>2. UploadTypes /\ dirty \subseteq Levels /\ 0 \in Levels
  BY LevelsAre DEF UploadInv, UploadTypes
<1>3. Idle \in Uploads /\ Idle.step = "idle" /\ Idle.owed = {} /\ Idle.staging = NoHandle
  BY <1>2 DEF Idle, Uploads, UploadSteps
<1>4. up[t].staging = NoHandle
  BY <1>1 DEF UploadInv, OwnersInv, Equipped
<1>5. \A l \in Levels : ~Carries(t, l) /\ ~Comes(t, l)
  BY <1>1 DEF Comes, Carries
<1> QED
  BY <1>1, <1>2, <1>3, <1>4, <1>5, QuietMove DEF Equipped

(* A thread goes from one point of upload_level to another; if its level   *)
(* does not come with it, it has failed.                                   *)
LEMMA StepKeeps ==
  ASSUME UploadInv, NEW t \in Uploaders, NEW to \in UploadSteps \ {"idle", "update"},
         up' = [up EXCEPT ![t].step = to], up[t].step # "idle",
         to \in Equipped <=> up[t].step \in Equipped, dirty' = dirty, failed \subseteq failed',
         \/ up[t].level \in failed'
         \/ up[t].step \in {"acquire", "create", "copy"} /\ to \in {"acquire", "create", "copy"}
         \/ up[t].step \notin {"acquire", "create", "copy", "update"},
         UNCHANGED <<writeVars, gpu, stagingVars, poolVars, drained, overtaken>>
  PROVE  UploadInv'
<1> DEFINE new == [step |-> to, owed |-> up[t].owed, level |-> up[t].level, staging |-> up[t].staging, passed |-> up[t].passed]
<1>1. UploadTypes /\ dirty \subseteq Levels
  BY DEF UploadInv, UploadTypes
<1>2. up' = [up EXCEPT ![t] = new]
  <2>1. DOMAIN up = Uploaders /\ up[t] = [step |-> up[t].step, owed |-> up[t].owed, level |-> up[t].level,
                                          staging |-> up[t].staging, passed |-> up[t].passed]
    BY <1>1, UploadIs DEF UploadTypes
  <2>2. [up[t] EXCEPT !.step = to] = new
    BY <2>1
  <2> QED
    BY <2>1, <2>2
<1>3. new \in Uploads
  BY <1>1, UploadIs DEF Uploads
<1>4. new.step = to /\ new.owed = up[t].owed /\ new.level = up[t].level /\ new.staging = up[t].staging
  OBVIOUS
<1> HIDE DEF new
<1>5. \A l \in Levels : Comes(t, l) \/ l \in dirty =>
           \/ l \in new.owed \/ (new.level = l /\ new.step \in {"acquire", "create", "copy"})
           \/ l \in dirty' \/ l \in failed'
  BY <1>4 DEF Comes
<1>6. \A l \in Levels : Carries(t, l) => l \in failed'
  BY DEF Carries
<1>7. to # "idle" /\ to # "update"
  OBVIOUS
<1> QED
  BY <1>1, <1>2, <1>3, <1>4, <1>5, <1>6, <1>7, QuietMove

LEMMA FailuresKeep ==
  ASSUME UploadInv, NEW t \in Uploaders, NoneFits(t) \/ GivesUp(t) \/ DriverFails(t) \/ OfferRefused(t)
  PROVE  UploadInv'
<1>1. CASE NoneFits(t)
  <2>1. /\ up[t].step = "acquire" /\ up' = [up EXCEPT ![t].step = "create"]
        /\ UNCHANGED <<writeVars, gpu, dirty, stagingVars, poolVars, drained, overtaken, failed>>
    BY <1>1 DEF NoneFits, Step
  <2> QED
    BY <2>1, StepKeeps DEF Equipped, UploadSteps
<1>2. CASE GivesUp(t)
  <2>1. /\ up[t].step \in {"acquire", "create"} /\ up' = [up EXCEPT ![t].step = "next"]
        /\ failed' = failed \cup {up[t].level}
        /\ UNCHANGED <<writeVars, gpu, dirty, stagingVars, poolVars, drained, overtaken>>
    BY <1>2 DEF GivesUp, Step
  <2> QED
    BY <2>1, StepKeeps DEF Equipped, UploadSteps
<1>3. CASE DriverFails(t)
  <2>1. /\ up[t].step \in {"copy", "update"} /\ up' = [up EXCEPT ![t].step = "offer"]
        /\ failed' = failed \cup {up[t].level}
        /\ UNCHANGED <<writeVars, gpu, dirty, stagingVars, poolVars, drained, overtaken>>
    BY <1>3 DEF DriverFails, Step
  <2> QED
    BY <2>1, StepKeeps DEF Equipped, UploadSteps
<1>4. CASE OfferRefused(t)
  <2>1. /\ up[t].step = "offer" /\ up' = [up EXCEPT ![t].step = "release"]
        /\ UNCHANGED <<writeVars, gpu, dirty, stagingVars, poolVars, drained, overtaken, failed>>
    BY <1>4 DEF OfferRefused, Step
  <2> QED
    BY <2>1, StepKeeps DEF Equipped, UploadSteps
<1> QED
  BY <1>1, <1>2, <1>3, <1>4

(* A thread gets a staging texture, or gives its own away.                 *)
LEMMA HandMoves ==
  ASSUME UploadInv, NEW t \in Uploaders, NEW to \in {"copy", "next"}, NEW h \in Handles \cup {NoHandle},
         up' = [up EXCEPT ![t].step = to, ![t].staging = h],
         to = "copy" => up[t].step \in {"acquire", "create"},
         to = "next" => up[t].step \in {"offer", "release"},
         UNCHANGED <<writeVars, gpu, dirty, content, failed, overtaken>>
  PROVE  /\ up' \in [Uploaders -> Uploads] /\ \A u \in Uploaders \ {t} : up'[u] = up[u]
         /\ up'[t].step = to /\ up'[t].staging = h /\ up'[t].level = up[t].level
         /\ \A u \in Uploaders : Needs(u)' = Needs(u)
         /\ (\A u \in Uploaders : up[u].step = "idle" => up[u].owed = {})'
         /\ ShownInv'
<1> DEFINE on  == [step |-> to, owed |-> up[t].owed, level |-> up[t].level, staging |-> up[t].staging, passed |-> up[t].passed]
           new == [step |-> to, owed |-> up[t].owed, level |-> up[t].level, staging |-> h, passed |-> up[t].passed]
<1>1. UploadTypes /\ UNCHANGED <<shape, view, marking, section>>
  BY DEF UploadInv, writeVars
<1>2. up' = [up EXCEPT ![t] = new]
  <2>1. DOMAIN up = Uploaders /\ up[t] = [step |-> up[t].step, owed |-> up[t].owed, level |-> up[t].level,
                                          staging |-> up[t].staging, passed |-> up[t].passed]
    BY <1>1, UploadIs DEF UploadTypes
  <2>2. [up[t] EXCEPT !.step = to] = on
    BY <2>1
  <2>3. [on EXCEPT !.staging = h] = new
    OBVIOUS
  <2> HIDE DEF on, new
  <2>4. [up[t] EXCEPT !.step = to, !.staging = h] = new
    BY <2>2, <2>3
  <2> QED
    BY <2>1, <2>4
<1>3. new \in Uploads
  BY <1>1, UploadIs DEF Uploads, UploadSteps
<1>4. new.step = to /\ new.owed = up[t].owed /\ new.level = up[t].level /\ new.staging = h
  OBVIOUS
<1> HIDE DEF on, new
<1>5. up' \in [Uploaders -> Uploads] /\ up'[t] = new /\ \A u \in Uploaders \ {t} : up'[u] = up[u]
  BY <1>1, <1>2, <1>3, OneMoves
<1>6. \A u \in Uploaders : up'[u].level = up[u].level
  BY <1>4, <1>5
<1>7. \A u \in Uploaders : Needs(u)' = Needs(u)
  BY <1>1, <1>6 DEF Needs, Extent, MipOf
<1>8. (\A u \in Uploaders : up[u].step = "idle" => up[u].owed = {})'
  BY <1>1, <1>4, <1>5 DEF UploadTypes
<1>9. ShownInv'
  <2>1. \A l \in Levels : Comes(t, l) \/ l \in dirty => Comes(t, l)' \/ l \in dirty' \/ l \in failed'
    BY <1>4, <1>5 DEF Comes
  <2>2. \A l \in Levels : ~Carries(t, l) /\ ~Carries(t, l)'
    BY <1>4, <1>5 DEF Carries
  <2>3. up'[t].step # "update" /\ failed \subseteq failed'
    BY <1>4, <1>5
  <2> QED
    BY <1>1, <1>5, <2>1, <2>2, <2>3, MovesShown DEF UploadInv
<1> QED
  BY <1>4, <1>5, <1>7, <1>8, <1>9

LEMMA TakenFromPoolKeeps ==
  ASSUME UploadInv, NEW t \in Uploaders, NEW e \in entries, Reuse(t, e)
  PROVE  UploadInv'
<1>1. /\ up[t].step = "acquire" /\ e.extent = Needs(t)
      /\ up' = [up EXCEPT ![t].step = "copy", ![t].staging = e.handle]
      /\ entries' = entries \ {e} /\ held' = held - e.bytes
      /\ UNCHANGED <<writeVars, gpu, dirty, stagingVars, drained, failed, overtaken>>
  BY DEF Reuse, Fits, Needs
<1>2. /\ shape' = shape /\ view' = view /\ marking' = marking /\ section' = section /\ gpu' = gpu /\ dirty' = dirty
      /\ alive' = alive /\ made' = made /\ content' = content /\ drained' = drained
  BY <1>1 DEF writeVars, stagingVars
<1>3. UploadTypes /\ OwnersInv /\ PoolInv
  BY DEF UploadInv
<1>4. e.handle \in alive \ drained /\ e.handle \in Handles /\ e.handle # NoHandle
  BY <1>3, UploadAssumption DEF UploadTypes, OwnersInv
<1>5. /\ up' \in [Uploaders -> Uploads] /\ \A u \in Uploaders \ {t} : up'[u] = up[u]
      /\ up'[t].step = "copy" /\ up'[t].staging = e.handle /\ up'[t].level = up[t].level
      /\ \A u \in Uploaders : Needs(u)' = Needs(u)
      /\ (\A u \in Uploaders : up[u].step = "idle" => up[u].owed = {})'
      /\ ShownInv'
  BY <1>1, <1>2, <1>4, HandMoves
<1>6. UploadTypes'
  BY <1>2, <1>3, <1>5, SameLayout DEF UploadTypes
<1>7. OwnersInv'
  <2>1. up[t].staging = NoHandle /\ made[e.handle] = Needs(t)
    BY <1>1, <1>3 DEF OwnersInv, Equipped
  <2>2. (\A u \in Uploaders : up[u].staging = NoHandle <=> up[u].step \notin Equipped)'
    BY <1>3, <1>4, <1>5 DEF OwnersInv, Equipped
  <2>3. \A u \in Uploaders : up'[u].staging # NoHandle =>
          up'[u].staging \in alive' \ drained' /\ made'[up'[u].staging] = Needs(u)'
    BY <1>2, <1>3, <1>4, <1>5, <2>1 DEF OwnersInv
  <2>4. \A u, v \in Uploaders : up'[u].staging = up'[v].staging /\ up'[u].staging # NoHandle => u = v
    BY <1>3, <1>5 DEF OwnersInv
  <2>5. \A f \in entries' :
         /\ f.handle \in alive' \ drained' /\ made'[f.handle] = f.extent
         /\ \A u \in Uploaders : up'[u].staging # f.handle
         /\ \A g \in entries' : f.handle = g.handle => f = g
    BY <1>1, <1>2, <1>3, <1>5 DEF OwnersInv
  <2>6. \A h \in alive' : \/ h \in drained'
                          \/ \E f \in entries' : f.handle = h
                          \/ \E u \in Uploaders : up'[u].staging = h
    <3> SUFFICES ASSUME NEW h \in alive, h \notin drained, ~ \E f \in entries' : f.handle = h
                 PROVE  \E u \in Uploaders : up'[u].staging = h
      BY <1>2
    <3>1. CASE h = e.handle
      BY <1>5, <3>1
    <3>2. CASE h # e.handle
      <4>1. ~ \E f \in entries : f.handle = h
        BY <1>1, <3>2
      <4>2. PICK u \in Uploaders : up[u].staging = h
        BY <1>3, <4>1 DEF OwnersInv
      <4>3. h # NoHandle
        BY <1>3, UploadAssumption DEF UploadTypes
      <4> QED
        BY <1>5, <2>1, <4>2, <4>3
    <3> QED
      BY <3>1, <3>2
  <2> QED
    BY <2>2, <2>3, <2>4, <2>5, <2>6 DEF OwnersInv
<1>8. PoolInv'
  <2>1. DOMAIN Worth = entries /\ DOMAIN Worth' = entries \ {e} /\ Tallied(Worth)
    BY <1>1, <1>3 DEF Worth, PoolInv, Tallied
  <2>2. Worth[e] = e.bytes /\ \A f \in DOMAIN Worth' : Worth[f] = Worth'[f]
    BY <1>1 DEF Worth
  <2>3. Total(Worth) = Total(Worth') + e.bytes /\ Total(Worth') \in Nat /\ e.bytes \in Nat
    BY <2>1, <2>2, OneLess
  <2>4. held' = Total(Worth') /\ held' <= Budget
    BY <1>1, <1>3, <2>3, UploadAssumption DEF PoolInv
  <2>5. IsFiniteSet(entries') /\ Cardinality(entries') <= Cardinality(entries)
    BY <1>1, <1>3, FS_Subset DEF PoolInv
  <2>6. Cardinality(entries') \in Nat /\ Cardinality(entries) \in Nat
    BY <1>3, <2>5, FS_CardinalityType DEF PoolInv
  <2>7. Cardinality(entries') <= MaxEntries
    BY <1>3, <2>5, <2>6, UploadAssumption DEF PoolInv
  <2>8. \A f \in entries' : f.bytes \in Nat
    BY <1>1, <1>3 DEF PoolInv
  <2> QED
    BY <2>4, <2>5, <2>7, <2>8 DEF PoolInv
<1> QED
  BY <1>5, <1>6, <1>7, <1>8 DEF UploadInv

LEMMA CreateKeeps ==
  ASSUME UploadInv, NEW t \in Uploaders, NEW h \in Handles, Create(t, h)
  PROVE  UploadInv'
<1>1. /\ up[t].step = "create" /\ h \notin alive
      /\ up' = [up EXCEPT ![t].step = "copy", ![t].staging = h]
      /\ alive' = alive \cup {h} /\ made' = [made EXCEPT ![h] = Needs(t)]
      /\ UNCHANGED <<writeVars, gpu, dirty, content, poolVars, drained, failed, overtaken>>
  BY DEF Create, Needs
<1>2. /\ shape' = shape /\ view' = view /\ marking' = marking /\ section' = section /\ gpu' = gpu /\ dirty' = dirty
      /\ content' = content /\ drained' = drained /\ entries' = entries /\ held' = held
  BY <1>1 DEF writeVars, poolVars
<1>3. UploadTypes /\ OwnersInv /\ PoolInv /\ h # NoHandle
  BY UploadAssumption DEF UploadInv
<1>4. /\ up' \in [Uploaders -> Uploads] /\ \A u \in Uploaders \ {t} : up'[u] = up[u]
      /\ up'[t].step = "copy" /\ up'[t].staging = h /\ up'[t].level = up[t].level
      /\ \A u \in Uploaders : Needs(u)' = Needs(u)
      /\ (\A u \in Uploaders : up[u].step = "idle" => up[u].owed = {})'
      /\ ShownInv'
  BY <1>1, HandMoves
<1>5. DOMAIN made' = Handles /\ made'[h] = Needs(t) /\ \A k \in alive : made'[k] = made[k]
  BY <1>1, <1>3 DEF UploadTypes
<1>6. UploadTypes'
  BY <1>1, <1>2, <1>3, <1>4, <1>5, SameLayout DEF UploadTypes
<1>7. OwnersInv'
  <2>1. \A u \in Uploaders : up[u].staging # h
    BY <1>1, <1>3 DEF OwnersInv
  <2>2. h \notin drained /\ up[t].staging = NoHandle /\ \A e \in entries : e.handle # h
    BY <1>1, <1>3 DEF OwnersInv, UploadTypes, Equipped
  <2>3. (\A u \in Uploaders : up[u].staging = NoHandle <=> up[u].step \notin Equipped)'
    BY <1>3, <1>4 DEF OwnersInv, Equipped
  <2>4. \A u \in Uploaders : up'[u].staging # NoHandle =>
          up'[u].staging \in alive' \ drained' /\ made'[up'[u].staging] = Needs(u)'
    BY <1>1, <1>2, <1>3, <1>4, <1>5, <2>2 DEF OwnersInv
  <2>5. \A u, v \in Uploaders : up'[u].staging = up'[v].staging /\ up'[u].staging # NoHandle => u = v
    BY <1>3, <1>4, <2>1 DEF OwnersInv
  <2>6. \A e \in entries' :
         /\ e.handle \in alive' \ drained' /\ made'[e.handle] = e.extent
         /\ \A u \in Uploaders : up'[u].staging # e.handle
         /\ \A f \in entries' : e.handle = f.handle => e = f
    BY <1>1, <1>2, <1>3, <1>4, <1>5, <2>2 DEF OwnersInv
  <2>7. \A k \in alive' : \/ k \in drained'
                          \/ \E e \in entries' : e.handle = k
                          \/ \E u \in Uploaders : up'[u].staging = k
    <3> SUFFICES ASSUME NEW k \in alive, k \notin drained, ~ \E e \in entries : e.handle = k
                 PROVE  \E u \in Uploaders : up'[u].staging = k
      BY <1>1, <1>2, <1>4
    <3>1. PICK u \in Uploaders : up[u].staging = k
      BY <1>3 DEF OwnersInv
    <3>2. k # NoHandle
      BY <1>3, UploadAssumption DEF UploadTypes
    <3> QED
      BY <1>4, <2>2, <3>1, <3>2
  <2> QED
    BY <2>3, <2>4, <2>5, <2>6, <2>7 DEF OwnersInv
<1>8. PoolInv'
  BY <1>2, <1>3, SameWorth
<1> QED
  BY <1>4, <1>6, <1>7, <1>8 DEF UploadInv

LEMMA CopyKeeps ==
  ASSUME UploadInv, NEW t \in Uploaders, Copy(t)
  PROVE  UploadInv'
<1> DEFINE on  == [step |-> "update", owed |-> up[t].owed, level |-> up[t].level, staging |-> up[t].staging, passed |-> up[t].passed]
           new == [step |-> "update", owed |-> up[t].owed, level |-> up[t].level, staging |-> up[t].staging, passed |-> FALSE]
<1>1. /\ up[t].step = "copy"
      /\ up' = [up EXCEPT ![t].step = "update", ![t].passed = FALSE]
      /\ content' = [content EXCEPT ![up[t].staging] = section[up[t].level]]
      /\ UNCHANGED <<writeVars, gpu, dirty, alive, made, poolVars, drained, failed, overtaken>>
  BY DEF Copy
<1>2. /\ shape' = shape /\ view' = view /\ marking' = marking /\ section' = section /\ gpu' = gpu /\ dirty' = dirty
      /\ alive' = alive /\ made' = made /\ drained' = drained /\ entries' = entries /\ held' = held
  BY <1>1 DEF writeVars, poolVars
<1>3. UploadTypes /\ OwnersInv /\ PoolInv /\ ShownInv
  BY DEF UploadInv
<1>4. up' = [up EXCEPT ![t] = new]
  <2>1. DOMAIN up = Uploaders /\ up[t] = [step |-> up[t].step, owed |-> up[t].owed, level |-> up[t].level,
                                          staging |-> up[t].staging, passed |-> up[t].passed]
    BY <1>3, UploadIs DEF UploadTypes
  <2>2. [up[t] EXCEPT !.step = "update"] = on
    BY <2>1
  <2>3. [on EXCEPT !.passed = FALSE] = new
    <3>1. \A no : [on EXCEPT !.passed = no] =
            [step |-> "update", owed |-> up[t].owed, level |-> up[t].level, staging |-> up[t].staging, passed |-> no]
      OBVIOUS
    <3> HIDE DEF on
    <3> QED
      BY <3>1
  <2> HIDE DEF on, new
  <2>4. [up[t] EXCEPT !.step = "update", !.passed = FALSE] = new
    BY <2>2, <2>3
  <2> QED
    BY <1>1, <2>1, <2>4
<1>5. new \in Uploads
  BY <1>3, UploadIs DEF Uploads, UploadSteps
<1>6. new.step = "update" /\ new.owed = up[t].owed /\ new.level = up[t].level /\ new.staging = up[t].staging
  OBVIOUS
<1> HIDE DEF on, new
<1>7. up' \in [Uploaders -> Uploads] /\ up'[t] = new /\ \A u \in Uploaders \ {t} : up'[u] = up[u]
  BY <1>3, <1>4, <1>5, OneMoves
<1>8. UploadTypes'
  BY <1>1, <1>2, <1>3, <1>6, <1>7, SameLayout DEF UploadTypes
<1>9. OwnersInv'
  <2>1. \A u \in Uploaders : /\ up'[u].staging = up[u].staging
                             /\ up'[u].step \in Equipped <=> up[u].step \in Equipped
                             /\ up[u].staging # NoHandle => up'[u].level = up[u].level
    BY <1>1, <1>6, <1>7 DEF Equipped
  <2> QED
    BY <1>2, <1>3, <2>1, OwnersStay
<1>10. PoolInv'
  BY <1>2, <1>3, SameWorth
<1>11. ShownInv'
  <2>1. Levels' = Levels /\ up[t].staging # NoHandle /\ up[t].staging \in Handles
    BY <1>1, <1>2, <1>3, UploadIs, SameLayout DEF OwnersInv, Equipped
  <2>2. content'[up[t].staging] = section[up[t].level] /\ \A h \in Handles : h # up[t].staging => content'[h] = content[h]
    BY <1>1, <1>3, <2>1 DEF UploadTypes
  <2> SUFFICES ASSUME NEW l \in Levels, l \notin failed', ~Pending(l)' PROVE LevelShown(l)'
    BY <2>1 DEF ShownInv, LevelShown
  <2>3. CASE l = up[t].level
    <3>1. Carries(t, l)' /\ Current(t, l)'
      BY <1>2, <1>6, <1>7, <2>2, <2>3 DEF Carries, Current
    <3>2. (\E u \in Uploaders : Carries(u, l) /\ Current(u, l))'
      BY <3>1
    <3> QED
      BY <3>2 DEF LevelShown
  <2>4. CASE l # up[t].level
    <3>1. \A u \in Uploaders : Comes(u, l)' <=> Comes(u, l)
      BY <1>6, <1>7, <2>4 DEF Comes
    <3>2. ~Pending(l) /\ l \notin failed
      BY <1>1, <1>2, <3>1 DEF Pending
    <3>3. ~Carries(t, l) /\ ~Carries(t, l)'
      BY <1>6, <1>7, <2>4 DEF Carries
    <3>4. \A u \in Uploaders \ {t} : Carries(u, l) =>
            Carries(u, l)' /\ (Current(u, l)' <=> Current(u, l)) /\ up'[u].passed = up[u].passed
      <4> SUFFICES ASSUME NEW u \in Uploaders \ {t}, Carries(u, l)
                   PROVE  Carries(u, l)' /\ (Current(u, l)' <=> Current(u, l)) /\ up'[u].passed = up[u].passed
        OBVIOUS
      <4>1. up[u].staging # NoHandle /\ up[u].staging \in Handles /\ up[u].staging # up[t].staging
        BY <1>3, <2>1, UploadIs DEF OwnersInv, Carries, Equipped
      <4>2. content'[up[u].staging] = content[up[u].staging] /\ up'[u] = up[u]
        BY <1>7, <2>2, <4>1
      <4> QED
        BY <1>2, <4>2 DEF Carries, Current
    <3>5. \A u \in Uploaders \ {t} : Carries(u, l)' => Carries(u, l)
      BY <1>7 DEF Carries
    <3>6. \/ \E u \in Uploaders : Carries(u, l) /\ Current(u, l)
          \/ /\ gpu[l] = section[l] \/ l \in overtaken
             /\ \A u \in Uploaders : Carries(u, l) => up[u].passed \/ Current(u, l)
      BY <1>3, <3>2 DEF ShownInv, LevelShown
    <3>7. CASE \E u \in Uploaders : Carries(u, l) /\ Current(u, l)
      <4>1. PICK u \in Uploaders : Carries(u, l) /\ Current(u, l)
        BY <3>7
      <4>2. Carries(u, l)' /\ Current(u, l)'
        BY <3>3, <3>4, <4>1
      <4>3. (\E v \in Uploaders : Carries(v, l) /\ Current(v, l))'
        BY <4>2
      <4> QED
        BY <4>3 DEF LevelShown
    <3>8. CASE /\ gpu[l] = section[l] \/ l \in overtaken
               /\ \A u \in Uploaders : Carries(u, l) => up[u].passed \/ Current(u, l)
      <4>1. \A u \in Uploaders : Carries(u, l)' => up'[u].passed \/ Current(u, l)'
        BY <3>3, <3>4, <3>5, <3>8
      <4>2. gpu'[l] = section'[l] \/ l \in overtaken'
        BY <1>1, <1>2, <3>8
      <4> QED
        BY <4>1, <4>2 DEF LevelShown
    <3> QED
      BY <3>6, <3>7, <3>8
  <2> QED
    BY <2>3, <2>4
<1> QED
  BY <1>8, <1>9, <1>10, <1>11 DEF UploadInv

(* Whoever carries the level and did not come first has been passed.       *)
LEMMA UpdateKeeps ==
  ASSUME UploadInv, NEW t \in Uploaders, Update(t)
  PROVE  UploadInv'
<1> DEFINE l   == up[t].level
           new == [step |-> "offer", owed |-> up[t].owed, level |-> up[t].level, staging |-> up[t].staging, passed |-> up[t].passed]
           Mark(u) == up[u].passed \/ (up[u].step = "update" /\ up[u].level = l)
           Old(u)  == [step |-> up[u].step, owed |-> up[u].owed, level |-> up[u].level, staging |-> up[u].staging, passed |-> Mark(u)]
<1>1. /\ up[t].step = "update"
      /\ gpu' = [gpu EXCEPT ![l] = content[up[t].staging]]
      /\ overtaken' = IF up[t].passed THEN overtaken \cup {l} ELSE overtaken \ {l}
      /\ up' = [u \in Uploaders |->
           IF u = t THEN [up[t] EXCEPT !.step = "offer"]
           ELSE [up[u] EXCEPT !.passed = up[u].passed \/ (up[u].step = "update" /\ up[u].level = l)]]
      /\ UNCHANGED <<writeVars, dirty, stagingVars, poolVars, drained, failed>>
  BY DEF Update
<1>2. /\ shape' = shape /\ view' = view /\ marking' = marking /\ section' = section /\ dirty' = dirty
      /\ alive' = alive /\ made' = made /\ content' = content /\ drained' = drained /\ entries' = entries /\ held' = held
      /\ failed' = failed
  BY <1>1 DEF writeVars, poolVars, stagingVars
<1>3. UploadTypes /\ OwnersInv /\ PoolInv /\ ShownInv /\ l \in Levels
  BY UploadIs DEF UploadInv
<1>4. up'[t] = new
  <2>1. up[t] = [step |-> up[t].step, owed |-> up[t].owed, level |-> up[t].level,
                 staging |-> up[t].staging, passed |-> up[t].passed]
    BY <1>3, UploadIs
  <2>2. [up[t] EXCEPT !.step = "offer"] = new
    BY <2>1
  <2> QED
    BY <1>1, <2>2
<1>5. \A u \in Uploaders \ {t} : up'[u] = Old(u)
  <2> TAKE u \in Uploaders \ {t}
  <2>1. up[u] = [step |-> up[u].step, owed |-> up[u].owed, level |-> up[u].level,
                 staging |-> up[u].staging, passed |-> up[u].passed]
    BY <1>3, UploadIs
  <2>2. [up[u] EXCEPT !.passed = Mark(u)] = Old(u)
    BY <2>1
  <2> QED
    BY <1>1, <2>2
<1>6. new \in Uploads /\ \A u \in Uploaders : Old(u) \in Uploads
  BY <1>3, UploadIs DEF Uploads, UploadSteps
<1>7. /\ new.step = "offer" /\ new.owed = up[t].owed /\ new.level = l /\ new.staging = up[t].staging
      /\ \A u \in Uploaders : /\ Old(u).step = up[u].step /\ Old(u).owed = up[u].owed /\ Old(u).level = up[u].level
                              /\ Old(u).staging = up[u].staging /\ Old(u).passed = Mark(u)
  OBVIOUS
<1>8. DOMAIN up' = Uploaders /\ up' = [u \in Uploaders |-> up'[u]]
  BY <1>1
<1> HIDE DEF new, Old, l
<1>9. up' \in [Uploaders -> Uploads]
  BY <1>4, <1>5, <1>6, <1>8
<1>10. /\ up'[t].step = "offer" /\ up'[t].owed = up[t].owed /\ up'[t].level = l
       /\ \A u \in Uploaders \ {t} : up'[u].step = up[u].step /\ up'[u].owed = up[u].owed /\ (up'[u].passed <=> Mark(u))
       /\ \A u \in Uploaders : up'[u].level = up[u].level /\ up'[u].staging = up[u].staging
  BY <1>4, <1>5, <1>7 DEF l
<1> HIDE DEF Mark
<1>11. UploadTypes'
  <2>1. DOMAIN gpu' = Levels
    BY <1>1, <1>3 DEF UploadTypes
  <2>2. (\A u \in Uploaders : up[u].step = "idle" => up[u].owed = {})'
    BY <1>3, <1>10 DEF UploadTypes
  <2> QED
    BY <1>2, <1>3, <1>9, <2>1, <2>2, SameLayout DEF UploadTypes
<1>12. OwnersInv'
  <2>1. \A u \in Uploaders : /\ up'[u].staging = up[u].staging
                             /\ up'[u].step \in Equipped <=> up[u].step \in Equipped
                             /\ up[u].staging # NoHandle => up'[u].level = up[u].level
    BY <1>1, <1>10 DEF Equipped
  <2> QED
    BY <1>2, <1>3, <2>1, OwnersStay
<1>13. PoolInv'
  BY <1>2, <1>3, SameWorth
<1>14. ShownInv'
  <2>1. Levels' = Levels
    BY <1>2, SameLayout
  <2>2. gpu'[l] = content[up[t].staging] /\ \A k \in Levels \ {l} : gpu'[k] = gpu[k] /\ (k \in overtaken' <=> k \in overtaken)
    BY <1>1, <1>3 DEF UploadTypes
  <2> SUFFICES ASSUME NEW k \in Levels, k \notin failed', ~Pending(k)' PROVE LevelShown(k)'
    BY <2>1 DEF ShownInv, LevelShown
  <2>3. \A u \in Uploaders : Comes(u, k)' <=> Comes(u, k)
    BY <1>1, <1>10 DEF Comes
  <2>4. ~Pending(k) /\ k \notin failed
    BY <1>2, <2>3 DEF Pending
  <2>5. \A u \in Uploaders \ {t} : (Carries(u, k)' <=> Carries(u, k)) /\ (Current(u, k)' <=> Current(u, k))
    BY <1>2, <1>10 DEF Carries, Current
  <2>6. ~Carries(t, k)'
    BY <1>10 DEF Carries
  <2>7. \A u \in Uploaders \ {t} : up[u].passed => up'[u].passed
    BY <1>10 DEF Mark
  <2>8. \/ \E u \in Uploaders : Carries(u, k) /\ Current(u, k)
        \/ /\ gpu[k] = section[k] \/ k \in overtaken
           /\ \A u \in Uploaders : Carries(u, k) => up[u].passed \/ Current(u, k)
    BY <1>3, <2>4 DEF ShownInv, LevelShown
  <2>9. CASE \E u \in Uploaders \ {t} : Carries(u, k) /\ Current(u, k)
    <3>1. PICK u \in Uploaders \ {t} : Carries(u, k) /\ Current(u, k)
      BY <2>9
    <3>2. Carries(u, k)' /\ Current(u, k)'
      BY <2>5, <3>1
    <3>3. (\E v \in Uploaders : Carries(v, k) /\ Current(v, k))'
      BY <3>2
    <3> QED
      BY <3>3 DEF LevelShown
  <2>10. CASE k = l /\ ~ \E u \in Uploaders \ {t} : Carries(u, k) /\ Current(u, k)
    <3>1. \A u \in Uploaders : Carries(u, k)' => up'[u].passed
      BY <1>10, <2>5, <2>6, <2>10 DEF Carries, Mark
    <3>2. Carries(t, k)
      BY <1>1, <2>10 DEF Carries, l
    <3>3. Current(t, k) \/ up[t].passed
      BY <2>8, <2>10, <3>2
    <3>4. gpu'[k] = section'[k] \/ k \in overtaken'
      BY <1>1, <1>2, <2>2, <2>10, <3>3 DEF Current
    <3> QED
      BY <3>1, <3>4 DEF LevelShown
  <2>11. CASE k # l /\ ~ \E u \in Uploaders \ {t} : Carries(u, k) /\ Current(u, k)
    <3>1. ~Carries(t, k)
      BY <2>11 DEF Carries, l
    <3>2. /\ gpu[k] = section[k] \/ k \in overtaken
          /\ \A u \in Uploaders : Carries(u, k) => up[u].passed \/ Current(u, k)
      BY <2>8, <2>11, <3>1
    <3>3. \A u \in Uploaders : Carries(u, k)' => up'[u].passed \/ Current(u, k)'
      BY <2>5, <2>6, <2>7, <3>2
    <3>4. gpu'[k] = section'[k] \/ k \in overtaken'
      BY <1>2, <2>2, <2>11, <3>2
    <3> QED
      BY <3>3, <3>4 DEF LevelShown
  <2> QED
    BY <2>9, <2>10, <2>11
<1> QED
  BY <1>11, <1>12, <1>13, <1>14 DEF UploadInv

LEMMA OfferKeeps ==
  ASSUME UploadInv, NEW t \in Uploaders, Offer(t)
  PROVE  UploadInv'
<1> DEFINE e == Entry(t)
<1>1. /\ up[t].step = "offer" /\ Accepts(e)
      /\ entries' = entries \cup {e} /\ held' = held + e.bytes
      /\ up' = [up EXCEPT ![t].step = "next", ![t].staging = NoHandle]
      /\ UNCHANGED <<writeVars, gpu, dirty, stagingVars, drained, failed, overtaken>>
  BY DEF Offer
<1>2. /\ shape' = shape /\ view' = view /\ marking' = marking /\ section' = section /\ gpu' = gpu /\ dirty' = dirty
      /\ alive' = alive /\ made' = made /\ content' = content /\ drained' = drained
  BY <1>1 DEF writeVars, stagingVars
<1>3. UploadTypes /\ OwnersInv /\ PoolInv
  BY DEF UploadInv
<1>4. e.handle = up[t].staging /\ e.extent = Needs(t) /\ e.bytes = LevelBytes(MipOf(up[t].level))
  BY DEF Entry, Needs
<1> HIDE DEF e
<1>5. up[t].staging # NoHandle /\ up[t].staging \in alive \ drained /\ made[up[t].staging] = Needs(t)
  BY <1>1, <1>3 DEF OwnersInv, Equipped
<1>6. e.bytes \in Nat
  <2>1. up[t].level \in 0..shape.levels /\ shape \in Shapes
    BY <1>3, UploadIs, LevelsAre DEF UploadTypes
  <2> QED
    BY <1>4, <2>1, LevelBytesInNat DEF MipOf
<1>7. /\ up' \in [Uploaders -> Uploads] /\ \A u \in Uploaders \ {t} : up'[u] = up[u]
      /\ up'[t].step = "next" /\ up'[t].staging = NoHandle /\ up'[t].level = up[t].level
      /\ \A u \in Uploaders : Needs(u)' = Needs(u)
      /\ (\A u \in Uploaders : up[u].step = "idle" => up[u].owed = {})'
      /\ ShownInv'
  BY <1>1, <1>2, HandMoves
<1>8. UploadTypes'
  BY <1>2, <1>3, <1>7, SameLayout DEF UploadTypes
<1>9. \A f \in entries : f.handle # e.handle
  BY <1>3, <1>4 DEF OwnersInv
<1>10. OwnersInv'
  <2>1. (\A u \in Uploaders : up[u].staging = NoHandle <=> up[u].step \notin Equipped)'
    BY <1>3, <1>7 DEF OwnersInv, Equipped
  <2>2. \A u \in Uploaders : up'[u].staging # NoHandle =>
          up'[u].staging \in alive' \ drained' /\ made'[up'[u].staging] = Needs(u)'
    BY <1>2, <1>3, <1>7 DEF OwnersInv
  <2>3. \A u, v \in Uploaders : up'[u].staging = up'[v].staging /\ up'[u].staging # NoHandle => u = v
    BY <1>3, <1>7 DEF OwnersInv
  <2>4. \A f \in entries' : f.handle \in alive' \ drained' /\ made'[f.handle] = f.extent
    BY <1>1, <1>2, <1>3, <1>4, <1>5 DEF OwnersInv
  <2>5. \A f \in entries' : \A u \in Uploaders : up'[u].staging # f.handle
    <3>1. \A u \in Uploaders \ {t} : up[u].staging # e.handle
      BY <1>3, <1>4, <1>5 DEF OwnersInv
    <3>2. \A f \in entries : f.handle # NoHandle
      BY <1>3, UploadAssumption DEF OwnersInv, UploadTypes
    <3> QED
      BY <1>1, <1>3, <1>4, <1>5, <1>7, <3>1, <3>2 DEF OwnersInv
  <2>6. \A f, g \in entries' : f.handle = g.handle => f = g
    BY <1>1, <1>3, <1>9 DEF OwnersInv
  <2>7. \A h \in alive' : \/ h \in drained'
                          \/ \E f \in entries' : f.handle = h
                          \/ \E u \in Uploaders : up'[u].staging = h
    <3> SUFFICES ASSUME NEW h \in alive, h \notin drained, ~ \E f \in entries' : f.handle = h
                 PROVE  \E u \in Uploaders : up'[u].staging = h
      BY <1>2
    <3>1. h # e.handle /\ ~ \E f \in entries : f.handle = h
      BY <1>1
    <3>2. PICK u \in Uploaders : up[u].staging = h
      BY <1>3, <3>1 DEF OwnersInv
    <3> QED
      BY <1>4, <1>7, <3>1, <3>2
  <2> QED
    BY <2>1, <2>2, <2>3, <2>4, <2>5, <2>6, <2>7 DEF OwnersInv
<1>11. PoolInv'
  <2>1. e \notin entries
    BY <1>9
  <2>2. DOMAIN Worth = entries /\ DOMAIN Worth' = entries \cup {e} /\ Tallied(Worth)
    BY <1>1, <1>3 DEF Worth, PoolInv, Tallied
  <2>3. Worth'[e] = e.bytes /\ \A f \in DOMAIN Worth : Worth'[f] = Worth[f]
    BY <1>1 DEF Worth
  <2>4. Total(Worth') = Total(Worth) + e.bytes /\ Total(Worth) \in Nat
    BY <1>6, <2>1, <2>2, <2>3, OneMore
  <2>5. held' = Total(Worth') /\ held' <= Budget
    BY <1>1, <1>3, <2>4 DEF PoolInv, Accepts
  <2>6. IsFiniteSet(entries') /\ Cardinality(entries') = Cardinality(entries) + 1 /\ Cardinality(entries) \in Nat
    BY <1>1, <1>3, <2>1, FS_AddElement, FS_CardinalityType DEF PoolInv
  <2>7. Cardinality(entries') <= MaxEntries
    BY <1>1, <2>6, UploadAssumption DEF Accepts
  <2>8. \A f \in entries' : f.bytes \in Nat
    BY <1>1, <1>3, <1>6 DEF PoolInv
  <2> QED
    BY <2>5, <2>6, <2>7, <2>8 DEF PoolInv
<1> QED
  BY <1>7, <1>8, <1>10, <1>11 DEF UploadInv

LEMMA ReleaseStagingKeeps ==
  ASSUME UploadInv, NEW t \in Uploaders, ReleaseStaging(t)
  PROVE  UploadInv'
<1> DEFINE mine == up[t].staging
<1>1. /\ up[t].step = "release"
      /\ up' = [up EXCEPT ![t].step = "next", ![t].staging = NoHandle]
      /\ alive' = alive \ {mine}
      /\ UNCHANGED <<writeVars, gpu, dirty, made, content, poolVars, drained, failed, overtaken>>
  BY DEF ReleaseStaging
<1>2. /\ shape' = shape /\ view' = view /\ marking' = marking /\ section' = section /\ gpu' = gpu /\ dirty' = dirty
      /\ made' = made /\ content' = content /\ drained' = drained /\ entries' = entries /\ held' = held
  BY <1>1 DEF writeVars, poolVars
<1>3. UploadTypes /\ OwnersInv /\ PoolInv
  BY DEF UploadInv
<1>4. /\ mine # NoHandle /\ mine \notin drained
      /\ \A u \in Uploaders \ {t} : up[u].staging # mine
      /\ \A e \in entries : e.handle # mine
  BY <1>1, <1>3 DEF OwnersInv, Equipped
<1>5. /\ up' \in [Uploaders -> Uploads] /\ \A u \in Uploaders \ {t} : up'[u] = up[u]
      /\ up'[t].step = "next" /\ up'[t].staging = NoHandle /\ up'[t].level = up[t].level
      /\ \A u \in Uploaders : Needs(u)' = Needs(u)
      /\ (\A u \in Uploaders : up[u].step = "idle" => up[u].owed = {})'
      /\ ShownInv'
  BY <1>1, <1>2, HandMoves
<1> HIDE DEF mine
<1>6. UploadTypes'
  BY <1>1, <1>2, <1>3, <1>4, <1>5, SameLayout DEF UploadTypes
<1>7. OwnersInv'
  <2>1. (\A u \in Uploaders : up[u].staging = NoHandle <=> up[u].step \notin Equipped)'
    BY <1>3, <1>5 DEF OwnersInv, Equipped
  <2>2. \A u \in Uploaders : up'[u].staging # NoHandle =>
          up'[u].staging \in alive' \ drained' /\ made'[up'[u].staging] = Needs(u)'
    BY <1>1, <1>2, <1>3, <1>4, <1>5 DEF OwnersInv
  <2>3. \A u, v \in Uploaders : up'[u].staging = up'[v].staging /\ up'[u].staging # NoHandle => u = v
    BY <1>3, <1>5 DEF OwnersInv
  <2>4. \A f \in entries' :
         /\ f.handle \in alive' \ drained' /\ made'[f.handle] = f.extent
         /\ \A g \in entries' : f.handle = g.handle => f = g
    BY <1>1, <1>2, <1>3, <1>4 DEF OwnersInv
  <2>5. \A f \in entries' : \A u \in Uploaders : up'[u].staging # f.handle
    <3>1. \A f \in entries : f.handle # NoHandle
      BY <1>3, UploadAssumption DEF OwnersInv, UploadTypes
    <3> QED
      BY <1>2, <1>3, <1>5, <3>1 DEF OwnersInv
  <2>6. \A h \in alive' : \/ h \in drained'
                          \/ \E f \in entries' : f.handle = h
                          \/ \E u \in Uploaders : up'[u].staging = h
    <3> SUFFICES ASSUME NEW h \in alive, h # mine, h \notin drained, ~ \E f \in entries : f.handle = h
                 PROVE  \E u \in Uploaders : up'[u].staging = h
      BY <1>1, <1>2
    <3>1. PICK u \in Uploaders : up[u].staging = h
      BY <1>3 DEF OwnersInv
    <3> QED
      BY <1>5, <3>1 DEF mine
  <2> QED
    BY <2>1, <2>2, <2>3, <2>4, <2>5, <2>6 DEF OwnersInv
<1>8. PoolInv'
  BY <1>2, <1>3, SameWorth
<1> QED
  BY <1>5, <1>6, <1>7, <1>8 DEF UploadInv

(* What a rescue, or the game, does while no upload moves.                 *)
LEMMA StillShown ==
  ASSUME ShownInv, UNCHANGED <<shape, gpu, content, up, overtaken>>,
         \A k \in Levels : \/ Pending(k)'
                           \/ /\ section'[k] = section[k] /\ (k \in failed => k \in failed')
                              /\ Pending(k) => Pending(k)'
  PROVE  ShownInv'
<1>1. Levels' = Levels
  BY SameLayout
<1> SUFFICES ASSUME NEW k \in Levels, k \notin failed', ~Pending(k)' PROVE LevelShown(k)'
  BY <1>1 DEF ShownInv, LevelShown
<1>2. section'[k] = section[k] /\ ~Pending(k) /\ k \notin failed
  OBVIOUS
<1>3. \A u \in Uploaders : (Carries(u, k)' <=> Carries(u, k)) /\ (Current(u, k)' <=> Current(u, k))
  BY <1>2 DEF Carries, Current
<1>4. \/ \E u \in Uploaders : Carries(u, k) /\ Current(u, k)
      \/ /\ gpu[k] = section[k] \/ k \in overtaken
         /\ \A u \in Uploaders : Carries(u, k) => up[u].passed \/ Current(u, k)
  BY <1>2 DEF ShownInv, LevelShown
<1>5. CASE \E u \in Uploaders : Carries(u, k) /\ Current(u, k)
  <2>1. PICK u \in Uploaders : Carries(u, k) /\ Current(u, k)
    BY <1>5
  <2>2. Carries(u, k)' /\ Current(u, k)'
    BY <1>3, <2>1
  <2>3. (\E v \in Uploaders : Carries(v, k) /\ Current(v, k))'
    BY <2>2
  <2> QED
    BY <2>3 DEF LevelShown
<1>6. CASE /\ gpu[k] = section[k] \/ k \in overtaken
           /\ \A u \in Uploaders : Carries(u, k) => up[u].passed \/ Current(u, k)
  <2>1. \A u \in Uploaders : Carries(u, k)' => up'[u].passed \/ Current(u, k)'
    BY <1>3, <1>6
  <2>2. gpu'[k] = section'[k] \/ k \in overtaken'
    BY <1>2, <1>6
  <2> QED
    BY <2>1, <2>2 DEF LevelShown
<1> QED
  BY <1>4, <1>5, <1>6

LEMMA StillOwned ==
  ASSUME OwnersInv, UNCHANGED <<shape, up, stagingVars, entries, drained>>
  PROVE  OwnersInv'
BY OwnersStay DEF stagingVars

LEMMA DrainKeeps ==
  ASSUME UploadInv, Drain
  PROVE  UploadInv'
<1>1. /\ drained' = drained \cup {e.handle : e \in entries} /\ entries' = {} /\ held' = 0
      /\ UNCHANGED <<writeVars, gpu, dirty, up, stagingVars, failed, overtaken>>
  BY DEF Drain
<1>2. /\ shape' = shape /\ view' = view /\ marking' = marking /\ section' = section /\ gpu' = gpu /\ dirty' = dirty
      /\ up' = up /\ alive' = alive /\ made' = made /\ content' = content /\ failed' = failed /\ overtaken' = overtaken
  BY <1>1 DEF writeVars, stagingVars
<1>3. UploadTypes /\ OwnersInv /\ ShownInv
  BY DEF UploadInv
<1>4. drained' \subseteq alive
  BY <1>1, <1>3 DEF UploadTypes, OwnersInv
<1>5. UploadTypes'
  BY <1>2, <1>3, <1>4, SameLayout DEF UploadTypes
<1>6. OwnersInv'
  <2>1. \A u \in Uploaders : Needs(u)' = Needs(u)
    BY <1>2 DEF Needs, Extent, MipOf
  <2>2. \A u \in Uploaders : up'[u].staging # NoHandle =>
          up'[u].staging \in alive' \ drained' /\ made'[up'[u].staging] = Needs(u)'
    BY <1>1, <1>2, <1>3, <2>1 DEF OwnersInv
  <2>3. \A h \in alive' : \/ h \in drained' \/ \E u \in Uploaders : up'[u].staging = h
    <3> SUFFICES ASSUME NEW h \in alive, h \notin drained' PROVE \E u \in Uploaders : up[u].staging = h
      BY <1>2
    <3>1. h \notin drained /\ ~ \E e \in entries : e.handle = h
      BY <1>1
    <3> QED
      BY <1>3, <3>1 DEF OwnersInv
  <2> QED
    BY <1>1, <1>2, <1>3, <2>2, <2>3 DEF OwnersInv
<1>7. PoolInv'
  <2>1. DOMAIN Worth' = {}
    BY <1>1 DEF Worth
  <2>2. Total(Worth') = 0
    BY <2>1, NothingToCount
  <2> QED
    BY <1>1, <2>2, FS_EmptySet, UploadAssumption DEF PoolInv
<1>8. ShownInv'
  <2>1. \A k \in Levels : Pending(k) <=> Pending(k)'
    BY <1>2 DEF Pending, Comes
  <2> QED
    BY <1>2, <1>3, <2>1, StillShown
<1> QED
  BY <1>5, <1>6, <1>7, <1>8 DEF UploadInv

LEMMA ReleaseDrainedKeeps ==
  ASSUME UploadInv, NEW h \in Handles, ReleaseDrained(h)
  PROVE  UploadInv'
<1>1. /\ h \in drained /\ drained' = drained \ {h} /\ alive' = alive \ {h}
      /\ UNCHANGED <<writeVars, gpu, dirty, up, made, content, poolVars, failed, overtaken>>
  BY DEF ReleaseDrained
<1>2. /\ shape' = shape /\ view' = view /\ marking' = marking /\ section' = section /\ gpu' = gpu /\ dirty' = dirty
      /\ up' = up /\ made' = made /\ content' = content /\ failed' = failed /\ overtaken' = overtaken
      /\ entries' = entries /\ held' = held
  BY <1>1 DEF writeVars, poolVars
<1>3. UploadTypes /\ OwnersInv /\ PoolInv /\ ShownInv
  BY DEF UploadInv
<1>4. UploadTypes'
  BY <1>1, <1>2, <1>3, SameLayout DEF UploadTypes
<1>5. OwnersInv'
  <2>1. \A u \in Uploaders : Needs(u)' = Needs(u)
    BY <1>2 DEF Needs, Extent, MipOf
  <2>2. \A u \in Uploaders : up'[u].staging # NoHandle =>
          up'[u].staging \in alive' \ drained' /\ made'[up'[u].staging] = Needs(u)'
    BY <1>1, <1>2, <1>3, <2>1 DEF OwnersInv
  <2>3. \A f \in entries' :
         /\ f.handle \in alive' \ drained' /\ made'[f.handle] = f.extent
         /\ \A u \in Uploaders : up'[u].staging # f.handle
         /\ \A g \in entries' : f.handle = g.handle => f = g
    BY <1>1, <1>2, <1>3 DEF OwnersInv
  <2>4. \A k \in alive' : \/ k \in drained'
                          \/ \E f \in entries' : f.handle = k
                          \/ \E u \in Uploaders : up'[u].staging = k
    BY <1>1, <1>2, <1>3 DEF OwnersInv
  <2> QED
    BY <1>1, <1>2, <1>3, <2>2, <2>3, <2>4 DEF OwnersInv
<1>6. PoolInv'
  BY <1>2, <1>3, SameWorth
<1>7. ShownInv'
  <2>1. \A k \in Levels : Pending(k) <=> Pending(k)'
    BY <1>2 DEF Pending, Comes
  <2> QED
    BY <1>2, <1>3, <2>1, StillShown
<1> QED
  BY <1>4, <1>5, <1>6, <1>7 DEF UploadInv

LEMMA GameKeeps ==
  ASSUME UploadInv, NEW l \in Levels,
         (\E how \in {"read", "write"} : LockRect(l, how)) \/ UnlockRect(l) \/ MarkDirty(l)
  PROVE  UploadInv'
<1>1. UploadTypes /\ OwnersInv /\ PoolInv /\ ShownInv
  BY DEF UploadInv
<1>2. UNCHANGED <<shape, gpu, up, alive, made, content, entries, held, drained, overtaken>>
  BY DEF LockRect, UnlockRect, MarkDirty, writeVars, stagingVars, poolVars
<1>3. DOMAIN view' = Levels /\ DOMAIN section' = Levels /\ marking' \subseteq Levels /\ dirty' \subseteq Levels
  BY <1>1 DEF LockRect, UnlockRect, MarkDirty, UploadTypes
<1>4. UploadTypes'
  BY <1>1, <1>2, <1>3, SameLayout DEF UploadTypes
<1>5. OwnersInv'
  BY <1>1, <1>2, StillOwned DEF stagingVars
<1>6. PoolInv'
  BY <1>1, <1>2, SameWorth
<1>7. \A k \in Levels : \/ Pending(k)'
                        \/ /\ section'[k] = section[k] /\ (k \in failed => k \in failed')
                           /\ Pending(k) => Pending(k)'
  <2>1. \A k \in Levels : Pending(k)' <=> \/ k \in dirty' \cup marking' \/ view'[k] = "write"
                                          \/ \E u \in Uploaders : Comes(u, k)
    BY <1>2 DEF Pending, Comes
  <2>2. CASE \E how \in {"read", "write"} : LockRect(l, how)
    <3>1. PICK how \in {"read", "write"} : LockRect(l, how)
      BY <2>2
    <3>2. /\ view[l] = "none" /\ view' = [view EXCEPT ![l] = how]
          /\ section' = IF how = "write" THEN [section EXCEPT ![l] = Mixed] ELSE section
          /\ marking' = marking /\ dirty' = dirty /\ failed' = failed
      BY <3>1 DEF LockRect
    <3>3. view'[l] = how /\ \A k \in Levels \ {l} : view'[k] = view[k] /\ section'[k] = section[k]
      BY <1>1, <3>2 DEF UploadTypes
    <3> QED
      BY <2>1, <3>2, <3>3 DEF Pending
  <2>3. CASE UnlockRect(l)
    <3>1. /\ view' = [view EXCEPT ![l] = "none"] /\ dirty' = dirty /\ failed' = failed
          /\ IF view[l] = "write"
             THEN section' = [section EXCEPT ![l] = writes] /\ marking' = marking \cup {l}
             ELSE section' = section /\ marking' = marking
      BY <2>3 DEF UnlockRect
    <3>2. \A k \in Levels \ {l} : view'[k] = view[k] /\ section'[k] = section[k] /\ marking \subseteq marking'
      BY <1>1, <3>1 DEF UploadTypes
    <3>3. CASE view[l] = "write"
      BY <2>1, <3>1, <3>2, <3>3 DEF Pending
    <3>4. CASE view[l] # "write"
      BY <2>1, <3>1, <3>2, <3>4 DEF Pending
    <3> QED
      BY <3>3, <3>4
  <2>4. CASE MarkDirty(l)
    <3>1. /\ view' = view /\ section' = section /\ marking' = marking \ {l}
          /\ dirty' = dirty \cup {l} /\ failed' = failed \ {l}
      BY <2>4 DEF MarkDirty
    <3>2. \A k \in Levels : k \in dirty \cup marking => k \in dirty' \cup marking'
      BY <3>1
    <3>3. l \in dirty' \cup marking' /\ \A k \in Levels \ {l} : k \in failed => k \in failed'
      BY <3>1
    <3>4. \A k \in Levels : Pending(k) => Pending(k)'
      BY <2>1, <3>1, <3>2 DEF Pending
    <3>5. Pending(l)'
      BY <2>1, <3>3
    <3> QED
      <4>1. \A k \in Levels \ {l} : section'[k] = section[k]
        BY <3>1
      <4>2. ASSUME NEW k \in Levels, k # l
            PROVE  section'[k] = section[k] /\ (Pending(k) => Pending(k)') /\ (k \in failed => k \in failed')
        BY <3>3, <3>4, <4>1, <4>2
      <4> HIDE DEF Pending
      <4> QED
        BY <3>5, <4>2
  <2> QED
    BY <2>2, <2>3, <2>4
<1>8. ShownInv'
  BY <1>1, <1>2, <1>7, StillShown
<1> QED
  BY <1>4, <1>5, <1>6, <1>8 DEF UploadInv

LEMMA UploadStep == UploadInv /\ [UploadNext]_uploadVars => UploadInv'
<1> SUFFICES ASSUME UploadInv, [UploadNext]_uploadVars PROVE UploadInv'
  OBVIOUS
<1>1. ASSUME NEW t \in Uploaders, UploaderNext(t) PROVE UploadInv'
  BY <1>1, TakeKeeps, MapFailsKeeps, MapSectionKeeps, NextLevelKeeps, DoneKeeps, TakenFromPoolKeeps, CreateKeeps,
     FailuresKeep, CopyKeeps, UpdateKeeps, OfferKeeps, ReleaseStagingKeeps DEF UploaderNext
<1>2. CASE UNCHANGED uploadVars
  <2>1. UNCHANGED <<shape, writes, view, marking, section, gpu, dirty, up, alive, made, content, entries, held,
                    drained, failed, overtaken>>
    BY <1>2 DEF uploadVars, writeVars, stagingVars, poolVars
  <2>2. UploadTypes' /\ OwnersInv' /\ PoolInv'
    BY <2>1, SameWorth, SameLayout, StillOwned DEF UploadInv, UploadTypes, stagingVars
  <2>3. \A k \in Levels : Pending(k) <=> Pending(k)'
    BY <2>1 DEF Pending, Comes
  <2>4. ShownInv'
    BY <2>1, <2>3, StillShown DEF UploadInv
  <2> QED
    BY <2>2, <2>4 DEF UploadInv
<1> QED
  BY <1>1, <1>2, GameKeeps, DrainKeeps, ReleaseDrainedKeeps DEF UploadNext

(* A set whose members are equal has one of them or none.                  *)
LEMMA OneOrNone ==
  ASSUME NEW S, \A x, y \in S : x = y
  PROVE  Cardinality(S) = IF S = {} THEN 0 ELSE 1
<1>1. CASE S = {}
  BY <1>1, FS_EmptySet
<1>2. CASE S # {}
  <2>1. PICK x \in S : TRUE
    BY <1>2
  <2>2. S = {x}
    BY <2>1
  <2> QED
    BY <1>2, <2>2, FS_Singleton
<1> QED
  BY <1>1, <1>2

LEMMA OwnedOnce == UploadInv => StagingOwnedOnce
<1> SUFFICES ASSUME UploadInv PROVE StagingOwnedOnce
  OBVIOUS
<1>1. UploadTypes /\ OwnersInv /\ PoolInv
  BY DEF UploadInv
<1>2. ASSUME NEW h \in Handles
      PROVE  Cardinality({e \in entries : e.handle = h}) + Cardinality({t \in Uploaders : Has(t, h)})
               + Cardinality({h} \cap drained) = Cardinality({h} \cap alive)
  <2> DEFINE pool    == {e \in entries : e.handle = h}
             uploads == {t \in Uploaders : Has(t, h)}
             rescue  == {h} \cap drained
             lives   == {h} \cap alive
  <2>1. h # NoHandle
    BY UploadAssumption
  <2>2. /\ \A x, y \in pool : x = y
        /\ \A x, y \in uploads : x = y
        /\ \A x, y \in rescue : x = y
        /\ \A x, y \in lives : x = y
    BY <1>1, <2>1 DEF OwnersInv, Has
  <2>3. /\ pool # {} => uploads = {} /\ rescue = {} /\ lives # {}
        /\ uploads # {} => rescue = {} /\ lives # {}
        /\ rescue # {} => lives # {}
    BY <1>1, <2>1 DEF OwnersInv, UploadTypes, Has
  <2>4. lives # {} => pool # {} \/ uploads # {} \/ rescue # {}
    BY <1>1 DEF OwnersInv, Has
  <2> HIDE DEF pool, uploads, rescue, lives
  <2>5. /\ Cardinality(pool) = IF pool = {} THEN 0 ELSE 1
        /\ Cardinality(uploads) = IF uploads = {} THEN 0 ELSE 1
        /\ Cardinality(rescue) = IF rescue = {} THEN 0 ELSE 1
        /\ Cardinality(lives) = IF lives = {} THEN 0 ELSE 1
    BY <2>2, OneOrNone
  <2>6. Cardinality(pool) + Cardinality(uploads) + Cardinality(rescue) = Cardinality(lives)
    BY <2>3, <2>4, <2>5
  <2> QED
    BY <2>6 DEF pool, uploads, rescue, lives
<1>3. \A e \in entries : made[e.handle] = e.extent
  BY <1>1 DEF OwnersInv
<1>4. \A t \in Uploaders : up[t].staging # NoHandle => made[up[t].staging] = Extent(up[t].level)
  BY <1>1 DEF OwnersInv, Needs
<1>5. held = Total([e \in entries |-> e.bytes]) /\ held <= Budget /\ Cardinality(entries) <= MaxEntries
  BY <1>1 DEF PoolInv, Worth
<1> QED
  BY <1>2, <1>3, <1>4, <1>5 DEF StagingOwnedOnce

LEMMA Shown == UploadInv => ShownUnlessOvertaken
<1> SUFFICES ASSUME UploadInv, NEW l \in Levels, Settled(l)
             PROVE  gpu[l] = section[l] \/ l \in failed \cup overtaken
  BY DEF ShownUnlessOvertaken
<1>1. \A t \in Uploaders : ~Comes(t, l) /\ ~Carries(t, l)
  BY DEF Settled, Comes, Carries
<1>2. ~Pending(l)
  BY <1>1 DEF Settled, Pending
<1> QED
  BY <1>1, <1>2 DEF UploadInv, ShownInv, LevelShown

(* Whatever is taken, offered and drained at once: a staging texture that  *)
(* exists has one owner, one that was released has none, every owner takes *)
(* it for what it was made for, and the pool's count of its bytes is exact *)
(* and within its limits.                                                  *)
THEOREM StagingIsOwnedOnce == UploadSpec => []StagingOwnedOnce
<1>1. UploadSpec => []UploadInv
  BY UploadStart, UploadStep, PTL DEF UploadSpec
<1> QED
  BY <1>1, OwnedOnce, PTL

(* However many threads bind the texture: once nobody owes a level or is   *)
(* on the way with it, the GPU shows the last write, unless its upload     *)
(* failed or was passed by another between its copy and UpdateSurface.     *)
THEOREM SettledIsShown == UploadSpec => []ShownUnlessOvertaken
<1>1. UploadSpec => []UploadInv
  BY UploadStart, UploadStep, PTL DEF UploadSpec
<1> QED
  BY <1>1, Shown, PTL

(* Whatever texture this is: its levels tile its section, a lock leads     *)
(* into the rows of its own level only, and the ledger counts as much as   *)
(* the section takes, also for a texture that was asked for with all its   *)
(* levels, for extents that are no multiple of a block and chains of any   *)
(* length. (append_mip_levels, LockRect, texture_bytes)                    *)
THEOREM SectionsAreSound == UploadSpec => []SectionSound
<1>1. UploadInv => SectionSound
  BY LayoutsAreSound DEF UploadInv, UploadTypes, SectionSound, SoundLayouts
<1> QED
  BY <1>1, UploadStart, UploadStep, PTL DEF UploadSpec
=============================================================================
