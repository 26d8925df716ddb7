------------------------- MODULE FreeListAllocator -------------------------
(***************************************************************************)
(* FreeListAllocator (allocators/free_list_allocator.h): first fit over a  *)
(* list of free blocks kept in the page itself, ordered by address, with   *)
(* neighbours merged when a block comes back.                              *)
(*                                                                         *)
(* Addresses count from the start of the page, which is aligned. A block   *)
(* is named by the address of its Node; the memory it hands out begins     *)
(* NodeSize later. `size` is what the Node of every block says, `free` the *)
(* list from head_, and `held` what the users of the allocator keep.       *)
(* A block is freed only by a user that holds it, and an allocator without *)
(* a page is not asked for one; freeing a null pointer changes nothing.    *)
(*                                                                         *)
(* A definition marked as a fault is what a plausible mistake would make   *)
(* of the one that follows it; nothing here uses it.                       *)
(***************************************************************************)
EXTENDS Naturals, Sequences

CONSTANTS
  Objects,      (* allocators: a page moves from one to another             *)
  NodeSize,     (* sizeof(Node)                                             *)
  Alignment,    (* alignof(Node)                                            *)
  Requests,     (* bound: the sizes asked for                               *)
  Capacities    (* bound: the capacities given to the constructor           *)

ASSUME LayoutAssumption ==
  /\ NodeSize \in Nat \ {0} /\ Alignment \in Nat \ {0}
  /\ Requests \subseteq Nat /\ Capacities \subseteq Nat

VARIABLES
  owner,    (* the objects whose page_ is the page                          *)
  taken,    (* the page allocator has given the page and not had it back    *)
  extent,   (* the capacity of the page                                     *)
  free,     (* the free list                                                *)
  size,     (* the size in every Node, free or not                          *)
  held,     (* the request each block in use was made for                   *)
  result    (* what the last call of allocate returned                      *)

blockVars == <<free, size, held>>
pageVars == <<owner, taken, extent>>
vars == <<pageVars, blockVars, result>>

(* bad_alloc: the memory of a block never begins at 0, where a Node is.    *)
Refused == 0

Nodes == DOMAIN size
Free == {free[i] : i \in DOMAIN free}
End(n) == n + NodeSize + size[n]

Aligned(a) == a % Alignment = 0
(* Fault: as if every request were a multiple of the alignment.            *)
AlignUpNot(a) == a
(* std::align: the first aligned address from a on.                        *)
AlignUp(a) == a + ((Alignment - (a % Alignment)) % Alignment)

Drop(f, S) == [x \in DOMAIN f \ S |-> f[x]]
Put(f, x, v) == [y \in DOMAIN f \cup {x} |-> IF y = x THEN v ELSE f[y]]

NoBlocks == [n \in {} |-> 0]

Init ==
  /\ owner = {} /\ taken = FALSE /\ extent = 0
  /\ free = <<>> /\ size = NoBlocks /\ held = NoBlocks
  /\ result = Refused
-----------------------------------------------------------------------------
(* The page.                                                               *)

(* The constructor. A capacity below one Node throws before a page is taken.*)
Construct(o, c) ==
  /\ ~taken /\ owner = {}
  /\ c >= NodeSize
  /\ owner' = {o} /\ taken' = TRUE /\ extent' = c
  /\ free' = <<0>> /\ size' = [n \in {0} |-> c - NodeSize]
  /\ UNCHANGED <<held, result>>

(* Move construction, and move assignment to an object without a page.     *)
Move(o, p) ==
  /\ o \in owner /\ o # p
  /\ owner' = (owner \ {o}) \cup {p}
  /\ UNCHANGED <<taken, extent, blockVars, result>>

(* The destructor, and assignment from an object that has no page.         *)
Destroy(o) ==
  /\ o \in owner /\ DOMAIN held = {}
  /\ owner' = owner \ {o} /\ taken' = FALSE /\ extent' = 0
  /\ free' = <<>> /\ size' = NoBlocks
  /\ UNCHANGED <<held, result>>
-----------------------------------------------------------------------------
(* allocate.                                                               *)

(* The first block of the list that is large enough.                       *)
Fits(i, r) ==
  /\ size[free[i]] >= r
  /\ \A j \in 1..(i - 1) : size[free[j]] < r

(* Where a block that is cut for r leaves a Node for its rest.             *)
Cut(n, r) == AlignUp(n + NodeSize + r)
(* Too little is left for a Node, as it is or after alignment.             *)
Whole(n, r) == size[n] < r + NodeSize \/ Cut(n, r) + NodeSize > End(n)

Remove(s, i) == SubSeq(s, 1, i - 1) \o SubSeq(s, i + 1, Len(s))

AllocateWhole(o, r) ==
  /\ o \in owner
  /\ \E i \in DOMAIN free :
       LET n == free[i] IN
       /\ Fits(i, r) /\ Whole(n, r)
       /\ free' = Remove(free, i)
       /\ held' = Put(held, n, r)
       /\ result' = n + NodeSize
  /\ UNCHANGED <<pageVars, size>>

(* Fault: the rest is put at the head of the list.                         *)
AllocateCutFront(o, r) ==
  /\ o \in owner
  /\ \E i \in DOMAIN free :
       LET n == free[i] m == Cut(free[i], r) IN
       /\ Fits(i, r) /\ ~Whole(n, r)
       /\ free' = <<m>> \o Remove(free, i)
       /\ size' = Put(Put(size, m, End(n) - m - NodeSize), n, m - (n + NodeSize))
       /\ held' = Put(held, n, r)
       /\ result' = n + NodeSize
  /\ UNCHANGED pageVars

AllocateCut(o, r) ==
  /\ o \in owner
  /\ \E i \in DOMAIN free :
       LET n == free[i] m == Cut(free[i], r) IN
       /\ Fits(i, r) /\ ~Whole(n, r)
       /\ free' = [free EXCEPT ![i] = m]
       /\ size' = Put(Put(size, m, End(n) - m - NodeSize), n, m - (n + NodeSize))
       /\ held' = Put(held, n, r)
       /\ result' = n + NodeSize
  /\ UNCHANGED pageVars

(* Nothing in the list is large enough: bad_alloc.                         *)
AllocateRefused(o, r) ==
  /\ o \in owner
  /\ \A i \in DOMAIN free : size[free[i]] < r
  /\ result' = Refused
  /\ UNCHANGED <<pageVars, blockVars>>
-----------------------------------------------------------------------------
(* deallocate.                                                             *)

(* Fault: the header of m is lost.                                         *)
MergeHeaderLost(s, n, m) == Drop(Put(s, n, s[n] + s[m]), {m})
(* n takes over the block m that follows it.                               *)
Merge(s, n, m) == Drop(Put(s, n, s[n] + NodeSize + s[m]), {m})

(* n is in front of every free block, or there is none.                    *)
DeallocateFront(o, n) ==
  LET joins == free # <<>> /\ End(n) = free[1] IN
  /\ o \in owner /\ n \in DOMAIN held
  /\ free # <<>> => n < free[1]
  /\ size' = IF joins THEN Merge(size, n, free[1]) ELSE size
  /\ free' = <<n>> \o SubSeq(free, IF joins THEN 2 ELSE 1, Len(free))
  /\ held' = Drop(held, {n})
  /\ UNCHANGED <<pageVars, result>>

(* The free block after which n belongs.                                   *)
Cursor(i, n) ==
  /\ free[1] <= n
  /\ \A j \in 2..i : free[j] < n
  /\ i < Len(free) => free[i + 1] >= n

(* Fault: the block in front of n is not looked at.                        *)
DeallocateForwardOnly(o, n) ==
  /\ o \in owner /\ n \in DOMAIN held
  /\ \E i \in DOMAIN free :
       LET after == i < Len(free) /\ End(n) = free[i + 1] IN
       /\ Cursor(i, n)
       /\ size' = IF after THEN Merge(size, n, free[i + 1]) ELSE size
       /\ free' = SubSeq(free, 1, i) \o <<n>> \o SubSeq(free, IF after THEN i + 2 ELSE i + 1, Len(free))
  /\ held' = Drop(held, {n})
  /\ UNCHANGED <<pageVars, result>>

DeallocateAfter(o, n) ==
  /\ o \in owner /\ n \in DOMAIN held
  /\ \E i \in DOMAIN free :
       LET after  == i < Len(free) /\ End(n) = free[i + 1]
           before == End(free[i]) = n
           joined == IF after THEN Merge(size, n, free[i + 1]) ELSE size
       IN /\ Cursor(i, n)
          /\ size' = IF before THEN Merge(joined, free[i], n) ELSE joined
          /\ free' = SubSeq(free, 1, i) \o (IF before THEN <<>> ELSE <<n>>)
                       \o SubSeq(free, IF after THEN i + 2 ELSE i + 1, Len(free))
  /\ held' = Drop(held, {n})
  /\ UNCHANGED <<pageVars, result>>
-----------------------------------------------------------------------------
Ownership ==
  \/ \E o \in Objects, c \in Capacities : Construct(o, c)
  \/ \E o, p \in Objects : Move(o, p)
  \/ \E o \in Objects : Destroy(o)

Allocate(o, r) == AllocateWhole(o, r) \/ AllocateCut(o, r) \/ AllocateRefused(o, r)
Deallocate(o, n) == DeallocateFront(o, n) \/ DeallocateAfter(o, n)

Next ==
  \/ Ownership
  \/ \E o \in Objects, r \in Requests : Allocate(o, r)
  \/ \E o \in Objects : \E n \in DOMAIN held : Deallocate(o, n)

Spec == Init /\ [][Next]_vars
-----------------------------------------------------------------------------
TypeOK ==
  /\ owner \subseteq Objects /\ taken \in BOOLEAN /\ extent \in Nat
  /\ free \in Seq(Nodes)
  /\ Nodes \subseteq Nat /\ size \in [Nodes -> Nat]
  /\ DOMAIN held \subseteq Nodes /\ held \in [DOMAIN held -> Nat]
  /\ result \in Nat

(* After any sequence of allocate and deallocate the blocks tile the page: *)
(* no two overlap, none reaches past its end, every byte is in one, and    *)
(* each is either in the list or in use.                                   *)
Disjoint == \A m, n \in Nodes : m < n => End(m) <= n
Inside == \A n \in Nodes : End(n) <= extent
Covered == \A u \in 0..(extent - 1) : \E n \in Nodes : n <= u /\ u < End(n)
Accounted == Free \cap DOMAIN held = {} /\ Free \cup DOMAIN held = Nodes
BlocksTile == Disjoint /\ Inside /\ Covered /\ Accounted

(* The list is in the order of addresses, without which deallocate finds   *)
(* neither neighbour, and no two free blocks touch: what was freed in any  *)
(* order is one block again.                                               *)
Sorted == \A i, j \in DOMAIN free : i < j => free[i] < free[j]
Coalesced == \A n \in Free : End(n) \notin Free
FreeListWhole == Sorted /\ Coalesced

(* Every Node, and so every pointer handed out, is aligned as Node is, and *)
(* the block behind it has the size that was asked for.                    *)
HandedOutFits == \A n \in Nodes : Aligned(n) /\ (n \in DOMAIN held => size[n] >= held[n])

(* The page is given back exactly once, by the one object that has it.     *)
PageOwnedOnce ==
  /\ taken <=> owner # {}
  /\ \A o, p \in owner : o = p

(* What it all is for: the users see a heap that hands out areas that do   *)
(* not overlap, and that refuses only when header and request fit nowhere. *)
Heap == INSTANCE PageHeap WITH
  used <- {[from |-> n, to |-> End(n)] : n \in DOMAIN held}
ImplementsHeap == Heap!Spec
=============================================================================
