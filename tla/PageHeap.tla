------------------------------ MODULE PageHeap ------------------------------
(***************************************************************************)
(* What FreeListAllocator (allocators/free_list_allocator.h) promises its  *)
(* users: a page from which areas are taken that never overlap, each large *)
(* enough for what was asked and for the header in front of it, and a      *)
(* refusal only when no room is left for both.                             *)
(***************************************************************************)
EXTENDS Naturals

CONSTANTS
  NodeSize,     (* sizeof(Node), the header in front of every block         *)
  Requests,     (* bound: the sizes asked for                               *)
  Capacities    (* bound: the sizes of pages                                *)

VARIABLES
  extent,   (* size of the page, 0 without one                             *)
  used,     (* the areas handed out: [from, to)                            *)
  result    (* what the last call of allocate gave                         *)

vars == <<extent, used, result>>

Area == [from : Nat, to : Nat]
(* bad_alloc: no area begins its memory at 0, where the header is.         *)
Refused == 0

(* [from, to) meets no area that is in use.                                *)
Clear(from, to) == \A a \in used : to <= a.from \/ a.to <= from

Init == extent = 0 /\ used = {} /\ result = Refused

Open(c) ==
  /\ extent = 0 /\ c >= NodeSize
  /\ extent' = c
  /\ UNCHANGED <<used, result>>

Close ==
  /\ used = {}
  /\ extent' = 0
  /\ UNCHANGED <<used, result>>

Take(r) ==
  \E from, to \in 0..extent :
    /\ from + NodeSize + r <= to
    /\ Clear(from, to)
    /\ used' = used \cup {[from |-> from, to |-> to]}
    /\ result' = from + NodeSize
    /\ UNCHANGED extent

Refuse(r) ==
  /\ \A from \in 0..extent : from + NodeSize + r <= extent => ~Clear(from, from + NodeSize + r)
  /\ result' = Refused
  /\ UNCHANGED <<extent, used>>

Return(a) ==
  /\ used' = used \ {a}
  /\ UNCHANGED <<extent, result>>

Next ==
  \/ \E c \in Capacities : Open(c)
  \/ Close
  \/ \E r \in Requests : Take(r) \/ Refuse(r)
  \/ \E a \in used : Return(a)

Spec == Init /\ [][Next]_vars
=============================================================================
