------------------------- MODULE AllocationTracking -------------------------
(***************************************************************************)
(* The detours on the engine's malloc, free and realloc                    *)
(* (src/engine_hooks.cpp), which keep a table of the large blocks that the *)
(* engine holds and their sum, below the hooks of HookScopes.              *)
(*                                                                         *)
(* The table has a mutex; the sum is an atomic beside it, and each is      *)
(* changed without the other. A block is followed only outside the         *)
(* engine's hooked functions, so that one may be made outside and freed    *)
(* inside.                                                                 *)
(***************************************************************************)
EXTENDS HookScopes, Integers, FiniteSets, Functions, Tally

CONSTANTS
  Addresses,         (* where blocks of the engine's heap may lie           *)
  Nowhere,           (* nullptr                                             *)
  Sizes,             (* bound: what is asked for                            *)
  LogThreshold,      (* config.allocation_log_threshold                     *)
  MaxCalls           (* bound: calls of malloc and realloc                  *)

ASSUME TrackingAssumption ==
  Sizes \subseteq Nat \ {0} /\ {LogThreshold, MaxCalls} \subseteq Nat /\ Nowhere \notin Addresses

VARIABLES
  heap,          (* the size of the block at an address, 0 without one      *)
  owned,         (* the blocks no thread is freeing                         *)
  op,            (* what a thread is doing in malloc, free or realloc       *)
  live,          (* live_allocations: the size recorded for an address      *)
  liveBytes,     (* live_allocation_bytes                                   *)
  calls,         (* calls so far                                            *)
  overwritten,   (* history: bytes of entries that others took the place of *)
  stale,         (* history: entries whose block went inside a hook         *)
  outside        (* history: blocks last placed outside every hook, but for *)
                 (* those that a realloc failed to move                     *)

trackVars == <<heap, owned, op, live, liveBytes, calls, overwritten, stale, outside>>
vars == <<scopeVars, trackVars>>

NoOp == [step |-> "idle", call |-> "none", size |-> 0, old |-> Nowhere, new |-> Nowhere,
         gone |-> 0]

Init ==
  /\ ScopesInit
  /\ heap = [a \in Addresses |-> 0] /\ owned = {}
  /\ op = [t \in Threads |-> NoOp]
  /\ live = [a \in {} |-> 0] /\ liveBytes = 0
  /\ calls = 0 /\ overwritten = 0 /\ stale = {} /\ outside = {}

Step(t, step) == op' = [op EXCEPT ![t].step = step]
Idle(t) == op[t] = NoOp
historyVars == <<overwritten, stale, outside>>

-----------------------------------------------------------------------------
(* The calls, up to the original's                                         *)

Malloc(t, size) ==
  /\ Idle(t) /\ calls < MaxCalls
  /\ calls' = calls + 1
  /\ op' = [op EXCEPT ![t] = [NoOp EXCEPT !.step = "original", !.call = "malloc", !.size = size]]
  /\ UNCHANGED <<heap, owned, live, liveBytes, historyVars, scopeVars>>

Free(t, a) ==
  /\ Idle(t) /\ a \in owned
  /\ owned' = owned \ {a}
  /\ op' = [op EXCEPT ![t] = [NoOp EXCEPT !.call = "free", !.old = a,
                                          !.step = IF inHook[t] THEN "original" ELSE "untrack"]]
  /\ UNCHANGED <<heap, live, liveBytes, calls, historyVars, scopeVars>>

(* Fault: the block that goes is not looked up.                            *)
ReallocForgets(t, a, size) ==
  /\ Idle(t) /\ a \in owned /\ calls < MaxCalls
  /\ calls' = calls + 1
  /\ owned' = owned \ {a}
  /\ op' = [op EXCEPT ![t] = [NoOp EXCEPT !.call = "realloc", !.old = a, !.size = size, !.step = "original"]]
  /\ UNCHANGED <<heap, live, liveBytes, historyVars, scopeVars>>

Realloc(t, a, size) ==
  /\ Idle(t) /\ a \in owned /\ calls < MaxCalls
  /\ calls' = calls + 1
  /\ owned' = owned \ {a}
  /\ op' = [op EXCEPT ![t] = [NoOp EXCEPT !.call = "realloc", !.old = a, !.size = size,
                                          !.step = IF inHook[t] THEN "original" ELSE "untrack"]]
  /\ UNCHANGED <<heap, live, liveBytes, historyVars, scopeVars>>

(* untrack_allocation: the entry under the lock, the bytes after it.       *)
Untrack(t) ==
  /\ op[t].step = "untrack"
  /\ LET a == op[t].old IN
       IF a \in DOMAIN live
       THEN /\ live' = Restrict(live, DOMAIN live \ {a})
            /\ op' = [op EXCEPT ![t].step = "subtract", ![t].gone = live[a]]
            /\ stale' = stale \ {a}
       ELSE /\ Step(t, "original") /\ UNCHANGED <<live, stale>>
  /\ UNCHANGED <<heap, owned, liveBytes, calls, overwritten, outside, scopeVars>>

Subtract(t) ==
  /\ op[t].step = "subtract"
  /\ liveBytes' = liveBytes - op[t].gone
  /\ op' = [op EXCEPT ![t].step = "original", ![t].gone = 0]
  /\ UNCHANGED <<heap, owned, live, calls, historyVars, scopeVars>>

-----------------------------------------------------------------------------
(* The engine's heap                                                       *)

HeapWith(old, a, size) ==
  [b \in Addresses |-> IF b = a THEN size ELSE IF b = old THEN 0 ELSE heap[b]]
(* The entry, if there is one, of a block that goes inside a hook.         *)
Forsaken(t) == IF inHook[t] THEN {op[t].old} \cap DOMAIN live ELSE {}
Gives(t) == op[t].step = "original" /\ op[t].call \in {"malloc", "realloc"}

(* The original of malloc or realloc places the block.                     *)
Place(t, a) ==
  /\ Gives(t)
  /\ heap[a] = 0 \/ a = op[t].old
  /\ heap' = HeapWith(op[t].old, a, op[t].size)
  /\ op' = [op EXCEPT ![t].new = a, ![t].step = "return"]
  /\ stale' = stale \cup Forsaken(t)
  /\ outside' = IF inHook[t] THEN outside \ {a, op[t].old} ELSE (outside \ {op[t].old}) \cup {a}
  /\ UNCHANGED <<owned, live, liveBytes, calls, overwritten, scopeVars>>

(* No room: a block that was to be reallocated stays where it is.          *)
PlaceFails(t) ==
  /\ Gives(t)
  /\ op' = [op EXCEPT ![t] = NoOp]
  /\ owned' = owned \cup ({op[t].old} \ {Nowhere})
  /\ outside' = outside \ {op[t].old}
  /\ stale' = stale \cup Forsaken(t)
  /\ UNCHANGED <<heap, live, liveBytes, calls, overwritten, scopeVars>>

FreeBlock(t) ==
  /\ op[t].step = "original" /\ op[t].call = "free"
  /\ heap' = HeapWith(op[t].old, op[t].old, 0)
  /\ stale' = stale \cup Forsaken(t)
  /\ outside' = outside \ {op[t].old}
  /\ op' = [op EXCEPT ![t] = NoOp]
  /\ UNCHANGED <<owned, live, liveBytes, calls, overwritten, scopeVars>>

-----------------------------------------------------------------------------
(* The way back                                                            *)

(* The caller has the block.                                               *)
HandOver(t) ==
  /\ op' = [op EXCEPT ![t] = NoOp]
  /\ owned' = owned \cup {op[t].new}

Returns(t) == op[t].step = "return"
Followed(t) == ~inHook[t] /\ op[t].size >= LogThreshold

ReturnUntracked(t) ==
  /\ Returns(t) /\ ~Followed(t) /\ HandOver(t)
  /\ UNCHANGED <<heap, live, liveBytes, calls, historyVars, scopeVars>>

(* track_allocation: the entry under the lock, the bytes after it.         *)
Track(t) ==
  /\ Returns(t) /\ Followed(t) /\ Step(t, "add")
  /\ LET a == op[t].new IN
       /\ live' = [b \in DOMAIN live \cup {a} |-> IF b = a THEN op[t].size ELSE live[b]]
       /\ overwritten' = IF a \in DOMAIN live THEN overwritten + live[a] ELSE overwritten
       /\ stale' = stale \ {a}
  /\ UNCHANGED <<heap, owned, liveBytes, calls, outside, scopeVars>>

(* Fault: the sum is made of the table, which by now has others' entries.  *)
AddAll(t) ==
  /\ op[t].step = "add" /\ HandOver(t)
  /\ liveBytes' = Total(live)
  /\ UNCHANGED <<heap, live, calls, historyVars, scopeVars>>

Add(t) ==
  /\ op[t].step = "add" /\ HandOver(t)
  /\ liveBytes' = liveBytes + op[t].size
  /\ UNCHANGED <<heap, live, calls, historyVars, scopeVars>>

-----------------------------------------------------------------------------
EnterHook(t, h) == Idle(t) /\ Enter(t, h) /\ UNCHANGED trackVars
LeaveHook(t)    == Idle(t) /\ Leave(t) /\ UNCHANGED trackVars

ThreadNext(t) ==
  \/ \E size \in Sizes : Malloc(t, size) \/ \E a \in owned : Realloc(t, a, size)
  \/ \E a \in owned : Free(t, a)
  \/ Untrack(t) \/ Subtract(t)
  \/ (\E a \in Addresses : Place(t, a)) \/ PlaceFails(t) \/ FreeBlock(t)
  \/ ReturnUntracked(t) \/ Track(t) \/ Add(t)
  \/ (\E h \in Hooks : EnterHook(t, h)) \/ LeaveHook(t)

Next == \E t \in Threads : ThreadNext(t)

Spec == Init /\ [][Next]_vars

-----------------------------------------------------------------------------
TypeOK ==
  /\ ScopesTypeOK
  /\ heap \in [Addresses -> Sizes \cup {0}] /\ owned \subseteq Addresses
  /\ op \in [Threads -> [step : {"idle", "untrack", "subtract", "original", "return", "add"},
                         call : {"none", "malloc", "free", "realloc"}, size : Sizes \cup {0},
                         old : Addresses \cup {Nowhere}, new : Addresses \cup {Nowhere}, gone : Sizes \cup {0}]]
  /\ DOMAIN live \subseteq Addresses /\ live \in [DOMAIN live -> Sizes]
  /\ liveBytes \in Int /\ stale \subseteq Addresses /\ outside \subseteq Addresses

(* What threads are about to add, and to take off.                         *)
Adding      == [t \in {u \in Threads : op[u].step = "add"} |-> op[t].size]
Subtracting == [t \in {u \in Threads : op[u].step = "subtract"} |-> op[t].gone]

(* The sum is exact whatever the threads do between the table and the sum, *)
(* up to the entries that a block at the same address has overwritten; in  *)
(* particular it never wraps below zero.                                   *)
BytesAccounted ==
  /\ liveBytes + Total(Adding) = Total(live) + Total(Subtracting) + overwritten
  /\ liveBytes >= 0

(* The table and the heap agree: an entry stands for a block that is there *)
(* and of that size, or for one that went while its thread was inside the  *)
(* engine; and a large block placed outside the engine has its entry.      *)
EntriesMatchHeap ==
  /\ \A a \in DOMAIN live \ stale : a \in outside /\ heap[a] = live[a]
  /\ \A a \in owned \cap outside : heap[a] >= LogThreshold => a \in DOMAIN live \ stale
=============================================================================
