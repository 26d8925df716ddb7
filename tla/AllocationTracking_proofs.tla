---------------------- MODULE AllocationTracking_proofs ----------------------
(***************************************************************************)
(* Proofs about AllocationTracking and HookScopes, for any threads, depth, *)
(* addresses, sizes and threshold.                                         *)
(*                                                                         *)
(* ScopesInv says what each frame found when its hook was entered, which   *)
(* is what leaving puts back. BlocksInv says which block a call has in     *)
(* hand: nobody else has it, and until it is handed over the table follows *)
(* only the call that has it.                                              *)
(*                                                                         *)
(* SumInv compares sums by counting their units: an entry that is made or  *)
(* taken away adds or removes a disjoint set of them.                      *)
(***************************************************************************)
EXTENDS AllocationTracking, FiniteSetTheorems, TLAPS

-----------------------------------------------------------------------------
(* The hooks on a thread's stack                                           *)

(* A frame set in_hook if no hook below it had, and remembers the context  *)
(* that the hooks below it make.                                           *)
FrameFound(s, i) ==
  /\ s[i].engaged <=> s[i].hook.guards /\ \A j \in 1..(i - 1) : ~s[j].hook.guards
  /\ Charged(s, i - 1, s[i].previous)

Found(s) == \A i \in 1..Len(s) : FrameFound(s, i)

ScopesInv == ScopesTypeOK /\ ScopesMatchStack /\ \A t \in Threads : Found(stack[t])

LEMMA HookShape ==
  ASSUME NEW h \in Hooks
  PROVE  h.guards \in BOOLEAN /\ (h.names = "same" \/ h.names \in Contexts)
<1>1. Texture.guards = TRUE /\ Engine.guards = TRUE /\ Create.guards = FALSE
  BY DEF Texture, Engine, Create
<1>2. Texture.names = "engine_texture" /\ Engine.names = "same" /\ Create.names = "d3d_create"
  BY DEF Texture, Engine, Create
<1>3. h = Texture \/ h = Engine \/ h = Create
  BY DEF Hooks
<1>4. h.guards \in BOOLEAN
  BY <1>1, <1>3
<1> QED
  BY <1>2, <1>3, <1>4 DEF Contexts

(* What is charged to n hooks depends on these n only.                     *)
LEMMA ChargedAlike ==
  ASSUME NEW s, NEW r, NEW n \in Nat, NEW c, Charged(s, n, c),
         \A i \in 1..n : s[i] = r[i]
  PROVE  Charged(r, n, c)
<1>1. \A i \in 1..n : \A j \in (i + 1)..n : j \in 1..n
  OBVIOUS
<1> QED
  BY <1>1 DEF Charged

(* Entering a hook that names a context makes it the innermost.            *)
LEMMA ChargedOneMore ==
  ASSUME NEW s, NEW n \in Nat, NEW c, Charged(s, n, c)
  PROVE  Charged(s, n + 1, IF s[n + 1].hook.names = "same" THEN c ELSE s[n + 1].hook.names)
<1>1. CASE s[n + 1].hook.names = "same"
  <2>1. \A i \in 1..(n + 1) : i \in 1..n \/ i = n + 1
    OBVIOUS
  <2>2. \A i \in 1..n : i \in 1..(n + 1)
    OBVIOUS
  <2>3. \A i \in 1..n : \A j \in (i + 1)..(n + 1) : j \in (i + 1)..n \/ j = n + 1
    OBVIOUS
  <2> QED
    BY <1>1, <2>1, <2>2, <2>3 DEF Charged
<1>2. CASE s[n + 1].hook.names # "same"
  <2>1. n + 1 \in 1..(n + 1) /\ ((n + 1) + 1)..(n + 1) = {}
    OBVIOUS
  <2> QED
    BY <1>2, <2>1 DEF Charged
<1> QED
  BY <1>1, <1>2

(* Leaving one that names none changes nothing.                            *)
LEMMA ChargedOneLess ==
  ASSUME NEW s, NEW n \in Nat, NEW c, Charged(s, n + 1, c), s[n + 1].hook.names = "same"
  PROVE  Charged(s, n, c)
<1>1. \A i \in 1..n : i \in 1..(n + 1)
  OBVIOUS
<1>2. \A i \in 1..(n + 1) : i \in 1..n \/ i = n + 1
  OBVIOUS
<1>3. \A i \in 1..n : \A j \in (i + 1)..n : j \in (i + 1)..(n + 1)
  OBVIOUS
<1> QED
  BY <1>1, <1>2, <1>3 DEF Charged

(* What a frame found depends on the frames up to it only.                 *)
LEMMA FoundAlike ==
  ASSUME NEW s, NEW r, NEW i \in Nat \ {0}, FrameFound(s, i),
         \A j \in 1..i : s[j] = r[j]
  PROVE  FrameFound(r, i)
<1>1. i - 1 \in Nat /\ (\A j \in 1..(i - 1) : j \in 1..i) /\ i \in 1..i
  OBVIOUS
<1>2. Charged(r, i - 1, s[i].previous)
  BY <1>1, ChargedAlike DEF FrameFound
<1> QED
  BY <1>1, <1>2 DEF FrameFound

(* A hook that is entered: its frame finds what the stack stood for.       *)
LEMMA Entered ==
  ASSUME NEW s \in Seq(Frame), NEW b \in BOOLEAN, NEW c \in Contexts, NEW h \in Hooks,
         b = Guarded(s), Charged(s, Len(s), c), Found(s),
         NEW f, f = [hook |-> h, engaged |-> h.guards /\ ~b, previous |-> c]
  PROVE  /\ Append(s, f) \in Seq(Frame)
         /\ (b \/ h.guards) = Guarded(Append(s, f))
         /\ Charged(Append(s, f), Len(s) + 1, IF h.names = "same" THEN c ELSE h.names)
         /\ Found(Append(s, f))
<1> DEFINE r == Append(s, f)
           n == Len(s)
<1>1. h.guards \in BOOLEAN
  BY HookShape
<1>2. f \in Frame
  BY <1>1 DEF Frame
<1>3. /\ r \in Seq(Frame) /\ n \in Nat /\ Len(r) = n + 1 /\ DOMAIN r = 1..(n + 1) /\ DOMAIN s = 1..n
      /\ r[n + 1] = f /\ \A i \in 1..n : s[i] = r[i]
  BY <1>2
<1>4. f.hook = h /\ (f.engaged <=> h.guards /\ ~b) /\ f.previous = c
  BY <1>1
<1> HIDE DEF r, n
<1>5. (\A i \in 1..(n + 1) : i \in 1..n \/ i = n + 1) /\ (\A i \in 1..n : i \in 1..(n + 1)) /\ n + 1 \in 1..(n + 1)
  BY <1>3
<1>6. (b \/ h.guards) = Guarded(r)
  BY <1>1, <1>3, <1>4, <1>5 DEF Guarded
<1>7. Charged(r, n, c)
  BY <1>3, ChargedAlike DEF n
<1>8. Charged(r, n + 1, IF h.names = "same" THEN c ELSE h.names)
  BY <1>3, <1>4, <1>7, ChargedOneMore
<1>9. ASSUME NEW i \in 1..n PROVE FrameFound(r, i)
  <2>1. i \in Nat \ {0} /\ \A j \in 1..i : j \in 1..n
    BY <1>3
  <2>2. FrameFound(s, i)
    BY DEF Found, n
  <2> QED
    BY <1>3, <2>1, <2>2, FoundAlike
<1>10. FrameFound(r, n + 1)
  <2>1. (n + 1) - 1 = n
    BY <1>3
  <2>2. b <=> \E i \in 1..n : r[i].hook.guards
    BY <1>3 DEF Guarded
  <2> QED
    BY <1>3, <1>4, <1>7, <2>1, <2>2 DEF FrameFound
<1>11. Found(r)
  BY <1>3, <1>5, <1>9, <1>10 DEF Found
<1> QED
  BY <1>3, <1>6, <1>8, <1>11 DEF r, n

(* A hook that is left: what it puts back is what the others stand for.    *)
LEMMA LeftBehind ==
  ASSUME NEW s \in Seq(Frame), NEW b \in BOOLEAN, NEW c \in Contexts,
         b = Guarded(s), Charged(s, Len(s), c), Found(s), s # << >>
  PROVE  /\ Front(s) \in Seq(Frame) /\ Len(Front(s)) = Len(s) - 1
         /\ (b /\ ~Last(s).engaged) = Guarded(Front(s))
         /\ Charged(Front(s), Len(s) - 1, IF Last(s).hook.names = "same" THEN c ELSE Last(s).previous)
         /\ Last(s).previous \in Contexts
         /\ Found(Front(s))
<1> DEFINE r == Front(s)
           n == Len(s) - 1
           f == Last(s)
<1>1. Len(s) \in Nat \ {0} /\ DOMAIN s = 1..Len(s)
  OBVIOUS
<1>2. /\ n \in Nat /\ Len(s) = n + 1 /\ DOMAIN s = 1..(n + 1) /\ f = s[n + 1]
      /\ r = SubSeq(s, 1, n)
  BY <1>1 DEF Front, Last
<1>3. /\ r \in Seq(Frame) /\ Len(r) = n /\ DOMAIN r = 1..n /\ (\A i \in 1..n : s[i] = r[i])
      /\ f \in Frame
  BY <1>1, <1>2
<1>4. f.hook.guards \in BOOLEAN /\ f.engaged \in BOOLEAN /\ f.previous \in Contexts
  <2>1. f.hook \in Hooks /\ f.engaged \in BOOLEAN /\ f.previous \in Contexts
    BY <1>3 DEF Frame
  <2> QED
    BY <2>1, HookShape
<1> HIDE DEF r, n, f
<1>5. (\A i \in 1..(n + 1) : i \in 1..n \/ i = n + 1) /\ (\A i \in 1..n : i \in 1..(n + 1)) /\ n + 1 \in 1..(n + 1)
  BY <1>2
<1>6. (f.engaged <=> f.hook.guards /\ \A j \in 1..n : ~s[j].hook.guards) /\ Charged(s, n, f.previous)
  <2>1. FrameFound(s, n + 1)
    BY <1>2, <1>5 DEF Found
  <2>2. (n + 1) - 1 = n
    BY <1>2
  <2> QED
    BY <1>2, <2>1, <2>2 DEF FrameFound
<1>7. (b /\ ~f.engaged) = Guarded(r)
  <2>1. b <=> \E i \in 1..(n + 1) : s[i].hook.guards
    BY <1>2 DEF Guarded
  <2>2. Guarded(r) <=> \E i \in 1..n : s[i].hook.guards
    BY <1>3 DEF Guarded
  <2>3. Guarded(r) \in BOOLEAN
    BY DEF Guarded
  <2> QED
    BY <1>2, <1>4, <1>5, <1>6, <2>1, <2>2, <2>3
<1>8. Charged(r, n, IF f.hook.names = "same" THEN c ELSE f.previous)
  <2>1. CASE f.hook.names = "same"
    <3>1. Charged(s, n + 1, c) /\ s[n + 1].hook.names = "same"
      BY <1>2, <2>1
    <3>2. Charged(s, n, c)
      BY <1>2, <3>1, ChargedOneLess
    <3>3. Charged(r, n, c)
      BY <1>2, <1>3, <3>2, ChargedAlike
    <3> QED
      BY <2>1, <3>3
  <2>2. CASE f.hook.names # "same"
    BY <1>2, <1>3, <1>6, <2>2, ChargedAlike
  <2> QED
    BY <2>1, <2>2
<1>9. Found(r)
  <2> SUFFICES ASSUME NEW i \in 1..n PROVE FrameFound(r, i)
    BY <1>3 DEF Found
  <2>1. i \in Nat \ {0} /\ \A j \in 1..i : j \in 1..n
    BY <1>2
  <2>2. FrameFound(s, i)
    BY <1>2, <1>5 DEF Found
  <2> QED
    BY <1>3, <2>1, <2>2, FoundAlike
<1> QED
  BY <1>3, <1>4, <1>7, <1>8, <1>9 DEF r, n, f

LEMMA ScopesInvInit == ScopesInit => ScopesInv
<1> SUFFICES ASSUME ScopesInit PROVE ScopesInv
  OBVIOUS
<1>1. ASSUME NEW t \in Threads PROVE stack[t] = << >> /\ inHook[t] = FALSE /\ context[t] = "none"
  BY DEF ScopesInit
<1>2. ScopesTypeOK
  BY DepthAssumption DEF ScopesInit, ScopesTypeOK, Contexts
<1>e. Len(<< >>) = 0 /\ DOMAIN << >> = {} /\ 1..0 = {}
  OBVIOUS
<1>3. ScopesMatchStack
  <2> SUFFICES ASSUME NEW t \in Threads
               PROVE  inHook[t] = Guarded(stack[t]) /\ Charged(stack[t], Len(stack[t]), context[t])
    BY DEF ScopesMatchStack
  <2>1. Guarded(stack[t]) = FALSE
    BY <1>1, <1>e DEF Guarded
  <2>2. Charged(stack[t], Len(stack[t]), context[t])
    BY <1>1, <1>e DEF Charged
  <2> QED
    BY <1>1, <2>1, <2>2
<1>4. \A t \in Threads : Found(stack[t])
  BY <1>1, <1>e DEF Found
<1> QED
  BY <1>2, <1>3, <1>4 DEF ScopesInv

LEMMA EnterKeeps ==
  ASSUME ScopesInv, NEW t \in Threads, NEW h \in Hooks, Enter(t, h)
  PROVE  ScopesInv'
<1> DEFINE f == [hook |-> h, engaged |-> h.guards /\ ~inHook[t], previous |-> context[t]]
<1>1. /\ stack \in [Threads -> Seq(Frame)] /\ Len(stack[t]) < MaxDepth
      /\ inHook \in [Threads -> BOOLEAN] /\ context \in [Threads -> Contexts]
  BY DEF ScopesInv, ScopesTypeOK, Enter
<1>2. h.guards \in BOOLEAN /\ (h.names = "same" \/ h.names \in Contexts)
  BY HookShape
<1>3. /\ stack' = [stack EXCEPT ![t] = Append(stack[t], f)]
      /\ inHook' = [inHook EXCEPT ![t] = inHook[t] \/ h.guards]
      /\ context' = [context EXCEPT ![t] = IF h.names = "same" THEN context[t] ELSE h.names]
  BY DEF Enter
<1>4. stack[t] \in Seq(Frame) /\ inHook[t] \in BOOLEAN /\ context[t] \in Contexts
  BY <1>1
<1>5. /\ inHook[t] = Guarded(stack[t]) /\ Charged(stack[t], Len(stack[t]), context[t])
      /\ Found(stack[t])
  BY DEF ScopesInv, ScopesMatchStack
<1> HIDE DEF f
<1>6. /\ Append(stack[t], f) \in Seq(Frame)
      /\ (inHook[t] \/ h.guards) = Guarded(Append(stack[t], f))
      /\ Charged(Append(stack[t], f), Len(stack[t]) + 1, IF h.names = "same" THEN context[t] ELSE h.names)
      /\ Found(Append(stack[t], f))
  BY <1>4, <1>5, Entered DEF f
<1>7. Len(Append(stack[t], f)) = Len(stack[t]) + 1 /\ Len(stack[t]) + 1 <= MaxDepth
  BY <1>1, <1>4, DepthAssumption
<1>8. /\ stack'[t] = Append(stack[t], f) /\ inHook'[t] = (inHook[t] \/ h.guards)
      /\ context'[t] = IF h.names = "same" THEN context[t] ELSE h.names
      /\ \A u \in Threads \ {t} : stack'[u] = stack[u] /\ inHook'[u] = inHook[u] /\ context'[u] = context[u]
  BY <1>1, <1>3
<1>9. ScopesTypeOK'
  <2>1. stack' \in [Threads -> Seq(Frame)]
    BY <1>1, <1>3, <1>6
  <2>2. inHook' \in [Threads -> BOOLEAN] /\ context' \in [Threads -> Contexts]
    BY <1>1, <1>2, <1>3, <1>4
  <2>3. \A u \in Threads : Len(stack'[u]) <= MaxDepth
    BY <1>7, <1>8 DEF ScopesInv, ScopesTypeOK
  <2> QED
    BY <2>1, <2>2, <2>3 DEF ScopesTypeOK
<1>10. ASSUME NEW u \in Threads
       PROVE  inHook'[u] = Guarded(stack'[u]) /\ Charged(stack'[u], Len(stack'[u]), context'[u]) /\ Found(stack'[u])
  <2>1. CASE u = t
    BY <1>6, <1>7, <1>8, <2>1
  <2>2. CASE u # t
    BY <1>8, <2>2 DEF ScopesInv, ScopesMatchStack
  <2> QED
    BY <2>1, <2>2
<1> QED
  BY <1>9, <1>10 DEF ScopesInv, ScopesMatchStack

LEMMA LeaveKeeps ==
  ASSUME ScopesInv, NEW t \in Threads, Leave(t)
  PROVE  ScopesInv'
<1> DEFINE f == Last(stack[t])
<1>1. /\ stack \in [Threads -> Seq(Frame)] /\ stack[t] # << >> /\ Len(stack[t]) <= MaxDepth
      /\ inHook \in [Threads -> BOOLEAN] /\ context \in [Threads -> Contexts]
  BY DEF ScopesInv, ScopesTypeOK, Leave
<1>2. /\ stack' = [stack EXCEPT ![t] = Front(stack[t])]
      /\ inHook' = [inHook EXCEPT ![t] = inHook[t] /\ ~f.engaged]
      /\ context' = [context EXCEPT ![t] = IF f.hook.names = "same" THEN context[t] ELSE f.previous]
  BY DEF Leave
<1>4. stack[t] \in Seq(Frame) /\ inHook[t] \in BOOLEAN /\ context[t] \in Contexts
  BY <1>1
<1>5. /\ inHook[t] = Guarded(stack[t]) /\ Charged(stack[t], Len(stack[t]), context[t])
      /\ Found(stack[t])
  BY DEF ScopesInv, ScopesMatchStack
<1>6. /\ Front(stack[t]) \in Seq(Frame) /\ Len(Front(stack[t])) = Len(stack[t]) - 1
      /\ (inHook[t] /\ ~f.engaged) = Guarded(Front(stack[t]))
      /\ Charged(Front(stack[t]), Len(stack[t]) - 1, IF f.hook.names = "same" THEN context[t] ELSE f.previous)
      /\ f.previous \in Contexts
      /\ Found(Front(stack[t]))
  BY <1>1, <1>4, <1>5, LeftBehind
<1>7. Len(Front(stack[t])) <= MaxDepth
  BY <1>1, <1>4, <1>6, DepthAssumption
<1> HIDE DEF f
<1>8. /\ stack'[t] = Front(stack[t]) /\ inHook'[t] = (inHook[t] /\ ~f.engaged)
      /\ context'[t] = IF f.hook.names = "same" THEN context[t] ELSE f.previous
      /\ \A u \in Threads \ {t} : stack'[u] = stack[u] /\ inHook'[u] = inHook[u] /\ context'[u] = context[u]
  BY <1>1, <1>2
<1>9. ScopesTypeOK'
  <2>1. stack' \in [Threads -> Seq(Frame)]
    BY <1>1, <1>2, <1>6
  <2>2. inHook' \in [Threads -> BOOLEAN] /\ context' \in [Threads -> Contexts]
    BY <1>1, <1>2, <1>4, <1>6
  <2>3. \A u \in Threads : Len(stack'[u]) <= MaxDepth
    BY <1>7, <1>8 DEF ScopesInv, ScopesTypeOK
  <2> QED
    BY <2>1, <2>2, <2>3 DEF ScopesTypeOK
<1>10. ASSUME NEW u \in Threads
       PROVE  inHook'[u] = Guarded(stack'[u]) /\ Charged(stack'[u], Len(stack'[u]), context'[u]) /\ Found(stack'[u])
  <2>1. CASE u = t
    BY <1>6, <1>8, <2>1
  <2>2. CASE u # t
    BY <1>8, <2>2 DEF ScopesInv, ScopesMatchStack
  <2> QED
    BY <2>1, <2>2
<1> QED
  BY <1>9, <1>10 DEF ScopesInv, ScopesMatchStack

LEMMA ScopesStay ==
  ASSUME ScopesInv, UNCHANGED scopeVars
  PROVE  ScopesInv'
BY DEF ScopesInv, ScopesTypeOK, ScopesMatchStack, scopeVars

-----------------------------------------------------------------------------
(* The blocks that calls have in hand                                      *)

Mine(t) ==
  IF op[t].step \in {"untrack", "subtract", "original"} THEN op[t].old
  ELSE IF op[t].step \in {"return", "add"} THEN op[t].new
  ELSE Nowhere

(* What a call knows at its step.                                          *)
Shape(t) ==
  /\ op[t].step \in {"untrack", "subtract"} =>
       ~inHook[t] /\ op[t].old \in Addresses /\ op[t].call \in {"free", "realloc"}
  /\ op[t].step = "original" => op[t].call \in {"malloc", "free", "realloc"}
  /\ op[t].call = "malloc" => op[t].old = Nowhere
  /\ op[t].call \in {"free", "realloc"} => op[t].old \in Addresses
  /\ op[t].call \in {"malloc", "realloc"} => op[t].size \in Sizes
  /\ op[t].step \in {"return", "add"} => op[t].new \in Addresses /\ op[t].call \in {"malloc", "realloc"}

(* The block in hand, the heap and the table.                              *)
Forgotten(t) ==
  op[t].step \in {"subtract", "original"} /\ ~inHook[t] => op[t].old \notin DOMAIN live
Placed(t) ==
  op[t].step = "return" => heap[op[t].new] = op[t].size /\ (op[t].new \in outside <=> ~inHook[t])
Entry(t) ==
  op[t].step = "add" => op[t].new \in DOMAIN live \ stale

Apart ==
  /\ \A t \in Threads : Mine(t) \notin owned
  /\ \A t, u \in Threads : Mine(t) = Mine(u) /\ Mine(t) # Nowhere => t = u
  /\ \A a \in owned : heap[a] # 0
  /\ \A t \in Threads : Mine(t) # Nowhere => heap[Mine(t)] # 0

CallsInv == \A t \in Threads : Shape(t) /\ Forgotten(t) /\ Placed(t) /\ Entry(t)

Steps == {"idle", "untrack", "subtract", "original", "return", "add"}
Ops == [step : Steps, call : {"none", "malloc", "free", "realloc"}, size : Sizes \cup {0},
        old : Addresses \cup {Nowhere}, new : Addresses \cup {Nowhere}, gone : Sizes \cup {0}]
OpsTypeOK == op \in [Threads -> Ops]

TrackTypeOK ==
  /\ heap \in [Addresses -> Sizes \cup {0}] /\ owned \subseteq Addresses
  /\ OpsTypeOK
  /\ DOMAIN live \subseteq Addresses /\ live \in [DOMAIN live -> Sizes]
  /\ liveBytes \in Int /\ stale \subseteq Addresses /\ outside \subseteq Addresses

(* A call that moves on.                                                   *)
LEMMA OpsStep ==
  ASSUME OpsTypeOK, NEW t \in Threads, NEW step \in Steps
  PROVE  /\ [op EXCEPT ![t].step = step] \in [Threads -> Ops]
         /\ [op EXCEPT ![t].step = step, ![t].gone = 0] \in [Threads -> Ops]
         /\ \A a \in Addresses : [op EXCEPT ![t].new = a, ![t].step = step] \in [Threads -> Ops]
         /\ \A n \in Sizes : [op EXCEPT ![t].step = step, ![t].gone = n] \in [Threads -> Ops]
<1>1. op \in [Threads -> Ops] /\ op[t] \in Ops
  BY DEF OpsTypeOK, Ops, Steps
<1>2. \A n \in Sizes \cup {0} : [[op[t] EXCEPT !.step = step] EXCEPT !.gone = n] \in Ops
  BY <1>1 DEF Ops
<1>3. [op[t] EXCEPT !.step = step] \in Ops
  BY <1>1 DEF Ops
<1>4. \A a \in Addresses : [[op[t] EXCEPT !.new = a] EXCEPT !.step = step] \in Ops
  BY <1>1 DEF Ops
<1> QED
  BY <1>1, <1>2, <1>3, <1>4

BlocksInv == TrackTypeOK /\ Apart /\ CallsInv /\ EntriesMatchHeap
Inv == ScopesInv /\ BlocksInv

LEMMA InvInit == Init => Inv
<1> SUFFICES ASSUME Init PROVE BlocksInv
  BY ScopesInvInit DEF Init, Inv
<1>1. \A t \in Threads : op[t] = NoOp
  BY DEF Init
<1>2. owned = {} /\ DOMAIN live = {} /\ outside = {} /\ stale = {}
  BY DEF Init
<1>3. TrackTypeOK
  BY <1>2, TrackingAssumption DEF Init, NoOp, TrackTypeOK, OpsTypeOK, Ops, Steps
<1>4. \A t \in Threads : Mine(t) = Nowhere
  BY <1>1 DEF Mine, NoOp
<1>5. Apart
  BY <1>2, <1>4 DEF Apart
<1>6. CallsInv
  BY <1>1 DEF CallsInv, Shape, Forgotten, Placed, Entry, NoOp
<1> QED
  BY <1>2, <1>3, <1>5, <1>6 DEF BlocksInv, EntriesMatchHeap

LEMMA NoOpFields ==
  NoOp.step = "idle" /\ NoOp.call = "none" /\ NoOp.old = Nowhere /\ NoOp.size = 0
BY DEF NoOp

LEMMA MallocKeeps ==
  ASSUME BlocksInv, NEW t \in Threads, NEW size \in Sizes, Malloc(t, size)
  PROVE  BlocksInv'
<1> USE TrackingAssumption, NoOpFields
<1>1. /\ op[t] = NoOp
      /\ op'[t].step = "original" /\ op'[t].call = "malloc" /\ op'[t].size = size /\ op'[t].old = Nowhere
      /\ \A u \in Threads \ {t} : op'[u] = op[u]
      /\ UNCHANGED <<heap, owned, live, liveBytes, stale, outside, inHook>>
  BY DEF Malloc, Idle, BlocksInv, TrackTypeOK, OpsTypeOK, Ops, Steps, historyVars, scopeVars, NoOp
<1>2. TrackTypeOK'
  BY <1>1 DEF Malloc, BlocksInv, TrackTypeOK, OpsTypeOK, Ops, Steps, NoOp
<1>3. \A u \in Threads : Mine(u)' = Mine(u)
  BY <1>1 DEF Mine
<1>4. Apart'
  BY <1>1, <1>3 DEF BlocksInv, Apart
<1>5. ASSUME NEW u \in Threads PROVE Shape(u)' /\ Forgotten(u)' /\ Placed(u)' /\ Entry(u)'
  <2>1. CASE u = t
    BY <1>1, <2>1 DEF Shape, Forgotten, Placed, Entry, BlocksInv, TrackTypeOK, OpsTypeOK, Ops, Steps
  <2>2. CASE u # t
    BY <1>1, <2>2 DEF Shape, Forgotten, Placed, Entry, BlocksInv, CallsInv
  <2> QED
    BY <2>1, <2>2
<1> QED
  BY <1>1, <1>2, <1>4, <1>5 DEF BlocksInv, CallsInv, EntriesMatchHeap

LEMMA FreeKeeps ==
  ASSUME BlocksInv, NEW t \in Threads, NEW a \in owned, Free(t, a)
  PROVE  BlocksInv'
<1> USE TrackingAssumption, NoOpFields
<1>0. a \in Addresses
  BY DEF BlocksInv, TrackTypeOK
<1>1. /\ op[t] = NoOp
      /\ op'[t].step = (IF inHook[t] THEN "original" ELSE "untrack") /\ op'[t].call = "free" /\ op'[t].old = a
      /\ \A u \in Threads \ {t} : op'[u] = op[u]
      /\ owned' = owned \ {a}
      /\ UNCHANGED <<heap, live, liveBytes, stale, outside, inHook>>
  BY DEF Free, Idle, BlocksInv, TrackTypeOK, OpsTypeOK, Ops, Steps, historyVars, scopeVars, NoOp
<1>2. TrackTypeOK'
  BY <1>0, <1>1 DEF Free, BlocksInv, TrackTypeOK, OpsTypeOK, Ops, Steps, NoOp
<1>3. Mine(t)' = a /\ (\A u \in Threads \ {t} : Mine(u)' = Mine(u)) /\ a # Nowhere /\ Mine(t) = Nowhere
  BY <1>0, <1>1 DEF Mine
<1>4. Apart'
  BY <1>1, <1>3 DEF BlocksInv, Apart
<1>5. ASSUME NEW u \in Threads PROVE Shape(u)' /\ Forgotten(u)' /\ Placed(u)' /\ Entry(u)'
  <2>1. CASE u = t
    BY <1>0, <1>1, <2>1 DEF Shape, Forgotten, Placed, Entry, BlocksInv, TrackTypeOK, OpsTypeOK, Ops, Steps
  <2>2. CASE u # t
    BY <1>1, <2>2 DEF Shape, Forgotten, Placed, Entry, BlocksInv, CallsInv
  <2> QED
    BY <2>1, <2>2
<1> QED
  BY <1>1, <1>2, <1>4, <1>5 DEF BlocksInv, CallsInv, EntriesMatchHeap

LEMMA ReallocKeeps ==
  ASSUME BlocksInv, NEW t \in Threads, NEW size \in Sizes, NEW a \in owned, Realloc(t, a, size)
  PROVE  BlocksInv'
<1> USE TrackingAssumption, NoOpFields
<1>0. a \in Addresses
  BY DEF BlocksInv, TrackTypeOK
<1>1. /\ op[t] = NoOp
      /\ op'[t].step = (IF inHook[t] THEN "original" ELSE "untrack") /\ op'[t].call = "realloc"
      /\ op'[t].old = a /\ op'[t].size = size
      /\ \A u \in Threads \ {t} : op'[u] = op[u]
      /\ owned' = owned \ {a}
      /\ UNCHANGED <<heap, live, liveBytes, stale, outside, inHook>>
  BY DEF Realloc, Idle, BlocksInv, TrackTypeOK, OpsTypeOK, Ops, Steps, historyVars, scopeVars, NoOp
<1>2. TrackTypeOK'
  BY <1>0, <1>1 DEF Realloc, BlocksInv, TrackTypeOK, OpsTypeOK, Ops, Steps, NoOp
<1>3. Mine(t)' = a /\ (\A u \in Threads \ {t} : Mine(u)' = Mine(u)) /\ a # Nowhere /\ Mine(t) = Nowhere
  BY <1>0, <1>1 DEF Mine
<1>4. Apart'
  BY <1>1, <1>3 DEF BlocksInv, Apart
<1>5. ASSUME NEW u \in Threads PROVE Shape(u)' /\ Forgotten(u)' /\ Placed(u)' /\ Entry(u)'
  <2>1. CASE u = t
    BY <1>0, <1>1, <2>1 DEF Shape, Forgotten, Placed, Entry, BlocksInv, TrackTypeOK, OpsTypeOK, Ops, Steps
  <2>2. CASE u # t
    BY <1>1, <2>2 DEF Shape, Forgotten, Placed, Entry, BlocksInv, CallsInv
  <2> QED
    BY <2>1, <2>2
<1> QED
  BY <1>1, <1>2, <1>4, <1>5 DEF BlocksInv, CallsInv, EntriesMatchHeap

(* The entry goes, or there is none; a block in another's hands keeps its. *)
LEMMA UntrackKeeps ==
  ASSUME BlocksInv, NEW t \in Threads, Untrack(t)
  PROVE  BlocksInv'
<1> USE TrackingAssumption, NoOpFields
<1> DEFINE a == op[t].old
<1>0. op[t].step = "untrack" /\ a \in Addresses /\ ~inHook[t] /\ Shape(t) /\ a \notin owned /\ Mine(t) = a
  BY DEF Untrack, BlocksInv, CallsInv, Shape, Apart, Mine
<1>1. /\ op'[t].step \in {"subtract", "original"} /\ op'[t].call = op[t].call /\ op'[t].old = a /\ op'[t].size = op[t].size
      /\ \A u \in Threads \ {t} : op'[u] = op[u]
      /\ DOMAIN live' = DOMAIN live \ {a} /\ (\A b \in DOMAIN live' : live'[b] = live[b])
      /\ DOMAIN live' \ stale' = (DOMAIN live \ stale) \ {a}
      /\ UNCHANGED <<heap, owned, outside, inHook>>
  <2>1. OpsTypeOK /\ UNCHANGED <<heap, owned, outside, inHook>>
    BY DEF Untrack, BlocksInv, TrackTypeOK, scopeVars
  <2>2. CASE a \in DOMAIN live
    <3>1. /\ live' = [b \in DOMAIN live \ {a} |-> live[b]] /\ stale' = stale \ {a}
          /\ op' = [op EXCEPT ![t].step = "subtract", ![t].gone = live[a]]
      BY <2>2 DEF Untrack, Restrict
    <3> QED
      BY <2>1, <2>2, <3>1 DEF OpsTypeOK, Ops, Steps
  <2>3. CASE a \notin DOMAIN live
    <3>1. live' = live /\ stale' = stale /\ op' = [op EXCEPT ![t].step = "original"]
      BY <2>3 DEF Untrack, Step
    <3>2. DOMAIN live = DOMAIN live \ {a} /\ DOMAIN live \ stale = (DOMAIN live \ stale) \ {a}
      BY <2>3
    <3> QED
      BY <2>1, <3>1, <3>2 DEF OpsTypeOK, Ops, Steps
  <2> QED
    BY <2>2, <2>3
<1>2. TrackTypeOK'
  <2>1. OpsTypeOK'
    BY DEF Untrack, Step, BlocksInv, TrackTypeOK, OpsTypeOK, Ops, Steps
  <2>2. live' \in [DOMAIN live' -> Sizes]
    BY DEF Untrack, BlocksInv, TrackTypeOK, Restrict
  <2> QED
    BY <1>1, <2>1, <2>2 DEF Untrack, BlocksInv, TrackTypeOK
<1>3. \A u \in Threads : Mine(u)' = Mine(u)
  BY <1>0, <1>1 DEF Mine
<1>4. Apart'
  BY <1>1, <1>3 DEF BlocksInv, Apart
<1>5. ASSUME NEW u \in Threads PROVE Shape(u)' /\ Forgotten(u)' /\ Placed(u)' /\ Entry(u)'
  <2>1. CASE u = t
    BY <1>0, <1>1, <2>1 DEF Shape, Forgotten, Placed, Entry
  <2>2. CASE u # t
    <3>1. Mine(u) # a
      BY <1>0, <2>2 DEF BlocksInv, Apart
    <3>2. Shape(u) /\ Forgotten(u) /\ Placed(u) /\ Entry(u) /\ op'[u] = op[u]
      BY <1>1, <2>2 DEF BlocksInv, CallsInv
    <3> QED
      BY <1>1, <3>1, <3>2 DEF Shape, Forgotten, Placed, Entry, Mine
  <2> QED
    BY <2>1, <2>2
<1>6. EntriesMatchHeap'
  BY <1>0, <1>1 DEF BlocksInv, EntriesMatchHeap
<1> QED
  BY <1>2, <1>4, <1>5, <1>6 DEF BlocksInv, CallsInv

LEMMA SubtractKeeps ==
  ASSUME BlocksInv, NEW t \in Threads, Subtract(t)
  PROVE  BlocksInv'
<1> USE TrackingAssumption, NoOpFields
<1>1. /\ op[t].step = "subtract" /\ op'[t].step = "original" /\ op'[t].call = op[t].call
      /\ op'[t].old = op[t].old /\ op'[t].size = op[t].size /\ op'[t].new = op[t].new
      /\ \A u \in Threads \ {t} : op'[u] = op[u]
      /\ UNCHANGED <<heap, owned, live, stale, outside, inHook>>
  BY DEF Subtract, BlocksInv, TrackTypeOK, OpsTypeOK, Ops, Steps, historyVars, scopeVars
<1>2. TrackTypeOK'
  <2>1. liveBytes' \in Int
    <3>1. op[t].gone \in Int /\ liveBytes \in Int
      BY TrackingAssumption DEF Subtract, BlocksInv, TrackTypeOK, OpsTypeOK, Ops, Steps
    <3> QED
      BY <3>1 DEF Subtract
  <2>2. OpsTypeOK'
    <3>1. OpsTypeOK /\ op' = [op EXCEPT ![t].step = "original", ![t].gone = 0]
      BY DEF Subtract, BlocksInv, TrackTypeOK
    <3> QED
      BY <3>1, OpsStep DEF OpsTypeOK, Ops, Steps
  <2> QED
    BY <1>1, <2>1, <2>2 DEF BlocksInv, TrackTypeOK
<1>3. \A u \in Threads : Mine(u)' = Mine(u)
  BY <1>1 DEF Mine
<1>4. Apart'
  BY <1>1, <1>3 DEF BlocksInv, Apart
<1>5. ASSUME NEW u \in Threads PROVE Shape(u)' /\ Forgotten(u)' /\ Placed(u)' /\ Entry(u)'
  <2>0. Shape(u) /\ Forgotten(u) /\ Placed(u) /\ Entry(u) /\ Shape(t)
    BY DEF BlocksInv, CallsInv
  <2>1. CASE u = t
    BY <1>1, <2>0, <2>1 DEF Shape, Forgotten, Placed, Entry
  <2>2. CASE u # t
    BY <1>1, <2>0, <2>2 DEF Shape, Forgotten, Placed, Entry
  <2> QED
    BY <2>1, <2>2
<1> QED
  BY <1>1, <1>2, <1>4, <1>5 DEF BlocksInv, CallsInv, EntriesMatchHeap

-----------------------------------------------------------------------------
(* The original's part                                                     *)

(* Whoever places a block takes a free address, or the one of the block    *)
(* that goes; the entry of that block is gone, or stale from now on.       *)
LEMMA PlaceKeeps ==
  ASSUME BlocksInv, NEW t \in Threads, NEW a \in Addresses, Place(t, a)
  PROVE  BlocksInv'
<1> USE TrackingAssumption, NoOpFields
<1> DEFINE o == op[t].old
           size == op[t].size
<1>0. /\ op[t].step = "original" /\ op[t].call \in {"malloc", "realloc"} /\ size \in Sizes /\ size # 0
      /\ o \notin owned /\ Mine(t) = o /\ (heap[a] = 0 \/ a = o) /\ a # Nowhere
      /\ (~inHook[t] => o \notin DOMAIN live) /\ heap \in [Addresses -> Sizes \cup {0}]
      /\ o \in Addresses \cup {Nowhere}
  BY DEF Place, Gives, BlocksInv, CallsInv, Shape, Apart, Mine, Forgotten, TrackTypeOK
<1>1. /\ op'[t].step = "return" /\ op'[t].call = op[t].call /\ op'[t].old = o /\ op'[t].size = size /\ op'[t].new = a
      /\ \A u \in Threads \ {t} : op'[u] = op[u]
      /\ UNCHANGED <<owned, live, liveBytes, inHook>>
  BY DEF Place, BlocksInv, TrackTypeOK, OpsTypeOK, Ops, Steps, scopeVars
<1>2. /\ heap' = [b \in Addresses |-> IF b = a THEN size ELSE IF b = o THEN 0 ELSE heap[b]]
      /\ heap'[a] = size /\ (\A b \in Addresses \ {a, o} : heap'[b] = heap[b])
  BY <1>0 DEF Place, HeapWith
<1>3. /\ stale' = stale \cup (IF inHook[t] THEN {o} \cap DOMAIN live ELSE {})
      /\ outside' = IF inHook[t] THEN outside \ {a, o} ELSE (outside \ {o}) \cup {a}
  BY DEF Place, Forsaken
<1>4. OpsTypeOK'
  <2>1. OpsTypeOK /\ op' = [op EXCEPT ![t].new = a, ![t].step = "return"]
    BY DEF Place, BlocksInv, TrackTypeOK
  <2> QED
    BY <2>1, OpsStep DEF OpsTypeOK, Ops, Steps
<1>5. TrackTypeOK'
  BY <1>0, <1>1, <1>2, <1>3, <1>4 DEF BlocksInv, TrackTypeOK
<1>6. Mine(t)' = a /\ \A u \in Threads \ {t} : Mine(u)' = Mine(u)
  BY <1>1 DEF Mine
<1>7. \A u \in Threads \ {t} : Mine(u) # Nowhere => Mine(u) # a /\ Mine(u) # o /\ heap[Mine(u)] # 0
  BY <1>0 DEF BlocksInv, Apart
<1>8. \A b \in owned : b # a /\ b # o /\ heap[b] # 0 /\ b \in Addresses
  BY <1>0 DEF BlocksInv, Apart, TrackTypeOK
<1>9. \A u \in Threads : Mine(u) \in Addresses \cup {Nowhere}
  BY DEF Mine, BlocksInv, TrackTypeOK, OpsTypeOK, Ops, Steps
<1>10. Apart'
  <2>1. \A u \in Threads : Mine(u)' \notin owned'
    BY <1>1, <1>6, <1>8 DEF BlocksInv, Apart
  <2>2. \A u, v \in Threads : Mine(u)' = Mine(v)' /\ Mine(u)' # Nowhere => u = v
    BY <1>0, <1>6, <1>7 DEF BlocksInv, Apart
  <2>3. \A b \in owned' : heap'[b] # 0
    BY <1>1, <1>2, <1>8
  <2>4. \A u \in Threads : Mine(u)' # Nowhere => heap'[Mine(u)'] # 0
    BY <1>0, <1>2, <1>6, <1>7, <1>9
  <2> QED
    BY <2>1, <2>2, <2>3, <2>4 DEF Apart
<1>11. ASSUME NEW u \in Threads PROVE Shape(u)' /\ Forgotten(u)' /\ Placed(u)' /\ Entry(u)'
  <2>0. Shape(u) /\ Forgotten(u) /\ Placed(u) /\ Entry(u)
    BY DEF BlocksInv, CallsInv
  <2>1. CASE u = t
    BY <1>0, <1>1, <1>2, <1>3, <2>0, <2>1 DEF Shape, Forgotten, Placed, Entry
  <2>2. CASE u # t
    <3>1. op'[u] = op[u] /\ inHook'[u] = inHook[u]
      BY <1>1, <2>2
    <3>2. Shape(u)' /\ Forgotten(u)'
      BY <1>1, <2>0, <3>1 DEF Shape, Forgotten
    <3>3. op[u].step \in {"return", "add"} => op[u].new = Mine(u) /\ op[u].new \in Addresses
      BY <2>0 DEF Mine, Shape
    <3>4. Placed(u)'
      BY <1>2, <1>3, <1>7, <2>0, <2>2, <3>1, <3>3 DEF Placed
    <3>5. Entry(u)'
      BY <1>1, <1>3, <1>7, <2>0, <2>2, <3>1, <3>3 DEF Entry
    <3> QED
      BY <3>2, <3>4, <3>5
  <2> QED
    BY <2>1, <2>2
<1>12. EntriesMatchHeap'
  <2>1. \A b \in DOMAIN live \ stale : b \in outside /\ heap[b] = live[b] /\ heap[b] # 0 /\ b \in Addresses
    BY DEF BlocksInv, EntriesMatchHeap, TrackTypeOK
  <2>2. \A b \in DOMAIN live' \ stale' : b \in DOMAIN live \ stale /\ b # o /\ b # a
    BY <1>0, <1>1, <1>3, <2>1
  <2>3. \A b \in DOMAIN live' \ stale' : b \in outside' /\ heap'[b] = live'[b]
    BY <1>1, <1>2, <1>3, <2>1, <2>2
  <2>4. \A b \in owned' \cap outside' : heap'[b] >= LogThreshold => b \in DOMAIN live' \ stale'
    BY <1>1, <1>2, <1>3, <1>8 DEF BlocksInv, EntriesMatchHeap
  <2> QED
    BY <2>3, <2>4 DEF EntriesMatchHeap
<1> QED
  BY <1>5, <1>10, <1>11, <1>12 DEF BlocksInv, CallsInv
(* No room: the block that was to be moved is its caller's again, and no   *)
(* longer counts as placed.                                                *)
LEMMA PlaceFailsKeeps ==
  ASSUME BlocksInv, NEW t \in Threads, PlaceFails(t)
  PROVE  BlocksInv'
<1> USE TrackingAssumption, NoOpFields
<1> DEFINE o == op[t].old
<1>0. /\ op[t].step = "original" /\ o \notin owned /\ Mine(t) = o
      /\ o \in Addresses \cup {Nowhere} /\ (o # Nowhere => heap[o] # 0)
      /\ (~inHook[t] => o \notin DOMAIN live) /\ heap \in [Addresses -> Sizes \cup {0}]
  BY DEF PlaceFails, Gives, BlocksInv, CallsInv, Shape, Apart, Mine, Forgotten, TrackTypeOK, OpsTypeOK, Ops
<1>1. /\ op' = [op EXCEPT ![t] = NoOp] /\ op'[t] = NoOp
      /\ \A u \in Threads \ {t} : op'[u] = op[u]
      /\ owned' = owned \cup ({o} \ {Nowhere})
      /\ UNCHANGED <<live, liveBytes, inHook>>
  BY DEF PlaceFails, BlocksInv, TrackTypeOK, OpsTypeOK, scopeVars
<1>2. \A b \in Addresses \ {o} : heap'[b] = heap[b]
  BY <1>0 DEF PlaceFails, HeapWith
<1>3. /\ stale' = stale \cup (IF inHook[t] THEN {o} \cap DOMAIN live ELSE {})
      /\ outside' = outside \ {o}
  BY DEF PlaceFails, Forsaken
<1>4. OpsTypeOK'
  <2>1. NoOp \in Ops /\ op \in [Threads -> Ops]
    BY DEF NoOp, Ops, Steps, BlocksInv, TrackTypeOK, OpsTypeOK
  <2> QED
    BY <1>1, <2>1 DEF OpsTypeOK
<1>5. TrackTypeOK'
  <2>1. heap' \in [Addresses -> Sizes \cup {0}]
    BY <1>0 DEF PlaceFails, HeapWith
  <2> QED
    BY <1>0, <1>1, <1>3, <1>4, <2>1 DEF BlocksInv, TrackTypeOK
<1>6. Mine(t)' = Nowhere /\ \A u \in Threads \ {t} : Mine(u)' = Mine(u)
  BY <1>1 DEF Mine
<1>7. \A u \in Threads \ {t} : Mine(u) # Nowhere => Mine(u) # o /\ heap[Mine(u)] # 0
  BY <1>0 DEF BlocksInv, Apart
<1>8. \A b \in owned : b # o /\ heap[b] # 0 /\ b \in Addresses
  BY <1>0 DEF BlocksInv, Apart, TrackTypeOK
<1>9. \A u \in Threads : Mine(u) \in Addresses \cup {Nowhere}
  BY DEF Mine, BlocksInv, TrackTypeOK, OpsTypeOK, Ops
<1>10. Apart'
  <2>1. \A u \in Threads : Mine(u)' \notin owned'
    BY <1>0, <1>1, <1>6, <1>7, <1>8 DEF BlocksInv, Apart, TrackTypeOK
  <2>2. \A u, v \in Threads : Mine(u)' = Mine(v)' /\ Mine(u)' # Nowhere => u = v
    BY <1>6 DEF BlocksInv, Apart
  <2>3. \A b \in owned' : heap'[b] # 0
    BY <1>0, <1>1, <1>2, <1>8 DEF PlaceFails
  <2>4. \A u \in Threads : Mine(u)' # Nowhere => heap'[Mine(u)'] # 0
    BY <1>2, <1>6, <1>7, <1>9
  <2> QED
    BY <2>1, <2>2, <2>3, <2>4 DEF Apart
<1>11. ASSUME NEW u \in Threads PROVE Shape(u)' /\ Forgotten(u)' /\ Placed(u)' /\ Entry(u)'
  <2>0. Shape(u) /\ Forgotten(u) /\ Placed(u) /\ Entry(u)
    BY DEF BlocksInv, CallsInv
  <2>1. CASE u = t
    BY <1>1, <2>1 DEF Shape, Forgotten, Placed, Entry
  <2>2. CASE u # t
    <3>1. op'[u] = op[u] /\ inHook'[u] = inHook[u]
      BY <1>1, <2>2
    <3>2. Shape(u)' /\ Forgotten(u)'
      BY <1>1, <2>0, <3>1 DEF Shape, Forgotten
    <3>3. op[u].step \in {"return", "add"} => op[u].new = Mine(u) /\ op[u].new \in Addresses
      BY <2>0 DEF Mine, Shape
    <3>4. Placed(u)'
      BY <1>2, <1>3, <1>7, <2>0, <2>2, <3>1, <3>3 DEF Placed
    <3>5. Entry(u)'
      BY <1>1, <1>3, <1>7, <2>0, <2>2, <3>1, <3>3 DEF Entry
    <3> QED
      BY <3>2, <3>4, <3>5
  <2> QED
    BY <2>1, <2>2
<1>12. EntriesMatchHeap'
  <2>1. \A b \in DOMAIN live \ stale : b \in outside /\ heap[b] = live[b] /\ b \in Addresses
    BY DEF BlocksInv, EntriesMatchHeap, TrackTypeOK
  <2>2. \A b \in DOMAIN live' \ stale' : b \in DOMAIN live \ stale /\ b # o
    BY <1>0, <1>1, <1>3, <2>1
  <2>3. \A b \in DOMAIN live' \ stale' : b \in outside' /\ heap'[b] = live'[b]
    BY <1>1, <1>2, <1>3, <2>1, <2>2
  <2>4. \A b \in owned' \cap outside' : heap'[b] >= LogThreshold => b \in DOMAIN live' \ stale'
    <3> SUFFICES ASSUME NEW b \in owned' \cap outside', heap'[b] >= LogThreshold
                 PROVE  b \in DOMAIN live' \ stale'
      OBVIOUS
    <3>1. b \in owned /\ b \in outside /\ b # o
      BY <1>1, <1>3, <1>8
    <3>2. heap'[b] = heap[b]
      BY <1>2, <1>8, <3>1
    <3>3. b \in DOMAIN live \ stale
      BY <3>1, <3>2 DEF BlocksInv, EntriesMatchHeap
    <3> QED
      BY <1>1, <1>3, <3>1, <3>3
  <2> QED
    BY <2>3, <2>4 DEF EntriesMatchHeap
<1> QED
  BY <1>5, <1>10, <1>11, <1>12 DEF BlocksInv, CallsInv

LEMMA FreeBlockKeeps ==
  ASSUME BlocksInv, NEW t \in Threads, FreeBlock(t)
  PROVE  BlocksInv'
<1> USE TrackingAssumption, NoOpFields
<1> DEFINE o == op[t].old
<1>0. /\ op[t].step = "original" /\ o \notin owned /\ Mine(t) = o
      /\ o \in Addresses \cup {Nowhere} /\ (o # Nowhere => heap[o] # 0)
      /\ (~inHook[t] => o \notin DOMAIN live) /\ heap \in [Addresses -> Sizes \cup {0}]
  BY DEF FreeBlock, Gives, BlocksInv, CallsInv, Shape, Apart, Mine, Forgotten, TrackTypeOK, OpsTypeOK, Ops
<1>1. /\ op' = [op EXCEPT ![t] = NoOp] /\ op'[t] = NoOp
      /\ \A u \in Threads \ {t} : op'[u] = op[u]
      /\ owned' = owned
      /\ UNCHANGED <<live, liveBytes, inHook>>
  BY DEF FreeBlock, BlocksInv, TrackTypeOK, OpsTypeOK, scopeVars
<1>2. \A b \in Addresses \ {o} : heap'[b] = heap[b]
  BY <1>0 DEF FreeBlock, HeapWith
<1>3. /\ stale' = stale \cup (IF inHook[t] THEN {o} \cap DOMAIN live ELSE {})
      /\ outside' = outside \ {o}
  BY DEF FreeBlock, Forsaken
<1>4. OpsTypeOK'
  <2>1. NoOp \in Ops /\ op \in [Threads -> Ops]
    BY DEF NoOp, Ops, Steps, BlocksInv, TrackTypeOK, OpsTypeOK
  <2> QED
    BY <1>1, <2>1 DEF OpsTypeOK
<1>5. TrackTypeOK'
  <2>1. heap' \in [Addresses -> Sizes \cup {0}]
    BY <1>0 DEF FreeBlock, HeapWith
  <2> QED
    BY <1>0, <1>1, <1>3, <1>4, <2>1 DEF BlocksInv, TrackTypeOK
<1>6. Mine(t)' = Nowhere /\ \A u \in Threads \ {t} : Mine(u)' = Mine(u)
  BY <1>1 DEF Mine
<1>7. \A u \in Threads \ {t} : Mine(u) # Nowhere => Mine(u) # o /\ heap[Mine(u)] # 0
  BY <1>0 DEF BlocksInv, Apart
<1>8. \A b \in owned : b # o /\ heap[b] # 0 /\ b \in Addresses
  BY <1>0 DEF BlocksInv, Apart, TrackTypeOK
<1>9. \A u \in Threads : Mine(u) \in Addresses \cup {Nowhere}
  BY DEF Mine, BlocksInv, TrackTypeOK, OpsTypeOK, Ops
<1>10. Apart'
  <2>1. \A u \in Threads : Mine(u)' \notin owned'
    BY <1>0, <1>1, <1>6, <1>7, <1>8 DEF BlocksInv, Apart, TrackTypeOK
  <2>2. \A u, v \in Threads : Mine(u)' = Mine(v)' /\ Mine(u)' # Nowhere => u = v
    BY <1>6 DEF BlocksInv, Apart
  <2>3. \A b \in owned' : heap'[b] # 0
    BY <1>0, <1>1, <1>2, <1>8
  <2>4. \A u \in Threads : Mine(u)' # Nowhere => heap'[Mine(u)'] # 0
    BY <1>2, <1>6, <1>7, <1>9
  <2> QED
    BY <2>1, <2>2, <2>3, <2>4 DEF Apart
<1>11. ASSUME NEW u \in Threads PROVE Shape(u)' /\ Forgotten(u)' /\ Placed(u)' /\ Entry(u)'
  <2>0. Shape(u) /\ Forgotten(u) /\ Placed(u) /\ Entry(u)
    BY DEF BlocksInv, CallsInv
  <2>1. CASE u = t
    BY <1>1, <2>1 DEF Shape, Forgotten, Placed, Entry
  <2>2. CASE u # t
    <3>1. op'[u] = op[u] /\ inHook'[u] = inHook[u]
      BY <1>1, <2>2
    <3>2. Shape(u)' /\ Forgotten(u)'
      BY <1>1, <2>0, <3>1 DEF Shape, Forgotten
    <3>3. op[u].step \in {"return", "add"} => op[u].new = Mine(u) /\ op[u].new \in Addresses
      BY <2>0 DEF Mine, Shape
    <3>4. Placed(u)'
      BY <1>2, <1>3, <1>7, <2>0, <2>2, <3>1, <3>3 DEF Placed
    <3>5. Entry(u)'
      BY <1>1, <1>3, <1>7, <2>0, <2>2, <3>1, <3>3 DEF Entry
    <3> QED
      BY <3>2, <3>4, <3>5
  <2> QED
    BY <2>1, <2>2
<1>12. EntriesMatchHeap'
  <2>1. \A b \in DOMAIN live \ stale : b \in outside /\ heap[b] = live[b] /\ b \in Addresses
    BY DEF BlocksInv, EntriesMatchHeap, TrackTypeOK
  <2>2. \A b \in DOMAIN live' \ stale' : b \in DOMAIN live \ stale /\ b # o
    BY <1>0, <1>1, <1>3, <2>1
  <2>3. \A b \in DOMAIN live' \ stale' : b \in outside' /\ heap'[b] = live'[b]
    BY <1>1, <1>2, <1>3, <2>1, <2>2
  <2>4. \A b \in owned' \cap outside' : heap'[b] >= LogThreshold => b \in DOMAIN live' \ stale'
    <3> SUFFICES ASSUME NEW b \in owned' \cap outside', heap'[b] >= LogThreshold
                 PROVE  b \in DOMAIN live' \ stale'
      OBVIOUS
    <3>1. b \in owned /\ b \in outside /\ b # o
      BY <1>1, <1>3, <1>8
    <3>2. heap'[b] = heap[b]
      BY <1>2, <1>8, <3>1
    <3>3. b \in DOMAIN live \ stale
      BY <3>1, <3>2 DEF BlocksInv, EntriesMatchHeap
    <3> QED
      BY <1>1, <1>3, <3>1, <3>3
  <2> QED
    BY <2>3, <2>4 DEF EntriesMatchHeap
<1> QED
  BY <1>5, <1>10, <1>11, <1>12 DEF BlocksInv, CallsInv
-----------------------------------------------------------------------------
(* The way back                                                            *)

LEMMA ReturnUntrackedKeeps ==
  ASSUME BlocksInv, NEW t \in Threads, ReturnUntracked(t)
  PROVE  BlocksInv'
<1> USE TrackingAssumption, NoOpFields
<1> DEFINE a == op[t].new
<1>0. /\ Mine(t) = a /\ a \in Addresses /\ a # Nowhere /\ heap[a] # 0
      /\ a \in outside /\ heap[a] >= LogThreshold => a \in DOMAIN live \ stale
  <2>1. op[t].step = "return" /\ Shape(t) /\ Placed(t) /\ (Mine(t) # Nowhere => heap[Mine(t)] # 0)
    BY DEF ReturnUntracked, Returns, BlocksInv, CallsInv, Apart
  <2>2. Mine(t) = a /\ a \in Addresses /\ a # Nowhere
    BY <2>1 DEF Mine, Shape
  <2>3. op[t].size \in Nat /\ ~(~inHook[t] /\ op[t].size >= LogThreshold)
    BY <2>1 DEF ReturnUntracked, Followed, Shape
  <2> QED
    BY <2>1, <2>2, <2>3 DEF Placed
<1>1. /\ op' = [op EXCEPT ![t] = NoOp] /\ op'[t] = NoOp
      /\ \A u \in Threads \ {t} : op'[u] = op[u]
      /\ owned' = owned \cup {a}
      /\ UNCHANGED <<heap, live, inHook, stale, outside>>
  BY DEF ReturnUntracked, HandOver, BlocksInv, TrackTypeOK, OpsTypeOK, scopeVars, historyVars
<1>2. OpsTypeOK'
  <2>1. NoOp \in Ops /\ op \in [Threads -> Ops]
    BY DEF NoOp, Ops, Steps, BlocksInv, TrackTypeOK, OpsTypeOK
  <2> QED
    BY <1>1, <2>1 DEF OpsTypeOK
<1>3. liveBytes' \in Int
  BY DEF ReturnUntracked, BlocksInv, TrackTypeOK
<1>4. TrackTypeOK'
  BY <1>0, <1>1, <1>2, <1>3 DEF BlocksInv, TrackTypeOK
<1>5. Mine(t)' = Nowhere /\ \A u \in Threads \ {t} : Mine(u)' = Mine(u)
  BY <1>1 DEF Mine
<1>6. Apart'
  BY <1>0, <1>1, <1>5 DEF BlocksInv, Apart, TrackTypeOK
<1>7. ASSUME NEW u \in Threads PROVE Shape(u)' /\ Forgotten(u)' /\ Placed(u)' /\ Entry(u)'
  <2>1. CASE u = t
    BY <1>1, <2>1 DEF Shape, Forgotten, Placed, Entry
  <2>2. CASE u # t
    BY <1>1, <2>2 DEF Shape, Forgotten, Placed, Entry, BlocksInv, CallsInv
  <2> QED
    BY <2>1, <2>2
<1>8. EntriesMatchHeap'
  BY <1>0, <1>1 DEF BlocksInv, EntriesMatchHeap
<1> QED
  BY <1>4, <1>6, <1>7, <1>8 DEF BlocksInv, CallsInv

(* The entry of a block in hand replaces what the table may still hold for *)
(* an earlier block at its address.                                        *)
LEMMA TrackKeeps ==
  ASSUME BlocksInv, NEW t \in Threads, Track(t)
  PROVE  BlocksInv'
<1> USE TrackingAssumption, NoOpFields
<1> DEFINE a == op[t].new
<1>0. /\ op[t].step = "return" /\ Mine(t) = a /\ a \in Addresses /\ a # Nowhere /\ ~inHook[t]
      /\ heap[a] = op[t].size /\ a \in outside /\ op[t].size \in Sizes /\ Shape(t) /\ a \notin owned
  BY DEF Track, Returns, Followed, BlocksInv, CallsInv, Shape, Placed, Mine, Apart
<1>1. /\ op' = [op EXCEPT ![t].step = "add"]
      /\ op'[t].step = "add" /\ op'[t].call = op[t].call /\ op'[t].old = op[t].old
      /\ op'[t].size = op[t].size /\ op'[t].new = a
      /\ \A u \in Threads \ {t} : op'[u] = op[u]
      /\ UNCHANGED <<heap, owned, liveBytes, outside, inHook>>
  BY DEF Track, Step, BlocksInv, TrackTypeOK, OpsTypeOK, Ops, Steps, scopeVars
<1>2. /\ live' = [b \in DOMAIN live \cup {a} |-> IF b = a THEN op[t].size ELSE live[b]]
      /\ DOMAIN live' = DOMAIN live \cup {a} /\ live'[a] = op[t].size
      /\ (\A b \in DOMAIN live \ {a} : live'[b] = live[b])
      /\ stale' = stale \ {a}
  BY DEF Track
<1>3. OpsTypeOK'
  <2>1. OpsTypeOK
    BY DEF BlocksInv, TrackTypeOK
  <2> QED
    BY <1>1, <2>1, OpsStep DEF OpsTypeOK, Steps
<1>4. TrackTypeOK'
  <2>1. live' \in [DOMAIN live' -> Sizes]
    BY <1>0, <1>2 DEF BlocksInv, TrackTypeOK
  <2> QED
    BY <1>0, <1>1, <1>2, <1>3, <2>1 DEF BlocksInv, TrackTypeOK
<1>5. \A u \in Threads : Mine(u)' = Mine(u)
  BY <1>0, <1>1 DEF Mine
<1>6. Apart'
  BY <1>1, <1>5 DEF BlocksInv, Apart
<1>7. ASSUME NEW u \in Threads PROVE Shape(u)' /\ Forgotten(u)' /\ Placed(u)' /\ Entry(u)'
  <2>1. CASE u = t
    BY <1>0, <1>1, <1>2, <2>1 DEF Shape, Forgotten, Placed, Entry
  <2>2. CASE u # t
    <3>1. op'[u] = op[u] /\ inHook'[u] = inHook[u] /\ Mine(u) # a
      BY <1>0, <1>1, <2>2 DEF BlocksInv, Apart
    <3>2. Shape(u) /\ Forgotten(u) /\ Placed(u) /\ Entry(u)
      BY DEF BlocksInv, CallsInv
    <3>3. Shape(u)'
      BY <3>1, <3>2 DEF Shape
    <3>6. Placed(u)'
      BY <1>1, <3>1, <3>2 DEF Placed
    <3>4. Forgotten(u)'
      BY <1>2, <3>1, <3>2 DEF Forgotten, Mine
    <3>5. Entry(u)'
      BY <1>2, <3>1, <3>2 DEF Entry, Mine
    <3> QED
      BY <3>3, <3>4, <3>5, <3>6
  <2> QED
    BY <2>1, <2>2
<1>8. EntriesMatchHeap'
  BY <1>0, <1>1, <1>2 DEF BlocksInv, EntriesMatchHeap
<1> QED
  BY <1>4, <1>6, <1>7, <1>8 DEF BlocksInv, CallsInv

LEMMA AddKeeps ==
  ASSUME BlocksInv, NEW t \in Threads, Add(t)
  PROVE  BlocksInv'
<1> USE TrackingAssumption, NoOpFields
<1> DEFINE a == op[t].new
<1>0. /\ Mine(t) = a /\ a \in Addresses /\ a # Nowhere /\ heap[a] # 0
      /\ a \in outside /\ heap[a] >= LogThreshold => a \in DOMAIN live \ stale
  <2>1. op[t].step = "add" /\ Shape(t) /\ Entry(t) /\ (Mine(t) # Nowhere => heap[Mine(t)] # 0)
    BY DEF Add, BlocksInv, CallsInv, Apart
  <2>2. Mine(t) = a /\ a \in Addresses /\ a # Nowhere
    BY <2>1 DEF Mine, Shape
  <2> QED
    BY <2>1, <2>2 DEF Entry
<1>1. /\ op' = [op EXCEPT ![t] = NoOp] /\ op'[t] = NoOp
      /\ \A u \in Threads \ {t} : op'[u] = op[u]
      /\ owned' = owned \cup {a}
      /\ UNCHANGED <<heap, live, inHook, stale, outside>>
  BY DEF Add, HandOver, BlocksInv, TrackTypeOK, OpsTypeOK, scopeVars, historyVars
<1>2. OpsTypeOK'
  <2>1. NoOp \in Ops /\ op \in [Threads -> Ops]
    BY DEF NoOp, Ops, Steps, BlocksInv, TrackTypeOK, OpsTypeOK
  <2> QED
    BY <1>1, <2>1 DEF OpsTypeOK
<1>3. liveBytes' \in Int
  <2>1. op[t].size \in Int /\ liveBytes \in Int
    BY DEF BlocksInv, TrackTypeOK, OpsTypeOK, Ops
  <2> QED
    BY <2>1 DEF Add
<1>4. TrackTypeOK'
  BY <1>0, <1>1, <1>2, <1>3 DEF BlocksInv, TrackTypeOK
<1>5. Mine(t)' = Nowhere /\ \A u \in Threads \ {t} : Mine(u)' = Mine(u)
  BY <1>1 DEF Mine
<1>6. Apart'
  BY <1>0, <1>1, <1>5 DEF BlocksInv, Apart, TrackTypeOK
<1>7. ASSUME NEW u \in Threads PROVE Shape(u)' /\ Forgotten(u)' /\ Placed(u)' /\ Entry(u)'
  <2>1. CASE u = t
    BY <1>1, <2>1 DEF Shape, Forgotten, Placed, Entry
  <2>2. CASE u # t
    BY <1>1, <2>2 DEF Shape, Forgotten, Placed, Entry, BlocksInv, CallsInv
  <2> QED
    BY <2>1, <2>2
<1>8. EntriesMatchHeap'
  BY <1>0, <1>1 DEF BlocksInv, EntriesMatchHeap
<1> QED
  BY <1>4, <1>6, <1>7, <1>8 DEF BlocksInv, CallsInv

(* A thread is between two calls when it enters or leaves a hook.          *)
LEMMA HooksKeep ==
  ASSUME BlocksInv, NEW t \in Threads, Idle(t), UNCHANGED trackVars,
         \A u \in Threads \ {t} : inHook'[u] = inHook[u]
  PROVE  BlocksInv'
<1> USE NoOpFields
<1>1. UNCHANGED <<heap, owned, op, live, liveBytes, stale, outside>> /\ op[t] = NoOp
  BY DEF trackVars, Idle
<1>2. TrackTypeOK' /\ EntriesMatchHeap'
  BY <1>1 DEF BlocksInv, TrackTypeOK, OpsTypeOK, EntriesMatchHeap
<1>3. \A u \in Threads : Mine(u)' = Mine(u)
  BY <1>1 DEF Mine
<1>4. Apart'
  BY <1>1, <1>3 DEF BlocksInv, Apart
<1>5. ASSUME NEW u \in Threads PROVE Shape(u)' /\ Forgotten(u)' /\ Placed(u)' /\ Entry(u)'
  <2>1. CASE u = t
    BY <1>1, <2>1 DEF Shape, Forgotten, Placed, Entry
  <2>2. CASE u # t
    BY <1>1, <2>2 DEF Shape, Forgotten, Placed, Entry, BlocksInv, CallsInv
  <2> QED
    BY <2>1, <2>2
<1> QED
  BY <1>2, <1>4, <1>5 DEF BlocksInv, CallsInv

LEMMA BlocksStay ==
  ASSUME BlocksInv, UNCHANGED vars
  PROVE  BlocksInv'
<1>1. UNCHANGED <<heap, owned, op, live, liveBytes, stale, outside, inHook>>
  BY DEF vars, trackVars, scopeVars
<1>2. \A u \in Threads : Mine(u)' = Mine(u)
  BY <1>1 DEF Mine
<1>3. Apart'
  BY <1>1, <1>2 DEF BlocksInv, Apart
<1> QED
  BY <1>1, <1>3 DEF BlocksInv, TrackTypeOK, OpsTypeOK, EntriesMatchHeap, CallsInv, Shape, Forgotten, Placed, Entry

-----------------------------------------------------------------------------
(* Sums                                                                    *)

LEMMA UnitsOf ==
  ASSUME NEW f, NEW x
  PROVE  x \in Units(f) <=> \E i \in DOMAIN f : \E n \in 1..f[i] : x = <<i, n>>
BY DEF Units

LEMMA SameTotal ==
  ASSUME NEW f, NEW g, DOMAIN f = DOMAIN g, \A i \in DOMAIN g : f[i] = g[i]
  PROVE  Units(f) = Units(g) /\ Total(f) = Total(g)
<1>1. \A x : x \in Units(f) <=> x \in Units(g)
  BY UnitsOf
<1>2. Units(f) = Units(g)
  BY <1>1
<1> QED
  BY <1>2 DEF Total

LEMMA NothingToCount ==
  ASSUME NEW f, DOMAIN f = {}
  PROVE  IsFiniteSet(Units(f)) /\ Total(f) = 0
<1>1. \A x : x \notin Units(f)
  BY UnitsOf
<1>2. Units(f) = {}
  BY <1>1
<1> QED
  BY <1>2, FS_EmptySet DEF Total

(* One value more.                                                         *)
LEMMA OneMore ==
  ASSUME NEW f, NEW g, NEW i, i \notin DOMAIN g, DOMAIN f = DOMAIN g \cup {i},
         f[i] \in Nat, \A j \in DOMAIN g : f[j] = g[j], IsFiniteSet(Units(g))
  PROVE  IsFiniteSet(Units(f)) /\ Total(f) = Total(g) + f[i] /\ Total(g) \in Nat
<1> DEFINE new == {i} \X (1..f[i])
<1>1. IsFiniteSet({i}) /\ Cardinality({i}) = 1
  BY FS_Singleton
<1>2. IsFiniteSet(1..f[i]) /\ Cardinality(1..f[i]) = f[i]
  <2>1. 1 \in Int /\ f[i] \in Int
    OBVIOUS
  <2>2. IsFiniteSet(1..f[i]) /\ Cardinality(1..f[i]) = IF 1 > f[i] THEN 0 ELSE f[i] - 1 + 1
    BY <2>1, FS_Interval
  <2> QED
    BY <2>2
<1>3. IsFiniteSet(new) /\ Cardinality(new) = f[i]
  <2> DEFINE A == {i}
             B == 1..f[i]
  <2>1. IsFiniteSet(A) /\ Cardinality(A) = 1 /\ IsFiniteSet(B) /\ Cardinality(B) = f[i]
    BY <1>1, <1>2
  <2> HIDE DEF A, B
  <2>2. IsFiniteSet(A \X B) /\ Cardinality(A \X B) = Cardinality(A) * Cardinality(B)
    BY <2>1, FS_Product
  <2>3. IsFiniteSet(A \X B) /\ Cardinality(A \X B) = f[i]
    BY <2>1, <2>2
  <2> QED
    BY <2>3 DEF A, B
<1>4. Units(f) = Units(g) \cup new
  <2>1. \A x : x \in new <=> \E n \in 1..f[i] : x = <<i, n>>
    OBVIOUS
  <2> HIDE DEF new
  <2>2. \A x : x \in Units(f) <=> x \in Units(g) \/ x \in new
    BY <2>1, UnitsOf
  <2> QED
    BY <2>2
<1>5. Units(g) \cap new = {}
  <2>1. \A x \in Units(g) : \E j \in DOMAIN g : \E n \in 1..g[j] : x = <<j, n>>
    BY UnitsOf
  <2> QED
    BY <2>1
<1>6. Cardinality(Units(g)) \in Nat
  BY FS_CardinalityType
<1> HIDE DEF new
<1>7. /\ IsFiniteSet(Units(g) \cup new)
      /\ Cardinality(Units(g) \cup new) = Cardinality(Units(g)) + Cardinality(new) - Cardinality(Units(g) \cap new)
  BY <1>3, FS_Union
<1>8. Cardinality(Units(g) \cap new) = 0
  BY <1>5, FS_EmptySet
<1> QED
  BY <1>3, <1>4, <1>6, <1>7, <1>8 DEF Total

(* One value less.                                                         *)
LEMMA OneLess ==
  ASSUME NEW f, NEW g, NEW i, i \in DOMAIN f, DOMAIN g = DOMAIN f \ {i},
         f[i] \in Nat, \A j \in DOMAIN g : f[j] = g[j], IsFiniteSet(Units(f))
  PROVE  IsFiniteSet(Units(g)) /\ Total(f) = Total(g) + f[i] /\ Total(g) \in Nat
<1>1. Units(g) \subseteq Units(f)
  BY UnitsOf
<1>2. IsFiniteSet(Units(g))
  BY <1>1, FS_Subset
<1>3. i \notin DOMAIN g /\ DOMAIN f = DOMAIN g \cup {i}
  OBVIOUS
<1> QED
  BY <1>2, <1>3, OneMore

(* What is in both, each under a key of its own, adds up to no more.       *)
LEMMA Embedded ==
  ASSUME NEW f, NEW g, NEW m, IsFiniteSet(Units(f)), IsFiniteSet(Units(g)),
         \A i \in DOMAIN f : m[i] \in DOMAIN g /\ g[m[i]] = f[i],
         \A i, j \in DOMAIN f : m[i] = m[j] => i = j
  PROVE  Total(f) <= Total(g) /\ Total(f) \in Nat /\ Total(g) \in Nat
<1> DEFINE h == [x \in Units(f) |-> <<m[x[1]], x[2]>>]
<1>1. ASSUME NEW x \in Units(f)
      PROVE  /\ x[1] \in DOMAIN f /\ x[2] \in 1..f[x[1]] /\ x = <<x[1], x[2]>>
             /\ h[x] \in Units(g)
  <2>1. PICK i \in DOMAIN f : \E n \in 1..f[i] : x = <<i, n>>
    BY UnitsOf
  <2>2. PICK n \in 1..f[i] : x = <<i, n>>
    BY <2>1
  <2>3. x[1] = i /\ x[2] = n
    BY <2>2
  <2>4. m[i] \in DOMAIN g /\ n \in 1..g[m[i]]
    BY <2>2
  <2>5. <<m[i], n>> \in Units(g)
    BY <2>4, UnitsOf
  <2> QED
    BY <2>2, <2>3, <2>5
<1>2. h \in [Units(f) -> Units(g)]
  BY <1>1
<1>3. ASSUME NEW x \in Units(f), NEW y \in Units(f), h[x] = h[y] PROVE x = y
  <2>1. m[x[1]] = m[y[1]] /\ x[2] = y[2]
    BY <1>3
  <2>2. x[1] = y[1]
    BY <1>1, <2>1
  <2> QED
    BY <1>1, <2>1, <2>2
<1>4. h \in Injection(Units(f), Units(g))
  BY <1>2, <1>3 DEF Injection, IsInjective
<1>5. Cardinality(Units(f)) <= Cardinality(Units(g))
  BY <1>4, FS_Injection
<1> QED
  BY <1>5, FS_CardinalityType DEF Total

-----------------------------------------------------------------------------
(* The sum                                                                 *)

(* A thread that is about to add its bytes has its entry in the table,     *)
(* with the bytes that it will add.                                        *)
Awaited(t) ==
  op[t].step = "add" => op[t].new \in DOMAIN live /\ live[op[t].new] = op[t].size

SumsFinite ==
  IsFiniteSet(Units(live)) /\ IsFiniteSet(Units(Adding)) /\ IsFiniteSet(Units(Subtracting))

SumInv ==
  /\ SumsFinite /\ overwritten \in Nat
  /\ liveBytes + Total(Adding) = Total(live) + Total(Subtracting) + overwritten
  /\ \A t \in Threads : Awaited(t)

LEMMA TotalsInNat ==
  ASSUME SumsFinite
  PROVE  Total(live) \in Nat /\ Total(Adding) \in Nat /\ Total(Subtracting) \in Nat
BY FS_CardinalityType DEF SumsFinite, Total

(* Who is about to add or take off what.                                   *)
LEMMA Pending ==
  /\ DOMAIN Adding = {t \in Threads : op[t].step = "add"}
  /\ \A t \in DOMAIN Adding : Adding[t] = op[t].size
  /\ DOMAIN Subtracting = {t \in Threads : op[t].step = "subtract"}
  /\ \A t \in DOMAIN Subtracting : Subtracting[t] = op[t].gone
BY DEF Adding, Subtracting

LEMMA PendingNext ==
  /\ DOMAIN Adding' = {t \in Threads : op'[t].step = "add"}
  /\ \A t \in DOMAIN Adding' : Adding'[t] = op'[t].size
  /\ DOMAIN Subtracting' = {t \in Threads : op'[t].step = "subtract"}
  /\ \A t \in DOMAIN Subtracting' : Subtracting'[t] = op'[t].gone
BY DEF Adding, Subtracting

(* A step of no thread that is, or will be, about to add.                  *)
LEMMA AddingStays ==
  ASSUME \A u \in Threads : op'[u] = op[u] \/ (op[u].step # "add" /\ op'[u].step # "add")
  PROVE  Units(Adding') = Units(Adding) /\ Total(Adding') = Total(Adding)
<1>1. DOMAIN Adding' = DOMAIN Adding
  <2>1. \A u : u \in DOMAIN Adding' <=> u \in DOMAIN Adding
    BY Pending, PendingNext
  <2> QED
    BY <2>1
<1>2. ASSUME NEW u \in DOMAIN Adding PROVE Adding'[u] = Adding[u]
  <2>1. u \in Threads /\ op'[u] = op[u] /\ u \in DOMAIN Adding'
    BY <1>1, Pending
  <2> QED
    BY <2>1, Pending, PendingNext
<1> QED
  BY <1>1, <1>2, SameTotal

LEMMA SubtractingStays ==
  ASSUME \A u \in Threads : op'[u] = op[u] \/ (op[u].step # "subtract" /\ op'[u].step # "subtract")
  PROVE  Units(Subtracting') = Units(Subtracting) /\ Total(Subtracting') = Total(Subtracting)
<1>1. DOMAIN Subtracting' = DOMAIN Subtracting
  <2>1. \A u : u \in DOMAIN Subtracting' <=> u \in DOMAIN Subtracting
    BY Pending, PendingNext
  <2> QED
    BY <2>1
<1>2. ASSUME NEW u \in DOMAIN Subtracting PROVE Subtracting'[u] = Subtracting[u]
  <2>1. u \in Threads /\ op'[u] = op[u] /\ u \in DOMAIN Subtracting'
    BY <1>1, Pending
  <2> QED
    BY <2>1, Pending, PendingNext
<1> QED
  BY <1>1, <1>2, SameTotal

LEMMA SumInvInit == Init => SumInv
<1> SUFFICES ASSUME Init PROVE SumInv
  OBVIOUS
<1>1. DOMAIN live = {} /\ liveBytes = 0 /\ overwritten = 0 /\ \A t \in Threads : op[t].step = "idle"
  BY DEF Init, NoOp
<1>2. DOMAIN Adding = {} /\ DOMAIN Subtracting = {}
  BY <1>1, Pending
<1>3. /\ IsFiniteSet(Units(live)) /\ Total(live) = 0
      /\ IsFiniteSet(Units(Adding)) /\ Total(Adding) = 0
      /\ IsFiniteSet(Units(Subtracting)) /\ Total(Subtracting) = 0
  BY <1>1, <1>2, NothingToCount
<1>4. \A t \in Threads : Awaited(t)
  BY <1>1 DEF Awaited
<1> QED
  BY <1>1, <1>3, <1>4 DEF SumInv, SumsFinite

(* A step that touches neither the table nor the sum, nor a thread that is *)
(* between the two.                                                        *)
LEMMA SumStays ==
  ASSUME SumInv, UNCHANGED <<live, liveBytes, overwritten>>,
         \A u \in Threads :
           \/ op'[u] = op[u]
           \/ op[u].step \notin {"add", "subtract"} /\ op'[u].step \notin {"add", "subtract"}
  PROVE  SumInv'
<1>1. Units(Adding') = Units(Adding) /\ Total(Adding') = Total(Adding)
  BY AddingStays
<1>2. Units(Subtracting') = Units(Subtracting) /\ Total(Subtracting') = Total(Subtracting)
  BY SubtractingStays
<1>3. \A u \in Threads : Awaited(u)'
  BY DEF SumInv, Awaited
<1> QED
  BY <1>1, <1>2, <1>3 DEF SumInv, SumsFinite

LEMMA UntrackKeepsSum ==
  ASSUME BlocksInv, SumInv, NEW t \in Threads, Untrack(t)
  PROVE  SumInv'
<1> DEFINE a == op[t].old
<1>0. /\ op[t].step = "untrack" /\ a = Mine(t) /\ a # Nowhere
      /\ op \in [Threads -> Ops] /\ op[t] \in Ops /\ UNCHANGED <<liveBytes, overwritten>>
      /\ live \in [DOMAIN live -> Sizes] /\ Sizes \subseteq Nat
  BY TrackingAssumption DEF Untrack, Mine, BlocksInv, CallsInv, Shape, TrackTypeOK, OpsTypeOK
<1>1. CASE a \notin DOMAIN live
  <2>1. op' = [op EXCEPT ![t].step = "original"] /\ live' = live
    BY <1>1 DEF Untrack, Step
  <2>2. \A u \in Threads : op'[u] = op[u] \/ (u = t /\ op'[u].step = "original")
    BY <1>0, <2>1 DEF Ops
  <2> QED
    BY <1>0, <2>1, <2>2, SumStays
<1>2. CASE a \in DOMAIN live
  <2>1. /\ live' = Restrict(live, DOMAIN live \ {a})
        /\ op' = [op EXCEPT ![t].step = "subtract", ![t].gone = live[a]]
    BY <1>2 DEF Untrack
  <2>2. DOMAIN live' = DOMAIN live \ {a} /\ \A b \in DOMAIN live' : live'[b] = live[b]
    BY <2>1 DEF Restrict
  <2>3. op'[t].step = "subtract" /\ op'[t].gone = live[a] /\ \A u \in Threads \ {t} : op'[u] = op[u]
    BY <1>0, <2>1 DEF Ops
  <2>4. live[a] \in Nat
    BY <1>0, <1>2
  <2>5. /\ IsFiniteSet(Units(live')) /\ Total(live) = Total(live') + live[a] /\ Total(live') \in Nat
    <3>1. IsFiniteSet(Units(live)) /\ \A b \in DOMAIN live' : live[b] = live'[b]
      BY <2>2 DEF SumInv, SumsFinite
    <3> QED
      BY <1>2, <2>2, <2>4, <3>1, OneLess
  <2>7. Units(Adding') = Units(Adding) /\ Total(Adding') = Total(Adding)
    BY <1>0, <2>3, AddingStays
  <2>8. /\ t \notin DOMAIN Subtracting /\ DOMAIN Subtracting' = DOMAIN Subtracting \cup {t}
        /\ Subtracting'[t] = live[a]
        /\ \A u \in DOMAIN Subtracting : Subtracting'[u] = Subtracting[u]
    <3>1. \A x : x \in DOMAIN Subtracting' <=> x \in DOMAIN Subtracting \/ x = t
      BY <1>0, <2>3, Pending, PendingNext
    <3>2. DOMAIN Subtracting' = DOMAIN Subtracting \cup {t}
      BY <3>1
    <3> QED
      BY <1>0, <2>3, <3>2, Pending, PendingNext
  <2>9. /\ IsFiniteSet(Units(Subtracting')) /\ Total(Subtracting') = Total(Subtracting) + live[a]
        /\ Total(Subtracting) \in Nat
    <3>1. IsFiniteSet(Units(Subtracting)) /\ Subtracting'[t] \in Nat
      BY <2>4, <2>8 DEF SumInv, SumsFinite
    <3>2. /\ IsFiniteSet(Units(Subtracting')) /\ Total(Subtracting) \in Nat
          /\ Total(Subtracting') = Total(Subtracting) + Subtracting'[t]
      BY <2>8, <3>1, OneMore
    <3> QED
      BY <2>8, <3>2
  <2>10. liveBytes' + Total(Adding') = Total(live') + Total(Subtracting') + overwritten'
    <3>1. liveBytes + Total(Adding) = Total(live) + Total(Subtracting) + overwritten /\ overwritten \in Nat
      BY DEF SumInv
    <3> QED
      BY <1>0, <2>4, <2>5, <2>7, <2>9, <3>1
  <2>11. ASSUME NEW u \in Threads, op'[u].step = "add"
         PROVE  op'[u].new \in DOMAIN live' /\ live'[op'[u].new] = op'[u].size
    <3>1. u # t /\ op'[u] = op[u] /\ op[u].step = "add"
      BY <2>3, <2>11
    <3>2. op[u].new # a
      BY <1>0, <3>1 DEF Mine, BlocksInv, Apart
    <3> QED
      BY <2>2, <3>1, <3>2 DEF SumInv, Awaited
  <2> QED
    BY <1>0, <2>5, <2>7, <2>9, <2>10, <2>11 DEF SumInv, SumsFinite, Awaited
<1> QED
  BY <1>1, <1>2

LEMMA SubtractKeepsSum ==
  ASSUME BlocksInv, SumInv, NEW t \in Threads, Subtract(t)
  PROVE  SumInv'
<1>0. /\ op[t].step = "subtract" /\ UNCHANGED <<live, overwritten>>
      /\ liveBytes' = liveBytes - op[t].gone /\ liveBytes \in Int
      /\ op \in [Threads -> Ops] /\ op[t] \in Ops /\ Sizes \subseteq Nat
  BY TrackingAssumption DEF Subtract, historyVars, BlocksInv, TrackTypeOK, OpsTypeOK
<1>1. op[t].gone \in Nat
  <2>1. op[t].gone \in Sizes \cup {0}
    BY <1>0 DEF Ops
  <2>2. Sizes \cup {0} \subseteq Nat
    BY TrackingAssumption
  <2> QED
    BY <2>1, <2>2
<1>2. op'[t].step = "original" /\ \A u \in Threads \ {t} : op'[u] = op[u]
  BY <1>0 DEF Subtract, Ops
<1>4. Units(Adding') = Units(Adding) /\ Total(Adding') = Total(Adding)
  BY <1>0, <1>2, AddingStays
<1>5. /\ t \in DOMAIN Subtracting /\ DOMAIN Subtracting' = DOMAIN Subtracting \ {t}
      /\ Subtracting[t] = op[t].gone
      /\ \A u \in DOMAIN Subtracting' : Subtracting[u] = Subtracting'[u]
  <2>1. \A x : x \in DOMAIN Subtracting' <=> x \in DOMAIN Subtracting /\ x # t
    BY <1>0, <1>2, Pending, PendingNext
  <2>2. DOMAIN Subtracting' = DOMAIN Subtracting \ {t}
    BY <2>1
  <2> QED
    BY <1>0, <1>2, <2>2, Pending, PendingNext
<1>6. /\ IsFiniteSet(Units(Subtracting')) /\ Total(Subtracting) = Total(Subtracting') + op[t].gone
      /\ Total(Subtracting') \in Nat
  <2>1. IsFiniteSet(Units(Subtracting)) /\ Subtracting[t] \in Nat
    BY <1>1, <1>5 DEF SumInv, SumsFinite
  <2>2. /\ IsFiniteSet(Units(Subtracting')) /\ Total(Subtracting') \in Nat
        /\ Total(Subtracting) = Total(Subtracting') + Subtracting[t]
    BY <1>5, <2>1, OneLess
  <2> QED
    BY <1>5, <2>2
<1>7. liveBytes' + Total(Adding') = Total(live') + Total(Subtracting') + overwritten'
  <2>1. /\ liveBytes + Total(Adding) = Total(live) + Total(Subtracting) + overwritten /\ overwritten \in Nat
        /\ Total(live) \in Nat /\ Total(Adding) \in Nat
    BY TotalsInNat DEF SumInv
  <2>2. Total(live') = Total(live)
    BY <1>0
  <2> QED
    BY <1>0, <1>1, <1>4, <1>6, <2>1, <2>2
<1>8. \A u \in Threads : Awaited(u)'
  BY <1>0, <1>2 DEF SumInv, Awaited
<1> QED
  BY <1>0, <1>4, <1>6, <1>7, <1>8 DEF SumInv, SumsFinite

LEMMA TrackKeepsSum ==
  ASSUME BlocksInv, SumInv, NEW t \in Threads, Track(t)
  PROVE  SumInv'
<1> DEFINE a == op[t].new
           s == op[t].size
           rest == Restrict(live, DOMAIN live \ {a})
<1>0. /\ op[t].step = "return" /\ a = Mine(t) /\ a # Nowhere /\ s \in Nat
      /\ op \in [Threads -> Ops] /\ op[t] \in Ops /\ liveBytes' = liveBytes
      /\ live \in [DOMAIN live -> Sizes] /\ Sizes \subseteq Nat
  <2>1. Shape(t) /\ op[t].step = "return" /\ op \in [Threads -> Ops] /\ live \in [DOMAIN live -> Sizes]
    BY DEF BlocksInv, CallsInv, TrackTypeOK, OpsTypeOK, Track, Returns
  <2> QED
    BY <2>1, TrackingAssumption DEF Track, Mine, Shape
<1>1. /\ DOMAIN live' = DOMAIN live \cup {a} /\ live'[a] = s /\ \A b \in DOMAIN live \ {a} : live'[b] = live[b]
      /\ overwritten' = IF a \in DOMAIN live THEN overwritten + live[a] ELSE overwritten
  BY DEF Track
<1>2. /\ op'[t].step = "add" /\ op'[t].size = s /\ op'[t].new = a
      /\ \A u \in Threads \ {t} : op'[u] = op[u]
  BY <1>0 DEF Track, Step, Ops
<1>3. DOMAIN rest = DOMAIN live \ {a} /\ \A b \in DOMAIN rest : rest[b] = live[b]
  BY DEF Restrict
<1> HIDE DEF rest, a, s
<1>4. /\ IsFiniteSet(Units(rest)) /\ Total(rest) \in Nat
      /\ Total(live) = Total(rest) + (IF a \in DOMAIN live THEN live[a] ELSE 0)
  <2>0. IsFiniteSet(Units(live))
    BY DEF SumInv, SumsFinite
  <2>1. CASE a \in DOMAIN live
    <3>1. live[a] \in Nat /\ \A b \in DOMAIN rest : live[b] = rest[b]
      BY <1>0, <1>3, <2>1
    <3> QED
      BY <1>3, <2>0, <2>1, <3>1, OneLess
  <2>2. CASE a \notin DOMAIN live
    <3>1. DOMAIN rest = DOMAIN live
      BY <1>3, <2>2
    <3>2. Units(rest) = Units(live) /\ Total(rest) = Total(live)
      BY <1>3, <3>1, SameTotal
    <3>3. Total(live) \in Nat
      BY TotalsInNat DEF SumInv
    <3> QED
      BY <2>0, <2>2, <3>2, <3>3
  <2> QED
    BY <2>1, <2>2
<1>5. IsFiniteSet(Units(live')) /\ Total(live') = Total(rest) + s
  <2>1. /\ a \notin DOMAIN rest /\ DOMAIN live' = DOMAIN rest \cup {a} /\ live'[a] \in Nat
        /\ \A b \in DOMAIN rest : live'[b] = rest[b]
    BY <1>0, <1>1, <1>3
  <2>2. IsFiniteSet(Units(live')) /\ Total(live') = Total(rest) + live'[a]
    BY <1>4, <2>1, OneMore
  <2> QED
    BY <1>1, <2>2
<1>7. Units(Subtracting') = Units(Subtracting) /\ Total(Subtracting') = Total(Subtracting)
  BY <1>0, <1>2, SubtractingStays
<1>8. /\ t \notin DOMAIN Adding /\ DOMAIN Adding' = DOMAIN Adding \cup {t} /\ Adding'[t] = s
      /\ \A u \in DOMAIN Adding : Adding'[u] = Adding[u]
  <2>1. \A x : x \in DOMAIN Adding' <=> x \in DOMAIN Adding \/ x = t
    BY <1>0, <1>2, Pending, PendingNext
  <2>2. DOMAIN Adding' = DOMAIN Adding \cup {t}
    BY <2>1
  <2> QED
    BY <1>0, <1>2, <2>2, Pending, PendingNext
<1>9. IsFiniteSet(Units(Adding')) /\ Total(Adding') = Total(Adding) + s /\ Total(Adding) \in Nat
  <2>1. IsFiniteSet(Units(Adding)) /\ Adding'[t] \in Nat
    BY <1>0, <1>8 DEF SumInv, SumsFinite
  <2>2. /\ IsFiniteSet(Units(Adding')) /\ Total(Adding) \in Nat
        /\ Total(Adding') = Total(Adding) + Adding'[t]
    BY <1>8, <2>1, OneMore
  <2> QED
    BY <1>8, <2>2
<1>10. overwritten' \in Nat /\ overwritten' = overwritten + (IF a \in DOMAIN live THEN live[a] ELSE 0)
  <2>1. overwritten \in Nat /\ (a \in DOMAIN live => live[a] \in Nat)
    BY <1>0 DEF SumInv
  <2> QED
    BY <1>1, <2>1
<1>11. liveBytes' + Total(Adding') = Total(live') + Total(Subtracting') + overwritten'
  <2>1. /\ liveBytes + Total(Adding) = Total(live) + Total(Subtracting) + overwritten /\ overwritten \in Nat
        /\ Total(live) \in Nat /\ Total(Adding) \in Nat /\ Total(Subtracting) \in Nat /\ liveBytes \in Int
    BY TotalsInNat DEF SumInv, BlocksInv, TrackTypeOK
  <2>2. (IF a \in DOMAIN live THEN live[a] ELSE 0) \in Nat
    BY <1>0
  <2> HIDE DEF rest
  <2> QED
    BY <1>0, <1>4, <1>5, <1>7, <1>9, <1>10, <2>1, <2>2
<1>12. ASSUME NEW u \in Threads, op'[u].step = "add"
       PROVE  op'[u].new \in DOMAIN live' /\ live'[op'[u].new] = op'[u].size
  <2>1. CASE u = t
    BY <1>1, <1>2, <2>1
  <2>2. CASE u # t
    <3>1. op'[u] = op[u] /\ op[u].step = "add"
      BY <1>2, <1>12, <2>2
    <3>2. op[u].new # a
      BY <1>0, <2>2, <3>1 DEF Mine, BlocksInv, Apart
    <3> QED
      BY <1>1, <3>1, <3>2 DEF SumInv, Awaited
  <2> QED
    BY <2>1, <2>2
<1> QED
  BY <1>5, <1>7, <1>9, <1>10, <1>11, <1>12, <1>0 DEF SumInv, SumsFinite, Awaited

LEMMA AddKeepsSum ==
  ASSUME BlocksInv, SumInv, NEW t \in Threads, Add(t)
  PROVE  SumInv'
<1>0. /\ op[t].step = "add" /\ UNCHANGED <<live, overwritten>>
      /\ liveBytes' = liveBytes + op[t].size /\ liveBytes \in Int
      /\ op \in [Threads -> Ops] /\ op[t] \in Ops /\ Sizes \subseteq Nat
  BY TrackingAssumption DEF Add, historyVars, BlocksInv, TrackTypeOK, OpsTypeOK
<1>1. op[t].size \in Nat
  <2>1. op[t].size \in Sizes \cup {0}
    BY <1>0 DEF Ops
  <2>2. Sizes \cup {0} \subseteq Nat
    BY TrackingAssumption
  <2> QED
    BY <2>1, <2>2
<1>2. op'[t].step = "idle" /\ \A u \in Threads \ {t} : op'[u] = op[u]
  BY <1>0, NoOpFields DEF Add, HandOver
<1>4. Units(Subtracting') = Units(Subtracting) /\ Total(Subtracting') = Total(Subtracting)
  BY <1>0, <1>2, SubtractingStays
<1>5. /\ t \in DOMAIN Adding /\ DOMAIN Adding' = DOMAIN Adding \ {t} /\ Adding[t] = op[t].size
      /\ \A u \in DOMAIN Adding' : Adding[u] = Adding'[u]
  <2>1. \A x : x \in DOMAIN Adding' <=> x \in DOMAIN Adding /\ x # t
    BY <1>0, <1>2, Pending, PendingNext
  <2>2. DOMAIN Adding' = DOMAIN Adding \ {t}
    BY <2>1
  <2> QED
    BY <1>0, <1>2, <2>2, Pending, PendingNext
<1>6. /\ IsFiniteSet(Units(Adding')) /\ Total(Adding) = Total(Adding') + op[t].size
      /\ Total(Adding') \in Nat
  <2>1. IsFiniteSet(Units(Adding)) /\ Adding[t] \in Nat
    BY <1>1, <1>5 DEF SumInv, SumsFinite
  <2>2. /\ IsFiniteSet(Units(Adding')) /\ Total(Adding') \in Nat
        /\ Total(Adding) = Total(Adding') + Adding[t]
    BY <1>5, <2>1, OneLess
  <2> QED
    BY <1>5, <2>2
<1>7. liveBytes' + Total(Adding') = Total(live') + Total(Subtracting') + overwritten'
  <2>1. /\ liveBytes + Total(Adding) = Total(live) + Total(Subtracting) + overwritten /\ overwritten \in Nat
        /\ Total(live) \in Nat /\ Total(Subtracting) \in Nat
    BY TotalsInNat DEF SumInv
  <2>2. Total(live') = Total(live)
    BY <1>0
  <2> QED
    BY <1>0, <1>1, <1>4, <1>6, <2>1, <2>2
<1>8. \A u \in Threads : Awaited(u)'
  BY <1>0, <1>2 DEF SumInv, Awaited
<1> QED
  BY <1>0, <1>4, <1>6, <1>7, <1>8 DEF SumInv, SumsFinite

LEMMA SumInvNext ==
  ASSUME BlocksInv, SumInv, [Next]_vars
  PROVE  SumInv'
<1> USE NoOpFields
<1>0. op \in [Threads -> Ops] /\ \A t \in Threads : op[t] \in Ops
  BY DEF BlocksInv, TrackTypeOK, OpsTypeOK
<1>1. CASE UNCHANGED vars
  BY <1>1, SumStays DEF vars, trackVars
<1>2. ASSUME NEW t \in Threads, ThreadNext(t) PROVE SumInv'
  <2>1. ASSUME NEW size \in Sizes, Malloc(t, size) PROVE SumInv'
    <3>1. op[t].step = "idle" /\ op'[t].step = "original" /\ \A u \in Threads \ {t} : op'[u] = op[u]
      BY <1>0, <2>1 DEF Malloc, Idle, NoOp
    <3> QED
      BY <2>1, <3>1, SumStays DEF Malloc, historyVars
  <2>2. ASSUME NEW size \in Sizes, NEW a \in owned, Realloc(t, a, size) PROVE SumInv'
    <3>1. op[t].step = "idle" /\ op'[t].step \in {"original", "untrack"} /\ \A u \in Threads \ {t} : op'[u] = op[u]
      BY <1>0, <2>2 DEF Realloc, Idle, NoOp
    <3> QED
      BY <2>2, <3>1, SumStays DEF Realloc, historyVars
  <2>3. ASSUME NEW a \in owned, Free(t, a) PROVE SumInv'
    <3>1. op[t].step = "idle" /\ op'[t].step \in {"original", "untrack"} /\ \A u \in Threads \ {t} : op'[u] = op[u]
      BY <1>0, <2>3 DEF Free, Idle, NoOp
    <3> QED
      BY <2>3, <3>1, SumStays DEF Free, historyVars
  <2>4. CASE Untrack(t)
    BY <2>4, UntrackKeepsSum
  <2>5. CASE Subtract(t)
    BY <2>5, SubtractKeepsSum
  <2>6. ASSUME NEW a \in Addresses, Place(t, a) PROVE SumInv'
    <3>1. op[t].step = "original" /\ op'[t].step = "return" /\ \A u \in Threads \ {t} : op'[u] = op[u]
      BY <1>0, <2>6 DEF Place, Gives, Ops
    <3> QED
      BY <2>6, <3>1, SumStays DEF Place
  <2>7. CASE PlaceFails(t)
    <3>1. op[t].step = "original" /\ op'[t].step = "idle" /\ \A u \in Threads \ {t} : op'[u] = op[u]
      BY <1>0, <2>7 DEF PlaceFails, Gives
    <3> QED
      BY <2>7, <3>1, SumStays DEF PlaceFails
  <2>8. CASE FreeBlock(t)
    <3>1. op[t].step = "original" /\ op'[t].step = "idle" /\ \A u \in Threads \ {t} : op'[u] = op[u]
      BY <1>0, <2>8 DEF FreeBlock
    <3> QED
      BY <2>8, <3>1, SumStays DEF FreeBlock
  <2>9. CASE ReturnUntracked(t)
    <3>1. op[t].step = "return" /\ op'[t].step = "idle" /\ \A u \in Threads \ {t} : op'[u] = op[u]
      BY <1>0, <2>9 DEF ReturnUntracked, Returns, HandOver
    <3> QED
      BY <2>9, <3>1, SumStays DEF ReturnUntracked, historyVars
  <2>10. CASE Track(t)
    BY <2>10, TrackKeepsSum
  <2>11. CASE Add(t)
    BY <2>11, AddKeepsSum
  <2>12. ASSUME NEW h \in Hooks, EnterHook(t, h) PROVE SumInv'
    BY <2>12, SumStays DEF EnterHook, trackVars
  <2>13. CASE LeaveHook(t)
    BY <2>13, SumStays DEF LeaveHook, trackVars
  <2> QED
    BY <1>2, <2>1, <2>2, <2>3, <2>4, <2>5, <2>6, <2>7, <2>8, <2>9, <2>10, <2>11, <2>12, <2>13
    DEF ThreadNext
<1> QED
  BY <1>1, <1>2 DEF Next

(* What is about to be added is in the table already, under one address    *)
(* for each thread; so what the sum lacks is less than what the table has. *)
LEMMA NeverBelowZero ==
  ASSUME BlocksInv, SumInv
  PROVE  liveBytes >= 0
<1> DEFINE at == [t \in DOMAIN Adding |-> op[t].new]
<1>1. ASSUME NEW t \in DOMAIN Adding
      PROVE  t \in Threads /\ at[t] \in DOMAIN live /\ live[at[t]] = Adding[t] /\ at[t] = Mine(t) /\ at[t] # Nowhere
  <2>1. t \in Threads /\ op[t].step = "add" /\ Adding[t] = op[t].size
    BY Pending
  <2>2. op[t].new \in Addresses
    BY <2>1 DEF BlocksInv, CallsInv, Shape
  <2> QED
    BY <2>1, <2>2, TrackingAssumption DEF SumInv, Awaited, Mine
<1>2. \A t, u \in DOMAIN Adding : at[t] = at[u] => t = u
  BY <1>1 DEF BlocksInv, Apart
<1> HIDE DEF at
<1>3. Total(Adding) <= Total(live)
  BY <1>1, <1>2, Embedded DEF SumInv, SumsFinite
<1>4. Total(live) \in Nat /\ Total(Adding) \in Nat /\ Total(Subtracting) \in Nat
  BY TotalsInNat DEF SumInv
<1>5. liveBytes + Total(Adding) = Total(live) + Total(Subtracting) + overwritten /\ overwritten \in Nat /\ liveBytes \in Int
  BY DEF SumInv, BlocksInv, TrackTypeOK
<1> QED
  BY <1>3, <1>4, <1>5

-----------------------------------------------------------------------------
LEMMA InvNext ==
  ASSUME Inv, [Next]_vars
  PROVE  Inv'
<1> USE DEF Inv
<1>1. CASE UNCHANGED vars
  <2>1. UNCHANGED scopeVars
    BY <1>1 DEF vars
  <2> QED
    BY <1>1, <2>1, ScopesStay, BlocksStay
<1>2. ASSUME NEW t \in Threads, ThreadNext(t) PROVE Inv'
  <2>1. ASSUME NEW size \in Sizes, Malloc(t, size) PROVE Inv'
    BY <2>1, MallocKeeps, ScopesStay DEF Malloc
  <2>2. ASSUME NEW size \in Sizes, NEW a \in owned, Realloc(t, a, size) PROVE Inv'
    BY <2>2, ReallocKeeps, ScopesStay DEF Realloc
  <2>3. ASSUME NEW a \in owned, Free(t, a) PROVE Inv'
    BY <2>3, FreeKeeps, ScopesStay DEF Free
  <2>4. CASE Untrack(t)
    BY <2>4, UntrackKeeps, ScopesStay DEF Untrack
  <2>5. CASE Subtract(t)
    BY <2>5, SubtractKeeps, ScopesStay DEF Subtract
  <2>6. ASSUME NEW a \in Addresses, Place(t, a) PROVE Inv'
    BY <2>6, PlaceKeeps, ScopesStay DEF Place
  <2>7. CASE PlaceFails(t)
    BY <2>7, PlaceFailsKeeps, ScopesStay DEF PlaceFails
  <2>8. CASE FreeBlock(t)
    BY <2>8, FreeBlockKeeps, ScopesStay DEF FreeBlock
  <2>9. CASE ReturnUntracked(t)
    BY <2>9, ReturnUntrackedKeeps, ScopesStay DEF ReturnUntracked
  <2>10. CASE Track(t)
    BY <2>10, TrackKeeps, ScopesStay DEF Track
  <2>11. CASE Add(t)
    BY <2>11, AddKeeps, ScopesStay DEF Add
  <2>12. ASSUME NEW h \in Hooks, EnterHook(t, h) PROVE Inv'
    <3>1. \A u \in Threads \ {t} : inHook'[u] = inHook[u]
      BY <2>12 DEF EnterHook, Enter, ScopesInv, ScopesTypeOK
    <3> QED
      BY <2>12, <3>1, EnterKeeps, HooksKeep DEF EnterHook
  <2>13. CASE LeaveHook(t)
    <3>1. \A u \in Threads \ {t} : inHook'[u] = inHook[u]
      BY <2>13 DEF LeaveHook, Leave, ScopesInv, ScopesTypeOK
    <3> QED
      BY <2>13, <3>1, LeaveKeeps, HooksKeep DEF LeaveHook
  <2> QED
    BY <1>2, <2>1, <2>2, <2>3, <2>4, <2>5, <2>6, <2>7, <2>8, <2>9, <2>10, <2>11, <2>12, <2>13
    DEF ThreadNext
<1> QED
  BY <1>1, <1>2 DEF Next

(* The strengthened invariant of the detours: what every hook on a stack   *)
(* found when it was entered, and that the block in a thread's hand is     *)
(* nobody else's.                                                          *)
THEOREM Invariance == Spec => []Inv
<1>1. Inv /\ [Next]_vars => Inv'
  BY InvNext
<1> QED
  BY <1>1, InvInit, PTL DEF Spec

(* The state of the detours is of its types, whatever the threads do.      *)
THEOREM TypeCorrect == Spec => []TypeOK
<1>1. Inv => TypeOK
  BY DEF Inv, ScopesInv, BlocksInv, TrackTypeOK, OpsTypeOK, Ops, Steps, TypeOK
<1> QED
  BY <1>1, Invariance, PTL

(* However deep the hooks nest, in_hook says whether the thread is inside  *)
(* the engine, and each allocation is charged to the innermost hook that   *)
(* names a context.                                                        *)
THEOREM ScopesRestored == Spec => []ScopesMatchStack
<1>1. Inv => ScopesMatchStack
  BY DEF Inv, ScopesInv
<1> QED
  BY <1>1, Invariance, PTL

(* For any number of threads: an entry of live_allocations stands for a    *)
(* block that is there, with its size, unless the block went inside the    *)
(* engine; and no large block placed outside is without its entry.         *)
THEOREM TableTrue == Spec => []EntriesMatchHeap
<1>1. Inv => EntriesMatchHeap
  BY DEF Inv, BlocksInv
<1> QED
  BY <1>1, Invariance, PTL

(* For any number of threads, wherever each is between the table and the   *)
(* atomic beside it: live_allocation_bytes is what the table adds up to,   *)
(* but for what is about to be added or taken off and for the entries that *)
(* others took the place of, and it never goes below zero.                 *)
THEOREM SumAccounted == Spec => []BytesAccounted
<1>1. Init => SumInv
  BY SumInvInit
<1>2. Inv /\ SumInv /\ [Next]_vars => SumInv'
  BY SumInvNext DEF Inv
<1>3. Inv /\ SumInv => BytesAccounted
  BY NeverBelowZero DEF Inv, SumInv, BytesAccounted
<1> QED
  BY <1>1, <1>2, <1>3, Invariance, PTL DEF Spec
==============================================================================
