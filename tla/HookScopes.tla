----------------------------- MODULE HookScopes -----------------------------
(***************************************************************************)
(* What lyrium's detours keep on a thread's stack: ReentryGuard            *)
(* (engine_hooks.cpp), which says that the thread is inside the engine,    *)
(* and AllocContextScope (alloc_context.h), which names the hook that      *)
(* allocations are charged to. Both write one thread-local variable on     *)
(* entry and put it back on the way out, and the hooks nest in any order:  *)
(* the driver is entered from the engine, and a rescue inside a create     *)
(* enters the engine again.                                                *)
(***************************************************************************)
EXTENDS Naturals, Sequences, SequencesExt

CONSTANTS
  Threads,
  MaxDepth     (* bound: hooks of one thread inside each other             *)

ASSUME DepthAssumption == MaxDepth \in Nat

VARIABLES
  inHook,      (* in_hook, thread_local                                    *)
  context,     (* current_alloc_context(), thread_local                    *)
  stack        (* the hooks a thread is in, outermost first                *)

scopeVars == <<inHook, context, stack>>

Contexts == {"none", "d3d_create", "engine_texture"}

(* A hook: whether it holds a ReentryGuard, and the context it names, or   *)
(* "same" without a scope. In turn: the functions that create an engine    *)
(* texture, the other functions of the engine, and the device's            *)
(* CreateTexture.                                                          *)
Texture == [guards |-> TRUE,  names |-> "engine_texture"]
Engine  == [guards |-> TRUE,  names |-> "same"]
Create  == [guards |-> FALSE, names |-> "d3d_create"]
Hooks   == {Texture, Engine, Create}

(* engaged and previous_ are members of the two scope objects.             *)
Frame == [hook : Hooks, engaged : BOOLEAN, previous : Contexts]

ScopesInit ==
  /\ inHook  = [t \in Threads |-> FALSE]
  /\ context = [t \in Threads |-> "none"]
  /\ stack   = [t \in Threads |-> << >>]

ScopesTypeOK ==
  /\ inHook \in [Threads -> BOOLEAN] /\ context \in [Threads -> Contexts]
  /\ stack \in [Threads -> Seq(Frame)] /\ \A t \in Threads : Len(stack[t]) <= MaxDepth

Enter(t, h) ==
  /\ Len(stack[t]) < MaxDepth
  /\ stack' = [stack EXCEPT ![t] = Append(@,
        [hook |-> h, engaged |-> h.guards /\ ~inHook[t], previous |-> context[t]])]
  /\ inHook'  = [inHook EXCEPT ![t] = @ \/ h.guards]
  /\ context' = [context EXCEPT ![t] = IF h.names = "same" THEN @ ELSE h.names]

(* Fault: a scope that clears what it set instead of putting back what it  *)
(* found.                                                                  *)
LeaveClears(t) ==
  /\ stack[t] /= << >>
  /\ stack'   = [stack EXCEPT ![t] = Front(@)]
  /\ inHook'  = [inHook EXCEPT ![t] = FALSE]
  /\ context' = [context EXCEPT ![t] = "none"]

Leave(t) ==
  /\ stack[t] /= << >>
  /\ LET f == Last(stack[t]) IN
       /\ inHook'  = [inHook EXCEPT ![t] = @ /\ ~f.engaged]
       /\ context' = [context EXCEPT ![t] = IF f.hook.names = "same" THEN @ ELSE f.previous]
  /\ stack' = [stack EXCEPT ![t] = Front(@)]

(* What the two variables should say of the n outermost hooks of a stack.  *)
Guarded(s) == \E i \in DOMAIN s : s[i].hook.guards
Charged(s, n, c) ==
  \/ c = "none" /\ \A i \in 1..n : s[i].hook.names = "same"
  \/ \E i \in 1..n : /\ s[i].hook.names = c /\ c /= "same"
                     /\ \A j \in (i + 1)..n : s[j].hook.names = "same"

(* However the hooks nest, in_hook is set exactly while one of them is     *)
(* inside the engine, and what is allocated is charged to the innermost    *)
(* hook that names a context.                                              *)
ScopesMatchStack ==
  \A t \in Threads : /\ inHook[t] = Guarded(stack[t])
                     /\ Charged(stack[t], Len(stack[t]), context[t])
=============================================================================
