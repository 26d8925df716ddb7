-------------------------- MODULE TextureCreation --------------------------
(***************************************************************************)
(* How a texture enters and leaves the program: the CreateTexture and      *)
(* CreateCubeTexture hooks and the Release hook of src/d3d9.cpp, the pool  *)
(* that TexturePlacementPolicy chooses, and the TextureLedger that counts  *)
(* what exists by its address.                                             *)
(*                                                                         *)
(* Addresses are what the races turn on: the driver may place a texture    *)
(* where one has just been freed, while the Release hook that freed it has *)
(* not told the ledger yet. A step of a thread is one driver call or one   *)
(* critical section of the ledger. What a rescue does is RescueCoordinator;*)
(* here a consultation either acts or does not.                            *)
(*                                                                         *)
(* A definition marked as a fault is what a plausible mistake would make   *)
(* of the one that follows it; nothing here uses it.                       *)
(***************************************************************************)
EXTENDS Naturals, FiniteSets

CONSTANTS
  Threads,     (* threads of the game that create and release textures     *)
  Places,      (* addresses at which the driver can place a texture        *)
  Wrappers,    (* addresses at which the private heap can place a wrapper  *)
  Nowhere,     (* nullptr                                                  *)
  Requests,    (* what the game asks for                                   *)
  PreferDefault,      (* TexturePlacementConfig::prefer_default            *)
  FallBackToManaged   (* TexturePlacementConfig::fall_back_to_managed      *)

(* A MANAGED texture that place() would relocate, one that it would not,   *)
(* and a cube or volume texture.                                           *)
AllRequests == {"large", "plain", "cube"}

ASSUME CreationAssumption ==
  /\ Nowhere \notin Places \cup Wrappers
  /\ Places \cap Wrappers = {}
  /\ Requests \subseteq AllRequests
  /\ PreferDefault \in BOOLEAN /\ FallBackToManaged \in BOOLEAN

VARIABLES
  object,      (* what is at an address                                    *)
  behind,      (* inner_ of a wrapper                                      *)
  held,        (* addresses the game holds the last reference to           *)
  hooked,      (* add_hook has patched Release of IDirect3DTexture9        *)
  records,     (* the ledger's records_: the pool an address is counted in *)
  total,       (* total_, one for each texture                             *)
  relocated,   (* relocated_count_                                         *)
  overtaken,   (* history: textures whose record a late release erased     *)
  strays,      (* history: cubes that are gone and that nobody withdrew    *)
  pc,          (* where a thread is                                        *)
  want,        (* what it was asked for                                    *)
  pool,        (* the pool in effect                                       *)
  overridden,  (* pool_overridden                                          *)
  attempt,     (* retries so far                                           *)
  ptr          (* *ppTexture, or the texture it releases                   *)

memory == <<object, behind, held>>
ledger == <<records, total, relocated>>
call   == <<want, pool, overridden, attempt>>
history == <<overtaken, strays>>
vars   == <<memory, hooked, ledger, history, pc, call, ptr>>

Addresses == Places \cup Wrappers
(* A texture the game created or would see; a wrapper; the texture behind  *)
(* one; nothing.                                                           *)
Bare    == {"managed", "default", "cube"}
Objects == Bare \cup {"wrapper", "inner", "free"}
Uncounted == "uncounted"
Pools   == {"managed", "default"}
(* A record: the pool, and whether the policy moved the texture there.     *)
Record(p, r) == [pool |-> p, relocated |-> r]
Records == [pool : Pools, relocated : BOOLEAN]

Init ==
  /\ object = [a \in Addresses |-> "free"]
  /\ behind = [w \in Wrappers |-> Nowhere]
  /\ held = {} /\ hooked = FALSE
  /\ records = [a \in {} |-> Uncounted] /\ total = 0 /\ relocated = 0
  /\ overtaken = {} /\ strays = {}
  /\ pc = [t \in Threads |-> "idle"]
  /\ want = [t \in Threads |-> "plain"]
  /\ pool = [t \in Threads |-> "managed"]
  /\ overridden = [t \in Threads |-> FALSE]
  /\ attempt = [t \in Threads |-> 0]
  /\ ptr = [t \in Threads |-> Nowhere]

-----------------------------------------------------------------------------
(* Helpers                                                                 *)

Goto(t, from, to) == pc[t] = from /\ pc' = [pc EXCEPT ![t] = to]

(* The driver places a texture of kind k somewhere, or memory is returned. *)
Placed(t, k) == \E a \in Places : /\ object[a] = "free"
                                  /\ object' = [object EXCEPT ![a] = k]
                                  /\ ptr' = [ptr EXCEPT ![t] = a]

(* place and may_fall_back.                                                *)
Relocates(r)  == PreferDefault /\ r = "large"
NeverFallsBack(t) == FALSE                                         (* fault *)
MayFallBack(t) == FallBackToManaged /\ Relocates(want[t])
AfterFailure(t) == IF want[t] = "cube" THEN "idle"
                   ELSE IF MayFallBack(t) THEN "fallBack" ELSE "retry"

Ones(b) == IF b THEN 1 ELSE 0

-----------------------------------------------------------------------------
(* The CreateTexture hook                                                  *)

Request(t) ==
  /\ Goto(t, "idle", "create")
  /\ \E r \in Requests :
       /\ want' = [want EXCEPT ![t] = r]
       /\ overridden' = [overridden EXCEPT ![t] = Relocates(r)]
       /\ pool' = [pool EXCEPT ![t] = IF Relocates(r) THEN "default" ELSE "managed"]
  /\ attempt' = [attempt EXCEPT ![t] = 0]
  /\ ptr' = [ptr EXCEPT ![t] = Nowhere]
  /\ UNCHANGED <<memory, hooked, ledger, history>>

Create(t) ==
  /\ Goto(t, "create", IF overridden[t] THEN "wrap" ELSE "note")
  /\ Placed(t, IF want[t] = "cube" THEN "cube" ELSE pool[t])
  /\ UNCHANGED <<behind, held, hooked, ledger, history, call>>

CreateFails(t) ==
  /\ Goto(t, "create", AfterFailure(t))
  /\ UNCHANGED <<memory, hooked, ledger, history, call, ptr>>

(* make_resettable_texture keeps the created texture behind the wrapper.   *)
Wrap(t) ==
  /\ Goto(t, "wrap", "note")
  /\ \E w \in Wrappers :
       /\ object[w] = "free"
       /\ object' = [object EXCEPT ![w] = "wrapper", ![ptr[t]] = "inner"]
       /\ behind' = [behind EXCEPT ![w] = ptr[t]]
       /\ ptr' = [ptr EXCEPT ![t] = w]
  /\ UNCHANGED <<held, hooked, ledger, history, call>>

WrapFailureLeaks(t) ==                                             (* fault *)
  /\ Goto(t, "wrap", AfterFailure(t))
  /\ ptr' = [ptr EXCEPT ![t] = Nowhere]
  /\ UNCHANGED <<memory, hooked, ledger, history, call>>

(* No memory or no file mapping: the created texture is released, by a     *)
(* call that a patched Release sees, and the create has failed.            *)
WrapFails(t) ==
  /\ Goto(t, "wrap", IF hooked THEN "forgetUnwrapped" ELSE AfterFailure(t))
  /\ object' = [object EXCEPT ![ptr[t]] = "free"]
  /\ ptr' = [ptr EXCEPT ![t] = IF hooked THEN @ ELSE Nowhere]
  /\ UNCHANGED <<behind, held, hooked, ledger, history, call>>

(* Once more in MANAGED, whatever pool was placed.                         *)
InManaged(t) == /\ pool' = [pool EXCEPT ![t] = "managed"]
                /\ overridden' = [overridden EXCEPT ![t] = FALSE]

FallBack(t) ==
  /\ Goto(t, "fallBack", "note")
  /\ Placed(t, "managed")
  /\ InManaged(t)
  /\ UNCHANGED <<behind, held, hooked, ledger, history, want, attempt>>

FallBackFails(t) ==
  /\ Goto(t, "fallBack", "retry")
  /\ InManaged(t)
  /\ UNCHANGED <<memory, hooked, ledger, history, want, attempt, ptr>>

(* The rescue acted and the driver is asked again, in the pool in effect.  *)
Retry(t) ==
  /\ attempt[t] < 3
  /\ Goto(t, "retry", "note")
  /\ Placed(t, pool[t])
  /\ attempt' = [attempt EXCEPT ![t] = @ + 1]
  /\ UNCHANGED <<behind, held, hooked, ledger, history, want, pool, overridden>>

RetryFails(t) ==
  /\ attempt[t] < 3
  /\ pc[t] = "retry"
  /\ attempt' = [attempt EXCEPT ![t] = @ + 1]
  /\ UNCHANGED <<memory, hooked, ledger, history, pc, want, pool, overridden, ptr>>

(* The rescue did not act, or three retries have failed.                   *)
GiveUp(t) ==
  /\ Goto(t, "retry", "idle")
  /\ UNCHANGED <<memory, hooked, ledger, history, call, ptr>>

-----------------------------------------------------------------------------
(* The ledger                                                              *)

Counts(recs, a) == a \in DOMAIN recs
Moved(recs, a)  == Counts(recs, a) /\ recs[a].relocated

Accumulates(a, r) ==                                               (* fault *)
  /\ records' = [b \in DOMAIN records \cup {a} |-> IF b = a THEN r ELSE records[b]]
  /\ total' = total + 1
  /\ relocated' = relocated + Ones(r.relocated)

(* note_created: a handle that is there already is withdrawn first.        *)
NoteCreated(a, r) ==
  /\ records' = [b \in DOMAIN records \cup {a} |-> IF b = a THEN r ELSE records[b]]
  /\ total' = total - Ones(Counts(records, a)) + 1
  /\ relocated' = relocated - Ones(Moved(records, a)) + Ones(r.relocated)

(* note_destroyed: an unknown handle is a no-op.                           *)
NoteDestroyed(a) ==
  /\ records' = [b \in DOMAIN records \ {a} |-> records[b]]
  /\ total' = total - Ones(Counts(records, a))
  /\ relocated' = relocated - Ones(Moved(records, a))

HandsOverUncounted(t) ==                                           (* fault *)
  /\ Goto(t, "note", IF overridden[t] \/ want[t] = "cube" THEN "idle" ELSE "hook")
  /\ held' = IF overridden[t] \/ want[t] = "cube" THEN held \cup {ptr[t]} ELSE held
  /\ UNCHANGED <<object, behind, hooked, ledger, history, call, ptr>>

(* remember_texture. The game gets an overridden texture and a cube at     *)
(* once, any other when its Release is hooked.                             *)
Remember(t) ==
  /\ Goto(t, "note", IF overridden[t] \/ want[t] = "cube" THEN "idle" ELSE "hook")
  /\ NoteCreated(ptr[t], Record(pool[t], overridden[t]))
  /\ overtaken' = overtaken \ {ptr[t]} /\ strays' = strays \ {ptr[t]}
  /\ held' = IF overridden[t] \/ want[t] = "cube" THEN held \cup {ptr[t]} ELSE held
  /\ UNCHANGED <<object, behind, hooked, call, ptr>>

AddHook(t) ==
  /\ Goto(t, "hook", "idle")
  /\ hooked' = TRUE
  /\ held' = held \cup {ptr[t]}
  /\ UNCHANGED <<object, behind, ledger, history, call, ptr>>

-----------------------------------------------------------------------------
(* Release                                                                 *)

NeverForgotten(t, a) ==                                            (* fault *)
  /\ pc[t] = "idle" /\ a \in held /\ object[a] \in Bare
  /\ held' = held \ {a}
  /\ object' = [object EXCEPT ![a] = "free"]
  /\ ptr' = [ptr EXCEPT ![t] = a]
  /\ UNCHANGED <<behind, hooked, ledger, history, pc, call>>

(* The Release hook: the driver frees the texture, then the ledger hears   *)
(* of it. A cube's Release is not hooked.                                  *)
ReleaseBare(t, a) ==
  /\ pc[t] = "idle" /\ a \in held /\ object[a] \in Bare
  /\ held' = held \ {a}
  /\ object' = [object EXCEPT ![a] = "free"]
  /\ ptr' = [ptr EXCEPT ![t] = a]
  /\ pc' = [pc EXCEPT ![t] = IF hooked /\ object[a] /= "cube" THEN "forget" ELSE "idle"]
  /\ strays' = IF object[a] = "cube" THEN strays \cup {a} ELSE strays
  /\ UNCHANGED <<behind, hooked, ledger, overtaken, call>>

(* ~ResettableTexture: the texture behind the wrapper is released first,   *)
(* then the ledger hears of the wrapper, then its memory is returned.      *)
ReleaseWrapper(t, a) ==
  /\ a \in held /\ object[a] = "wrapper"
  /\ Goto(t, "idle", IF hooked THEN "forgetInner" ELSE "destroyed")
  /\ held' = held \ {a}
  /\ object' = [object EXCEPT ![behind[a]] = "free"]
  /\ ptr' = [ptr EXCEPT ![t] = a]
  /\ UNCHANGED <<behind, hooked, ledger, history, call>>

(* forget_texture on address a. If something else is there by now, and is  *)
(* counted, it is that record which goes.                                  *)
Forget(a) ==
  /\ NoteDestroyed(a)
  /\ overtaken' = IF Counts(records, a) /\ object[a] \in Bare
                  THEN overtaken \cup {a} ELSE overtaken
  /\ strays' = strays \ {a}

ForgetBare(t) ==
  /\ Goto(t, "forget", "idle")
  /\ Forget(ptr[t])
  /\ UNCHANGED <<memory, hooked, call, ptr>>

ForgetUnwrapped(t) ==
  /\ Goto(t, "forgetUnwrapped", AfterFailure(t))
  /\ Forget(ptr[t])
  /\ ptr' = [ptr EXCEPT ![t] = Nowhere]
  /\ UNCHANGED <<memory, hooked, call>>

ForgetInner(t) ==
  /\ Goto(t, "forgetInner", "destroyed")
  /\ Forget(behind[ptr[t]])
  /\ UNCHANGED <<memory, hooked, call, ptr>>

(* destroyed_, which is forget_resettable_texture.                         *)
Destroyed(t) ==
  /\ Goto(t, "destroyed", "free")
  /\ Forget(ptr[t])
  /\ UNCHANGED <<memory, hooked, call, ptr>>

FreeWrapper(t) ==
  /\ Goto(t, "free", "idle")
  /\ object' = [object EXCEPT ![ptr[t]] = "free"]
  /\ behind' = [behind EXCEPT ![ptr[t]] = Nowhere]
  /\ UNCHANGED <<held, hooked, ledger, history, call, ptr>>

-----------------------------------------------------------------------------
Creation(t) == \/ Request(t) \/ Create(t) \/ CreateFails(t) \/ Wrap(t) \/ WrapFails(t)
               \/ FallBack(t) \/ FallBackFails(t)
               \/ Retry(t) \/ RetryFails(t) \/ GiveUp(t)
               \/ Remember(t) \/ AddHook(t)
Destruction(t) == \/ \E a \in Addresses : ReleaseBare(t, a) \/ ReleaseWrapper(t, a)
                  \/ ForgetBare(t) \/ ForgetUnwrapped(t) \/ ForgetInner(t)
                  \/ Destroyed(t) \/ FreeWrapper(t)

Next == \E t \in Threads : Creation(t) \/ Destruction(t)

Spec == Init /\ [][Next]_vars

-----------------------------------------------------------------------------
(* Properties                                                              *)

CreateSteps == {"create", "wrap", "forgetUnwrapped", "fallBack", "retry", "note", "hook"}
ReleaseSteps == {"forget", "forgetInner", "destroyed", "free"}

TypeOK ==
  /\ object \in [Addresses -> Objects]
  /\ behind \in [Wrappers -> Places \cup {Nowhere}]
  /\ held \subseteq Addresses /\ overtaken \subseteq Addresses /\ strays \subseteq Places
  /\ hooked \in BOOLEAN
  /\ DOMAIN records \subseteq Addresses
  /\ \A a \in DOMAIN records : records[a] \in Records
  /\ total \in Nat /\ relocated \in Nat
  /\ pc \in [Threads -> {"idle"} \cup CreateSteps \cup ReleaseSteps]
  /\ want \in [Threads -> AllRequests]
  /\ pool \in [Threads -> Pools]
  /\ overridden \in [Threads -> BOOLEAN]
  /\ attempt \in [Threads -> 0..3]
  /\ ptr \in [Threads -> Addresses \cup {Nowhere}]

(* "it creates eligible textures in D3DPOOL_DEFAULT [...] and hands the    *)
(* engine a temporary pagefile-backed buffer when it locks one": a texture *)
(* that was moved to DEFAULT reaches the game behind a wrapper or not at   *)
(* all (CreateTexture hook).                                               *)
RelocatedIsWrapped == \A a \in held : object[a] /= "default"

(* A texture the game holds is counted, in the pool it is in and as moved  *)
(* exactly when it is behind a wrapper. The exception is a texture whose   *)
(* record was erased by the release of another that had its address        *)
(* before (remember_texture, Release hook, destroyed_).                    *)
HeldIsCounted ==
  \A a \in held \ overtaken :
    /\ Counts(records, a)
    /\ records[a] = IF object[a] = "wrapper" THEN Record("default", TRUE)
                                             ELSE Record("managed", FALSE)

(* Nothing is counted that does not exist: the total does not ratchet up   *)
(* over the life of the process (texture_ledger.h). A release under way    *)
(* that has freed a texture has still to withdraw it. The exception is a   *)
(* cube or volume texture, whose Release nobody hooks: it stays counted    *)
(* until its address is used again.                                        *)
Withdraws(t, a) == \/ pc[t] \in {"forget", "forgetUnwrapped", "destroyed"} /\ ptr[t] = a
                   \/ pc[t] = "forgetInner" /\ a \in {ptr[t], behind[ptr[t]]}
CountedExists ==
  \A a \in DOMAIN records : \/ object[a] \in Bare \cup {"wrapper"} \/ a \in strays
                            \/ \E t \in Threads : Withdraws(t, a)

(* The running totals are those of the records, whatever order creates and *)
(* releases report an address in (deposit, withdraw).                      *)
TotalsMatch ==
  /\ total = Cardinality(DOMAIN records)
  /\ relocated = Cardinality({a \in DOMAIN records : records[a].relocated})

(* No texture is lost: whatever exists is held by the game, behind a       *)
(* wrapper that exists, or in the hands of a create or a destructor. A     *)
(* lost texture is address space that never comes back.                    *)
InHand(t, a) == ptr[t] = a /\ pc[t] \in {"wrap", "note", "hook"} \cup ReleaseSteps
NothingLost ==
  /\ \A a \in Addresses : object[a] \in Bare \cup {"wrapper"} =>
       a \in held \/ \E t \in Threads : InHand(t, a)
  /\ \A a \in Places : object[a] = "inner" =>
       \E w \in Wrappers : object[w] = "wrapper" /\ behind[w] = a
=============================================================================
