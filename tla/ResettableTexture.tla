------------------------- MODULE ResettableTexture -------------------------
(***************************************************************************)
(* One relocated texture of src/resettable_texture.cpp: the COM wrapper    *)
(* the game holds, the DEFAULT-pool texture behind it (inner_), and the    *)
(* threads that lock, bind, touch, release and reset it at once.           *)
(*                                                                         *)
(* A step of a thread is what the code does between two points at which    *)
(* another thread can be seen: one critical section of registry_mutex,     *)
(* inner_mutex_ or lock_mutex_, one atomic operation, or one driver call.  *)
(* pc[t] is where thread t is inside the DLL; "idle" is the game.          *)
(*                                                                         *)
(* A definition marked as a fault is what a plausible mistake would make   *)
(* of the one that follows it; nothing here uses it.                       *)
(*                                                                         *)
(* Pixel data is abstracted to whether a level of an inner texture equals  *)
(* what the mapped section held at the last UnlockRect (fresh).            *)
(***************************************************************************)
EXTENDS Naturals, FiniteSets

CONSTANTS
  Threads,    (* threads of the game that call into the wrapper            *)
  Binders,    (* those that call SetTexture and GetTexture                 *)
  Resetters,  (* those that call Reset                                     *)
  Levels,     (* mip levels, numbered                                      *)
  Inners,     (* addresses at which the driver can place a texture         *)
  NoInner     (* nullptr                                                   *)

ASSUME ThreadsAssumption == /\ IsFiniteSet(Threads)
                            /\ Binders \subseteq Threads
                            /\ Resetters \subseteq Threads
ASSUME LevelsAssumption  == Levels \subseteq Nat
ASSUME InnersAssumption  == NoInner \notin Inners

VARIABLES
  life,        (* unborn, live, dying (the destructor runs) or freed       *)
  refs,        (* references_                                              *)
  held,        (* threads that own a reference the game gave them          *)
  pinned,      (* threads that own one taken by the DLL for one call       *)
  registered,  (* the wrapper is in registered_textures                    *)
  byInner,     (* keys of textures_by_inner that lead to the wrapper       *)
  inner,       (* inner_                                                   *)
  innerRefs,   (* the COM count of the texture at an address; 0: none      *)
  bound,       (* the texture the device holds at the texture stage        *)
  fresh,       (* levels of the texture at an address that are current     *)
  valid,       (* valid_: levels ever written                              *)
  dirty,       (* dirty_: levels owed to the GPU                           *)
  dropped,     (* history: levels whose upload failed and is owed no more  *)
  view,        (* locks_: how a level is locked                            *)
  pc,          (* where a thread is                                        *)
  task,        (* the call it is executing                                 *)
  mine,        (* the inner texture it works on                            *)
  owed,        (* levels it took from dirty_ and has still to upload       *)
  level,       (* the level it uploads or unlocks                          *)
  current,     (* whether the staging copy it made is still the content    *)
  late         (* history: levels put into dirty_ since its flush took it  *)

lifeVars     == <<life, refs, held, pinned>>
registryVars == <<registered, byInner>>
driverVars   == <<inner, innerRefs, bound, fresh>>
levelVars    == <<valid, dirty, dropped, view>>
flushVars    == <<owed, level, current, late>>
vars == <<lifeVars, registryVars, driverVars, levelVars, pc, task, mine, flushVars>>

Tasks == {"none", "create", "bind", "upload", "touch", "get",
          "reset", "restore", "unlock"}
Steps == {"idle", "enroll", "handOver", "check", "make", "publish", "register",
          "owe", "take", "map", "next", "grab", "copy", "put", "letGo", "unpin",
          "set", "rewrap", "swap", "unregister", "demolish", "snapshot",
          "detach", "erase", "freeInner", "deviceReset", "markValid", "markDirty"}

InnerOrNone == Inners \cup {NoInner}

Init ==
  /\ life = "unborn" /\ refs = 0 /\ held = {} /\ pinned = {}
  /\ registered = FALSE /\ byInner = {}
  /\ inner = NoInner /\ bound = NoInner
  /\ innerRefs = [i \in Inners |-> 0]
  /\ fresh = [i \in Inners |-> {}]
  /\ valid = {} /\ dirty = {} /\ dropped = {}
  /\ view = [l \in Levels |-> "none"]
  /\ pc = [t \in Threads |-> "idle"]
  /\ task = [t \in Threads |-> "none"]
  /\ mine = [t \in Threads |-> NoInner]
  /\ owed = [t \in Threads |-> {}]
  /\ level = [t \in Threads |-> 0]
  /\ current = [t \in Threads |-> FALSE]
  /\ late = [t \in Threads |-> {}]

-----------------------------------------------------------------------------
(* Helpers                                                                 *)

(* t moves on; a call that returns to the game is over.                    *)
MoveTo(t, to, k) == /\ pc'   = [pc EXCEPT ![t] = to]
                    /\ task' = [task EXCEPT ![t] = IF to = "idle" THEN "none" ELSE k]
Goto(t, from, to)      == pc[t] = from /\ MoveTo(t, to, task[t])
Start(t, k, to)        == pc[t] = "idle" /\ MoveTo(t, to, k)

(* Release on the texture at address i; nothing for nullptr.               *)
Released(i) == IF i = NoInner THEN innerRefs
               ELSE [innerRefs EXCEPT ![i] = @ - 1]

(* Release on the wrapper by t: whoever reads zero runs the destructor and *)
(* then goes on with its call.                                             *)
DropReference(t, after) ==
  /\ refs' = refs - 1
  /\ life' = IF refs = 1 THEN "dying" ELSE life
  /\ MoveTo(t, IF refs = 1 THEN "unregister" ELSE after, task[t])

(* try_add_ref on a wrapper found in the registry.                         *)
PlainAddRef == registered                                          (* fault *)
CanPin == registered /\ refs > 0
Pin(t) == refs' = refs + 1 /\ pinned' = pinned \cup {t} /\ UNCHANGED <<life, held>>

(* Where a call goes on after ensure_inner returned true, after it         *)
(* returned false, and after the wrapper reference it took is dropped.     *)
BindUnflushed(k) == IF k = "restore" THEN "unpin" ELSE "grab"      (* fault *)
AfterEnsure(k) == CASE k = "bind"    -> "take"
                    [] k = "restore" -> "unpin"
                    [] OTHER         -> "grab"
AfterNoInner(k) == CASE k = "upload" -> "next"
                     [] k = "touch"  -> "idle"
                     [] OTHER        -> "unpin"
AfterUnpin(k) == CASE k = "bind"  -> "set"
                   [] k = "reset" -> "deviceReset"
                   [] OTHER       -> "idle"

(* Levels enter dirty_: every bind under way has missed them.              *)
MarkAll(ls) ==
  /\ dirty' = dirty \cup ls
  /\ dropped' = dropped \ ls
  /\ late' = [u \in Threads |-> IF task[u] \in {"bind", "upload"}
                               THEN late[u] \cup ls ELSE late[u]]

(* upload_level gives up on its level: flush_dirty ignores the result.     *)
GiveUp(t) == IF task[t] = "upload" THEN [owed EXCEPT ![t] = @ \ {level[t]}] ELSE owed

-----------------------------------------------------------------------------
(* Creation: ResettableTexture::create, called by the CreateTexture hook   *)
(* with the texture it has just created. A failed file mapping deletes the *)
(* wrapper again before anybody has seen it and changes nothing here.      *)

Construct(t) ==
  /\ life = "unborn"
  /\ Start(t, "create", "enroll")
  /\ life' = "live" /\ refs' = 1 /\ held' = {t}
  /\ \E i \in Inners :
       /\ innerRefs[i] = 0
       /\ innerRefs' = [innerRefs EXCEPT ![i] = 2]
       /\ fresh' = [fresh EXCEPT ![i] = {}]
       /\ inner' = i
       /\ mine' = [mine EXCEPT ![t] = i]
  /\ UNCHANGED <<pinned, registryVars, bound, levelVars, flushVars>>

Enroll(t) ==
  /\ Goto(t, "enroll", "handOver")
  /\ registered' = TRUE
  /\ byInner' = byInner \cup {mine[t]}
  /\ UNCHANGED <<lifeVars, driverVars, levelVars, mine, flushVars>>

(* The hook drops the creation reference and returns the wrapper.          *)
HandOver(t) ==
  /\ Goto(t, "handOver", "idle")
  /\ innerRefs' = Released(mine[t])
  /\ mine' = [mine EXCEPT ![t] = NoInner]
  /\ UNCHANGED <<lifeVars, registryVars, inner, bound, fresh, levelVars, flushVars>>

-----------------------------------------------------------------------------
(* ensure_inner: looks under inner_mutex_, creates outside it, looks again *)

Check(t) ==
  /\ Goto(t, "check", IF inner = NoInner THEN "make" ELSE AfterEnsure(task[t]))
  /\ UNCHANGED <<lifeVars, registryVars, driverVars, levelVars, mine, flushVars>>

(* The driver refuses: the device is lost, or the address space is full.   *)
MakeFails(t) ==
  /\ Goto(t, "make", AfterNoInner(task[t]))
  /\ owed' = GiveUp(t)
  /\ UNCHANGED <<lifeVars, registryVars, driverVars, levelVars, mine, level, current, late>>

Make(t) ==
  /\ Goto(t, "make", "publish")
  /\ \E i \in Inners :
       /\ innerRefs[i] = 0
       /\ innerRefs' = [innerRefs EXCEPT ![i] = 1]
       /\ fresh' = [fresh EXCEPT ![i] = {}]
       /\ mine' = [mine EXCEPT ![t] = i]
  /\ UNCHANGED <<lifeVars, registryVars, inner, bound, levelVars, flushVars>>

(* Another thread published first: ours is surplus.                        *)
SurplusLeaks(t) ==                                                 (* fault *)
  /\ inner /= NoInner
  /\ Goto(t, "publish", AfterEnsure(task[t]))
  /\ mine' = [mine EXCEPT ![t] = NoInner]
  /\ UNCHANGED <<lifeVars, registryVars, driverVars, levelVars, flushVars>>

PublishLoses(t) ==
  /\ inner /= NoInner
  /\ Goto(t, "publish", AfterEnsure(task[t]))
  /\ innerRefs' = Released(mine[t])
  /\ mine' = [mine EXCEPT ![t] = NoInner]
  /\ UNCHANGED <<lifeVars, registryVars, inner, bound, fresh, levelVars, flushVars>>

Publish(t) ==
  /\ inner = NoInner
  /\ Goto(t, "publish", "register")
  /\ inner' = mine[t]
  /\ UNCHANGED <<lifeVars, registryVars, innerRefs, bound, fresh, levelVars, mine, flushVars>>

NotRegistered(t) ==                                                (* fault *)
  /\ Goto(t, "register", "owe")
  /\ UNCHANGED <<lifeVars, registryVars, driverVars, levelVars, mine, flushVars>>

Register(t) ==
  /\ Goto(t, "register", "owe")
  /\ byInner' = byInner \cup {mine[t]}
  /\ UNCHANGED <<lifeVars, registered, driverVars, levelVars, mine, flushVars>>

NothingOwed(t) ==                                                  (* fault *)
  /\ Goto(t, "owe", AfterEnsure(task[t]))
  /\ mine' = [mine EXCEPT ![t] = NoInner]
  /\ UNCHANGED <<lifeVars, registryVars, driverVars, levelVars, flushVars>>

(* SetPriority and SetAutoGenFilterType on the created texture, then       *)
(* dirty_.mark_all(valid_.mask()).                                         *)
Owe(t) ==
  /\ Goto(t, "owe", AfterEnsure(task[t]))
  /\ MarkAll(valid)
  /\ mine' = [mine EXCEPT ![t] = NoInner]
  /\ UNCHANGED <<lifeVars, registryVars, driverVars, valid, view, owed, level, current>>

-----------------------------------------------------------------------------
(* flush_dirty and upload_level                                            *)

Take(t) ==
  /\ Goto(t, "take", IF dirty = {} THEN "grab" ELSE "map")
  /\ owed' = [owed EXCEPT ![t] = dirty]
  /\ dirty' = {}
  /\ late' = [late EXCEPT ![t] = {}]
  /\ UNCHANGED <<lifeVars, registryVars, driverVars, valid, dropped, view, mine, level, current>>

MapFails(t) ==
  /\ Goto(t, "map", "grab")
  /\ MarkAll(owed[t])
  /\ owed' = [owed EXCEPT ![t] = {}]
  /\ UNCHANGED <<lifeVars, registryVars, driverVars, valid, view, mine, level, current>>

MapSection(t) ==
  /\ Goto(t, "map", "next")
  /\ UNCHANGED <<lifeVars, registryVars, driverVars, levelVars, mine, flushVars>>

(* The loop over the levels owed, in ascending order.                      *)
NextLevel(t) ==
  /\ \E l \in owed[t] :
       /\ \A m \in owed[t] : l <= m
       /\ level' = [level EXCEPT ![t] = l]
  /\ pc[t] = "next" /\ MoveTo(t, "check", "upload")
  /\ UNCHANGED <<lifeVars, registryVars, driverVars, levelVars, mine, owed, current, late>>

NoMoreLevels(t) ==
  /\ owed[t] = {}
  /\ pc[t] = "next" /\ MoveTo(t, "grab", "bind")
  /\ level' = [level EXCEPT ![t] = 0]
  /\ UNCHANGED <<lifeVars, registryVars, driverVars, levelVars, mine, owed, current, late>>

(* The end of acquire_inner and of acquire_inner_for_binding: a reference  *)
(* on whatever inner_ is now.                                              *)
Grab(t) ==
  /\ inner /= NoInner
  /\ Goto(t, "grab", CASE task[t] = "upload" -> "copy"
                       [] task[t] = "touch"  -> "letGo"
                       [] OTHER              -> "unpin")
  /\ mine' = [mine EXCEPT ![t] = inner]
  /\ innerRefs' = [innerRefs EXCEPT ![inner] = @ + 1]
  /\ UNCHANGED <<lifeVars, registryVars, inner, bound, fresh, levelVars, flushVars>>

GrabNothing(t) ==
  /\ inner = NoInner
  /\ Goto(t, "grab", AfterNoInner(task[t]))
  /\ owed' = GiveUp(t)
  /\ UNCHANGED <<lifeVars, registryVars, driverVars, levelVars, mine, level, current, late>>

(* A staging texture is found or created and the level copied into it.     *)
Copy(t) ==
  /\ Goto(t, "copy", "put")
  /\ current' = [current EXCEPT ![t] = TRUE]
  /\ UNCHANGED <<lifeVars, registryVars, driverVars, levelVars, mine, owed, level, late>>

(* UpdateSurface from the staging texture.                                 *)
Put(t) ==
  /\ Goto(t, "put", "letGo")
  /\ fresh' = [fresh EXCEPT ![mine[t]] = IF current[t] THEN @ \cup {level[t]}
                                                       ELSE @ \ {level[t]}]
  /\ owed' = GiveUp(t)
  /\ current' = [current EXCEPT ![t] = FALSE]
  /\ UNCHANGED <<lifeVars, registryVars, inner, innerRefs, bound, levelVars, mine, level, late>>

(* No staging texture, or a driver call on the way failed. The result is   *)
(* returned, and ignored by flush_dirty.                                   *)
UploadFails(t) ==
  /\ pc[t] \in {"copy", "put"}
  /\ MoveTo(t, "letGo", task[t])
  /\ current' = [current EXCEPT ![t] = FALSE]
  /\ owed' = GiveUp(t)
  /\ dropped' = IF mine[t] = inner /\ level[t] \notin fresh[inner]
                THEN dropped \cup {level[t]} ELSE dropped
  /\ UNCHANGED <<lifeVars, registryVars, driverVars, valid, dirty, view, mine, level, late>>

LetGo(t) ==
  /\ Goto(t, "letGo", AfterNoInner(task[t]))
  /\ innerRefs' = Released(mine[t])
  /\ mine' = [mine EXCEPT ![t] = NoInner]
  /\ UNCHANGED <<lifeVars, registryVars, inner, bound, fresh, levelVars, flushVars>>

-----------------------------------------------------------------------------
(* SetTexture, GetTexture and the methods that only forward to inner_.     *)
(* The game names a wrapper only while it owns a reference to it.          *)

Bind(t) ==
  /\ t \in Binders \cap held
  /\ CanPin
  /\ Start(t, "bind", "check")
  /\ Pin(t)
  /\ UNCHANGED <<registryVars, driverVars, levelVars, mine, flushVars>>

Unpin(t) ==
  /\ pc[t] = "unpin"
  /\ DropReference(t, AfterUnpin(task[t]))
  /\ pinned' = pinned \ {t}
  /\ UNCHANGED <<held, registryVars, driverVars, levelVars, mine, flushVars>>

(* The device takes a reference of its own and drops the one on what was   *)
(* bound; the hook then drops its own, so only the old count changes.      *)
SetTexture(t) ==
  /\ Goto(t, "set", "idle")
  /\ innerRefs' = Released(bound)
  /\ bound' = mine[t]
  /\ mine' = [mine EXCEPT ![t] = NoInner]
  /\ late' = [late EXCEPT ![t] = {}]
  /\ UNCHANGED <<lifeVars, registryVars, inner, fresh, levelVars, owed, level, current>>

(* SetTexture with nullptr or with some other texture.                     *)
BindOther(t) ==
  /\ t \in Binders /\ pc[t] = "idle" /\ bound /= NoInner
  /\ innerRefs' = Released(bound)
  /\ bound' = NoInner
  /\ UNCHANGED <<lifeVars, registryVars, inner, fresh, levelVars, pc, task, mine, flushVars>>

(* The device's own GetTexture: the raw texture, with a reference.         *)
GetRaw(t) ==
  /\ bound /= NoInner
  /\ Start(t, "get", "rewrap")
  /\ innerRefs' = [innerRefs EXCEPT ![bound] = @ + 1]
  /\ mine' = [mine EXCEPT ![t] = bound]
  /\ UNCHANGED <<lifeVars, registryVars, inner, bound, fresh, levelVars, flushVars>>

GetTexture(t) == t \in Binders \cap held /\ GetRaw(t)

(* rewrap_resettable_texture: a plain AddRef on the wrapper it finds.      *)
Rewrap(t) ==
  /\ mine[t] \in byInner
  /\ Goto(t, "rewrap", "swap")
  /\ Pin(t)
  /\ UNCHANGED <<registryVars, driverVars, levelVars, mine, flushVars>>

(* Not one of ours any more: the game gets, and later drops, the raw one.  *)
RewrapMisses(t) ==
  /\ mine[t] \notin byInner
  /\ Goto(t, "rewrap", "idle")
  /\ innerRefs' = Released(mine[t])
  /\ mine' = [mine EXCEPT ![t] = NoInner]
  /\ UNCHANGED <<lifeVars, registryVars, inner, bound, fresh, levelVars, flushVars>>

Swap(t) ==
  /\ Goto(t, "swap", "unpin")
  /\ innerRefs' = Released(mine[t])
  /\ mine' = [mine EXCEPT ![t] = NoInner]
  /\ UNCHANGED <<lifeVars, registryVars, inner, bound, fresh, levelVars, flushVars>>

(* PreLoad, SetPriority, private data, the surfaces' driver calls:         *)
(* acquire_inner, one driver call, Release.                                *)
Touch(t) ==
  /\ t \in held
  /\ Start(t, "touch", "check")
  /\ UNCHANGED <<lifeVars, registryVars, driverVars, levelVars, mine, flushVars>>

-----------------------------------------------------------------------------
(* References: AddRef, QueryInterface, a surface's reference on its        *)
(* texture; Release, and the destructor that the last one runs.            *)

AddRef(t, u) ==
  /\ pc[t] = "idle" /\ t \in held /\ u \notin held
  /\ refs' = refs + 1
  /\ held' = held \cup {u}
  /\ UNCHANGED <<life, pinned, registryVars, driverVars, levelVars, pc, task, mine, flushVars>>

Release(t) ==
  /\ pc[t] = "idle" /\ t \in held
  /\ held' = held \ {t}
  /\ DropReference(t, "idle")
  /\ UNCHANGED <<pinned, registryVars, driverVars, levelVars, mine, flushVars>>

Unregister(t) ==
  /\ Goto(t, "unregister", "demolish")
  /\ registered' = FALSE
  /\ byInner' = byInner \ {inner}
  /\ UNCHANGED <<lifeVars, driverVars, levelVars, mine, flushVars>>

(* The rest of the destructor and the return of the wrapper's memory.      *)
Demolish(t) ==
  /\ Goto(t, "demolish", AfterUnpin(task[t]))
  /\ view' = [l \in Levels |-> "none"]
  /\ innerRefs' = Released(inner)
  /\ inner' = NoInner
  /\ life' = "freed"
  /\ UNCHANGED <<refs, held, pinned, registryVars, bound, fresh, valid, dirty, dropped, mine, flushVars>>

-----------------------------------------------------------------------------
(* LockRect and UnlockRect                                                 *)

(* A level that is locked already, or a section that cannot be mapped, is  *)
(* an error and changes nothing.                                           *)
LockRect(t, l, mode) ==
  /\ pc[t] = "idle" /\ t \in held /\ view[l] = "none"
  /\ view' = [view EXCEPT ![l] = mode]
  /\ UNCHANGED <<lifeVars, registryVars, driverVars, valid, dirty, dropped, pc, task, mine, flushVars>>

UnlockReadOnly(t, l) ==
  /\ pc[t] = "idle" /\ t \in held /\ view[l] = "read"
  /\ view' = [view EXCEPT ![l] = "none"]
  /\ UNCHANGED <<lifeVars, registryVars, driverVars, valid, dirty, dropped, pc, task, mine, flushVars>>

(* From here the section holds the new content of l, so every copy of it   *)
(* on the GPU, and one on its way there, is stale.                         *)
UnlockRect(t, l) ==
  /\ t \in held /\ view[l] = "write"
  /\ Start(t, "unlock", "markValid")
  /\ view' = [view EXCEPT ![l] = "none"]
  /\ fresh' = [i \in Inners |-> fresh[i] \ {l}]
  /\ current' = [u \in Threads |-> current[u] /\ level[u] /= l]
  /\ level' = [level EXCEPT ![t] = l]
  /\ UNCHANGED <<lifeVars, registryVars, inner, innerRefs, bound, valid, dirty, dropped, mine, owed, late>>

MarkValid(t) ==
  /\ Goto(t, "markValid", "markDirty")
  /\ valid' = valid \cup {level[t]}
  /\ UNCHANGED <<lifeVars, registryVars, driverVars, dirty, dropped, view, mine, flushVars>>

MarkDirty(t) ==
  /\ Goto(t, "markDirty", "idle")
  /\ MarkAll({level[t]})
  /\ level' = [level EXCEPT ![t] = 0]
  /\ UNCHANGED <<lifeVars, registryVars, driverVars, valid, view, mine, owed, current>>

-----------------------------------------------------------------------------
(* The Reset hook: unbind every stage, release every wrapper's inner,      *)
(* reset the device, and restore only if that succeeded.                   *)

BeginReset(t) ==
  /\ t \in Resetters
  /\ Start(t, "reset", "snapshot")
  /\ innerRefs' = Released(bound)
  /\ bound' = NoInner
  /\ UNCHANGED <<lifeVars, registryVars, inner, fresh, levelVars, mine, flushVars>>

(* snapshot_textures, before and after the device's own Reset.             *)
Snapshot(t) ==
  /\ CanPin
  /\ Goto(t, "snapshot", IF task[t] = "reset" THEN "detach" ELSE "check")
  /\ Pin(t)
  /\ UNCHANGED <<registryVars, driverVars, levelVars, mine, flushVars>>

SnapshotSkips(t) ==
  /\ ~CanPin
  /\ Goto(t, "snapshot", AfterUnpin(task[t]))
  /\ UNCHANGED <<lifeVars, registryVars, driverVars, levelVars, mine, flushVars>>

(* release_inner                                                           *)
Detach(t) ==
  /\ Goto(t, "detach", IF inner = NoInner THEN "unpin" ELSE "erase")
  /\ mine' = [mine EXCEPT ![t] = inner]
  /\ inner' = NoInner
  /\ UNCHANGED <<lifeVars, registryVars, innerRefs, bound, fresh, levelVars, flushVars>>

Erase(t) ==
  /\ Goto(t, "erase", "freeInner")
  /\ byInner' = byInner \ {mine[t]}
  /\ UNCHANGED <<lifeVars, registered, driverVars, levelVars, mine, flushVars>>

FreeInner(t) ==
  /\ Goto(t, "freeInner", "unpin")
  /\ innerRefs' = Released(mine[t])
  /\ mine' = [mine EXCEPT ![t] = NoInner]
  /\ UNCHANGED <<lifeVars, registryVars, inner, bound, fresh, levelVars, flushVars>>

(* Direct3D 9 refuses to reset a device while a DEFAULT texture exists.    *)
DeviceReset(t) ==
  /\ \A i \in Inners : innerRefs[i] = 0
  /\ pc[t] = "deviceReset" /\ MoveTo(t, "snapshot", "restore")
  /\ UNCHANGED <<lifeVars, registryVars, driverVars, levelVars, mine, flushVars>>

DeviceResetFails(t) ==
  /\ Goto(t, "deviceReset", "idle")
  /\ UNCHANGED <<lifeVars, registryVars, driverVars, levelVars, mine, flushVars>>

-----------------------------------------------------------------------------
EnsureInner(t) == Check(t) \/ MakeFails(t) \/ Make(t) \/ PublishLoses(t)
                    \/ Publish(t) \/ Register(t) \/ Owe(t)
Flush(t) == Take(t) \/ MapFails(t) \/ MapSection(t) \/ NextLevel(t) \/ NoMoreLevels(t)
              \/ Grab(t) \/ GrabNothing(t) \/ Copy(t) \/ Put(t) \/ UploadFails(t) \/ LetGo(t)
Reset(t) == BeginReset(t) \/ Snapshot(t) \/ SnapshotSkips(t) \/ Detach(t) \/ Erase(t)
              \/ FreeInner(t) \/ DeviceReset(t) \/ DeviceResetFails(t)
Stage(t) == Bind(t) \/ Unpin(t) \/ SetTexture(t) \/ BindOther(t) \/ GetTexture(t)
              \/ Rewrap(t) \/ RewrapMisses(t) \/ Swap(t) \/ Touch(t)
Lock(t) == \/ \E l \in Levels : \/ \E mode \in {"read", "write"} : LockRect(t, l, mode)
                                \/ UnlockReadOnly(t, l)
                                \/ UnlockRect(t, l)
           \/ MarkValid(t) \/ MarkDirty(t)
Lives(t) == Construct(t) \/ Enroll(t) \/ HandOver(t) \/ Release(t)
              \/ Unregister(t) \/ Demolish(t) \/ \E u \in Threads : AddRef(t, u)

Next == \E t \in Threads :
          EnsureInner(t) \/ Flush(t) \/ Stage(t) \/ Lock(t) \/ Lives(t) \/ Reset(t)

Spec == Init /\ [][Next]_vars

-----------------------------------------------------------------------------
(* Properties                                                              *)

TypeOK ==
  /\ life \in {"unborn", "live", "dying", "freed"}
  /\ refs \in Nat
  /\ held \subseteq Threads /\ pinned \subseteq Threads
  /\ registered \in BOOLEAN
  /\ byInner \subseteq Inners
  /\ inner \in InnerOrNone /\ bound \in InnerOrNone
  /\ innerRefs \in [Inners -> Nat]
  /\ fresh \in [Inners -> SUBSET Levels]
  /\ valid \subseteq Levels /\ dirty \subseteq Levels /\ dropped \subseteq Levels
  /\ view \in [Levels -> {"none", "read", "write"}]
  /\ pc \in [Threads -> Steps]
  /\ task \in [Threads -> Tasks]
  /\ mine \in [Threads -> InnerOrNone]
  /\ owed \in [Threads -> SUBSET Levels]
  /\ level \in [Threads -> Nat]
  /\ current \in [Threads -> BOOLEAN]
  /\ late \in [Threads -> SUBSET Levels]

(* The wrapper's life is that of one reference-counted object: the         *)
(* registry walks of a reset, the pin of a bind and GetTexture only ever   *)
(* add to a count that is not zero, and the count that reaches zero leads  *)
(* to exactly one destruction (ref_count.h, snapshot_textures,             *)
(* acquire_bound_texture, rewrap_resettable_texture).                      *)
Lifetime == INSTANCE ObjectLifetime WITH count <- refs, phase <- life
NeverResurrected == Lifetime!Spec

(* A thread that executes a method of the wrapper, or the walk of a reset  *)
(* that took it from the registry, finds it alive; only the one thread     *)
(* that runs the destructor is inside it after that (Release, Demolish).   *)
OutsideSteps == {"idle", "handOver", "rewrap", "set", "snapshot", "deviceReset"}
DestroySteps == {"unregister", "demolish"}
WrapperAlive ==
  \A t \in Threads :
    /\ pc[t] \notin OutsideSteps \cup DestroySteps => life = "live"
    /\ pc[t] \in DestroySteps =>
         life = "dying" /\ \A u \in Threads \ {t} : pc[u] \in OutsideSteps

(* Every reference on an inner texture has one owner: inner_, the device,  *)
(* or a thread between taking and releasing it. A missing Release leaks    *)
(* address space for good and a second one frees a texture in use          *)
(* (ensure_inner's surplus texture, release_inner, the destructor, the     *)
(* hooks' releases).                                                       *)
Ones(b) == IF b THEN 1 ELSE 0
Carriers(i) == {t \in Threads : mine[t] = i /\ pc[t] \notin {"register", "owe"}}
InnerAccounted ==
  \A i \in Inners :
    innerRefs[i] = Ones(inner = i) + Ones(bound = i) + Cardinality(Carriers(i))

(* A level that was written is current on the GPU, or somebody still owes  *)
(* it: dirty_, a flush under way, the thread that has just installed a new *)
(* inner texture, or the UnlockRect that wrote it. The exception is a      *)
(* level whose upload failed (dropped).                                    *)
Restoring(t, i) == pc[t] \in {"register", "owe"} /\ mine[t] = i
Unlocking(t, l) == pc[t] \in {"markValid", "markDirty"} /\ level[t] = l
OwedSomewhere(l) ==
  \/ l \in dirty
  \/ \E t \in Threads : l \in owed[t] \/ Restoring(t, inner) \/ Unlocking(t, l)
DebtKeptExcept(forgiven) ==
  inner /= NoInner =>
    \A l \in valid \ forgiven : l \in fresh[inner] \/ OwedSomewhere(l)
DebtKept == DebtKeptExcept(dropped)

(* flush_dirty's "so the debt is still owed", for every way an upload can  *)
(* fail: no level is ever forgotten.                                       *)
DebtNeverForgotten == DebtKeptExcept({})

(* What a bind hands to the device was current when it was flushed: a      *)
(* written level it does not show was written or became owed only after    *)
(* the flush had taken its debt, failed to upload, or belongs to a texture *)
(* that another thread installed and has not declared owed yet             *)
(* (acquire_inner_for_binding).                                            *)
BindsWhatWasWritten ==
  \A t \in Threads : pc[t] = "set" /\ mine[t] /= NoInner =>
    \A l \in valid :
      \/ l \in fresh[mine[t]] \cup late[t] \cup dropped
      \/ \E u \in Threads : Unlocking(u, l) \/ Restoring(u, mine[t])

(* GetTexture can lead a bound inner texture back to its wrapper: the      *)
(* published inner is a key of textures_by_inner, or is about to be one    *)
(* (ensure_inner, release_inner, ~ResettableTexture).                      *)
InnerIsMapped ==
  registered /\ inner /= NoInner =>
    inner \in byInner \/ \E t \in Threads : pc[t] = "register" /\ mine[t] = inner

(* The other direction: a key is the published inner, or somebody is about *)
(* to erase it, so that none outlives its wrapper (release_inner,          *)
(* ~ResettableTexture).                                                    *)
KeysAreInner ==
  \A i \in byInner : i = inner \/ \E t \in Threads : pc[t] = "erase" /\ mine[t] = i

-----------------------------------------------------------------------------
(* GetTexture asks for whatever the device has bound, and the game need    *)
(* not own a reference on its wrapper: another thread may be releasing the *)
(* last one.                                                               *)
GetTextureUnowned(t) == t \in Binders /\ GetRaw(t)
NextUnowned == Next \/ \E t \in Threads : GetTextureUnowned(t)
SpecUnowned == Init /\ [][NextUnowned]_vars
=============================================================================
