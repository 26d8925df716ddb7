--------------------------- MODULE StagingUpload ---------------------------
(***************************************************************************)
(* How the levels of a relocated texture reach the GPU                     *)
(* (src/resettable_texture.cpp): the game writes a level through LockRect, *)
(* and threads that bind the texture each take the debt and copy level by  *)
(* level, through a staging texture that comes from a bounded pool         *)
(* (texture/staging_pool.h) and goes back to it, while a rescue may empty  *)
(* the pool at any time.                                                   *)
(*                                                                         *)
(* ResettableTexture has the wrapper's life and the device's reset, with   *)
(* one thread that binds; here there are several, and the content of a     *)
(* level is the number of the write that made it. Mixed is what a level    *)
(* holds while it is being written.                                        *)
(***************************************************************************)
EXTENDS TextureLayout, FiniteSets, FiniteSetsExt, Tally

CONSTANTS
  Uploaders,    (* threads that bind the texture                           *)
  Handles,      (* addresses at which the driver places staging textures   *)
  NoHandle,     (* nullptr                                                 *)
  Shapes,       (* textures: width, height, levels and block               *)
  Budget,       (* the pool's limit in bytes ...                           *)
  MaxEntries,   (* ... and in entries                                      *)
  MaxWrites     (* bound: locks for writing                                *)

ASSUME UploadAssumption ==
  /\ {Budget, MaxEntries, MaxWrites} \subseteq Nat /\ NoHandle \notin Handles
  /\ IsFiniteSet(Uploaders) /\ IsFiniteSet(Handles)
  /\ Shapes \subseteq [width : Nat, height : Nat, levels : Nat \ {0}, block : {8, 16}]

VARIABLES
  shape,     (* the texture                                                *)
  writes,    (* locks for writing so far                                   *)
  view,      (* locks_: how a level is locked                              *)
  marking,   (* levels unlocked and not yet marked in dirty_               *)
  section,   (* the content of a level in the section                      *)
  gpu,       (* and in the texture behind the wrapper                      *)
  dirty,     (* dirty_                                                     *)
  up,        (* what a thread is doing in flush_dirty                      *)
  alive,     (* staging textures that exist                                *)
  made,      (* the extents one was made for                               *)
  content,   (* and what it holds                                          *)
  entries,   (* the pool's entries                                         *)
  held,      (* held_bytes_                                                *)
  drained,   (* taken out by a rescue and not yet released                 *)
  failed,    (* history: levels whose upload failed, not owed since        *)
  overtaken  (* history: levels whose last upload was passed, on its way   *)
             (* from the copy to the GPU, by another thread's              *)

writeVars   == <<shape, writes, view, marking, section>>
stagingVars == <<alive, made, content>>
poolVars    == <<entries, held>>
uploadVars == <<writeVars, gpu, dirty, up, stagingVars, poolVars, drained, failed, overtaken>>

Mixed  == MaxWrites + 1
Levels == 0..(shape.levels - 1)
MipOf(l)  == MipLevels(shape)[l]
Extent(l) == [width |-> MipOf(l).width, height |-> MipOf(l).height]
NoExtent  == [width |-> 0, height |-> 0]
Idle == [step |-> "idle", owed |-> {}, level |-> 0, staging |-> NoHandle, passed |-> FALSE]

UploadInit ==
  /\ shape \in Shapes
  /\ writes = 0 /\ view = [l \in Levels |-> "none"] /\ marking = {}
  /\ section = [l \in Levels |-> 0] /\ gpu = [l \in Levels |-> 0]
  /\ dirty = {}
  /\ up = [t \in Uploaders |-> Idle]
  /\ alive = {} /\ made = [h \in Handles |-> NoExtent] /\ content = [h \in Handles |-> 0]
  /\ entries = {} /\ held = 0 /\ drained = {}
  /\ failed = {} /\ overtaken = {}

(* At the next point, with the debt and the level it has.                  *)
Step(t, from, to) == up[t].step = from /\ up' = [up EXCEPT ![t].step = to]

-----------------------------------------------------------------------------
(* The game                                                                *)

LockRect(l, how) ==
  /\ view[l] = "none"
  /\ how = "write" => writes < MaxWrites /\ section[l] /= Mixed
  /\ view' = [view EXCEPT ![l] = how]
  /\ writes'  = IF how = "write" THEN writes + 1 ELSE writes
  /\ section' = IF how = "write" THEN [section EXCEPT ![l] = Mixed] ELSE section
  /\ UNCHANGED <<shape, marking, gpu, dirty, up, stagingVars, poolVars, drained, failed, overtaken>>

(* The lock is given up before the level is marked.                        *)
UnlockRect(l) ==
  /\ view[l] /= "none" /\ l \notin marking
  /\ view' = [view EXCEPT ![l] = "none"]
  /\ IF view[l] = "write"
     THEN /\ section' = [section EXCEPT ![l] = writes]
          /\ marking' = marking \cup {l}
     ELSE UNCHANGED <<section, marking>>
  /\ UNCHANGED <<shape, writes, gpu, dirty, up, stagingVars, poolVars, drained, failed, overtaken>>

MarkDirty(l) ==
  /\ l \in marking
  /\ marking' = marking \ {l}
  /\ dirty' = dirty \cup {l} /\ failed' = failed \ {l}
  /\ UNCHANGED <<shape, writes, view, section, gpu, up, stagingVars, poolVars, drained, overtaken>>

-----------------------------------------------------------------------------
(* flush_dirty                                                             *)

Take(t) ==
  /\ up[t].step = "idle" /\ dirty /= {}
  /\ up' = [up EXCEPT ![t].step = "map", ![t].owed = dirty]
  /\ dirty' = {}
  /\ UNCHANGED <<writeVars, gpu, stagingVars, poolVars, drained, failed, overtaken>>

(* Fault: the debt is not put back.                                        *)
MapForgets(t) ==
  /\ up[t].step = "map" /\ up' = [up EXCEPT ![t] = Idle]
  /\ UNCHANGED <<writeVars, gpu, dirty, stagingVars, poolVars, drained, failed, overtaken>>

MapFails(t) ==
  /\ up[t].step = "map" /\ up' = [up EXCEPT ![t] = Idle]
  /\ dirty' = dirty \cup up[t].owed
  /\ UNCHANGED <<writeVars, gpu, stagingVars, poolVars, drained, failed, overtaken>>

MapSection(t) ==
  /\ Step(t, "map", "next")
  /\ UNCHANGED <<writeVars, gpu, dirty, stagingVars, poolVars, drained, failed, overtaken>>

NextLevel(t) ==
  /\ up[t].step = "next" /\ up[t].owed /= {}
  /\ LET l == Min(up[t].owed) IN
       up' = [up EXCEPT ![t].step = "acquire", ![t].level = l, ![t].owed = @ \ {l}]
  /\ UNCHANGED <<writeVars, gpu, dirty, stagingVars, poolVars, drained, failed, overtaken>>

Done(t) ==
  /\ up[t].step = "next" /\ up[t].owed = {}
  /\ up' = [up EXCEPT ![t] = Idle]
  /\ UNCHANGED <<writeVars, gpu, dirty, stagingVars, poolVars, drained, failed, overtaken>>

-----------------------------------------------------------------------------
(* upload_level                                                            *)

Fits(e, t) == e.extent = Extent(up[t].level)

(* Fault: the entry is used and stays in the pool.                         *)
ReuseKeeps(t, e) ==
  /\ up[t].step = "acquire" /\ e \in entries /\ Fits(e, t)
  /\ up' = [up EXCEPT ![t].step = "copy", ![t].staging = e.handle]
  /\ UNCHANGED <<writeVars, gpu, dirty, stagingVars, poolVars, drained, failed, overtaken>>

(* BasicStagingPool::acquire, under the pool's mutex.                      *)
Reuse(t, e) ==
  /\ up[t].step = "acquire" /\ e \in entries /\ Fits(e, t)
  /\ up' = [up EXCEPT ![t].step = "copy", ![t].staging = e.handle]
  /\ entries' = entries \ {e} /\ held' = held - e.bytes
  /\ UNCHANGED <<writeVars, gpu, dirty, stagingVars, drained, failed, overtaken>>

NoneFits(t) ==
  /\ Step(t, "acquire", "create") /\ \A e \in entries : ~Fits(e, t)
  /\ UNCHANGED <<writeVars, gpu, dirty, stagingVars, poolVars, drained, failed, overtaken>>

(* Outside the mutex.                                                      *)
Create(t, h) ==
  /\ up[t].step = "create" /\ h \notin alive
  /\ up' = [up EXCEPT ![t].step = "copy", ![t].staging = h]
  /\ alive' = alive \cup {h} /\ made' = [made EXCEPT ![h] = Extent(up[t].level)]
  /\ UNCHANGED <<writeVars, gpu, dirty, content, poolVars, drained, failed, overtaken>>

(* No inner texture, or no staging texture: the level is lost.             *)
GivesUp(t) ==
  /\ up[t].step \in {"acquire", "create"} /\ Step(t, up[t].step, "next")
  /\ failed' = failed \cup {up[t].level}
  /\ UNCHANGED <<writeVars, gpu, dirty, stagingVars, poolVars, drained, overtaken>>

(* The driver refuses to lock the staging texture, or to copy from it.     *)
DriverFails(t) ==
  /\ up[t].step \in {"copy", "update"} /\ Step(t, up[t].step, "offer")
  /\ failed' = failed \cup {up[t].level}
  /\ UNCHANGED <<writeVars, gpu, dirty, stagingVars, poolVars, drained, overtaken>>

Copy(t) ==
  /\ up[t].step = "copy"
  /\ up' = [up EXCEPT ![t].step = "update", ![t].passed = FALSE]
  /\ content' = [content EXCEPT ![up[t].staging] = section[up[t].level]]
  /\ UNCHANGED <<writeVars, gpu, dirty, alive, made, poolVars, drained, failed, overtaken>>

(* UpdateSurface. Whoever copied before, and has not come here, is passed. *)
Update(t) ==
  /\ up[t].step = "update"
  /\ LET l == up[t].level IN
       /\ gpu' = [gpu EXCEPT ![l] = content[up[t].staging]]
       /\ overtaken' = IF up[t].passed THEN overtaken \cup {l} ELSE overtaken \ {l}
       /\ up' = [u \in Uploaders |->
            IF u = t THEN [up[t] EXCEPT !.step = "offer"]
            ELSE [up[u] EXCEPT !.passed = @ \/ (up[u].step = "update" /\ up[u].level = l)]]
  /\ UNCHANGED <<writeVars, dirty, stagingVars, poolVars, drained, failed>>

Entry(t) == [extent |-> Extent(up[t].level), bytes |-> LevelBytes(MipOf(up[t].level)),
             handle |-> up[t].staging]

Accepts(e) == Cardinality(entries) < MaxEntries /\ held + e.bytes <= Budget

(* BasicStagingPool::offer.                                                *)
Offer(t) ==
  /\ up[t].step = "offer" /\ Accepts(Entry(t))
  /\ entries' = entries \cup {Entry(t)} /\ held' = held + Entry(t).bytes
  /\ up' = [up EXCEPT ![t].step = "next", ![t].staging = NoHandle]
  /\ UNCHANGED <<writeVars, gpu, dirty, stagingVars, drained, failed, overtaken>>

OfferRefused(t) ==
  /\ ~Accepts(Entry(t)) /\ Step(t, "offer", "release")
  /\ UNCHANGED <<writeVars, gpu, dirty, stagingVars, poolVars, drained, failed, overtaken>>

ReleaseStaging(t) ==
  /\ up[t].step = "release"
  /\ up' = [up EXCEPT ![t].step = "next", ![t].staging = NoHandle]
  /\ alive' = alive \ {up[t].staging}
  /\ UNCHANGED <<writeVars, gpu, dirty, made, content, poolVars, drained, failed, overtaken>>

-----------------------------------------------------------------------------
(* flush_staging_pool, by a rescue: emptied under the mutex, released      *)
(* outside it.                                                             *)
Drain ==
  /\ entries /= {}
  /\ drained' = drained \cup {e.handle : e \in entries}
  /\ entries' = {} /\ held' = 0
  /\ UNCHANGED <<writeVars, gpu, dirty, up, stagingVars, failed, overtaken>>

ReleaseDrained(h) ==
  /\ h \in drained
  /\ drained' = drained \ {h} /\ alive' = alive \ {h}
  /\ UNCHANGED <<writeVars, gpu, dirty, up, made, content, poolVars, failed, overtaken>>

UploaderNext(t) ==
  \/ Take(t) \/ MapFails(t) \/ MapSection(t) \/ NextLevel(t) \/ Done(t)
  \/ (\E e \in entries : Reuse(t, e)) \/ NoneFits(t) \/ (\E h \in Handles : Create(t, h))
  \/ GivesUp(t) \/ DriverFails(t) \/ Copy(t) \/ Update(t)
  \/ Offer(t) \/ OfferRefused(t) \/ ReleaseStaging(t)

UploadNext ==
  \/ \E l \in Levels : (\E how \in {"read", "write"} : LockRect(l, how)) \/ UnlockRect(l) \/ MarkDirty(l)
  \/ \E t \in Uploaders : UploaderNext(t)
  \/ Drain \/ \E h \in Handles : ReleaseDrained(h)

UploadSpec == UploadInit /\ [][UploadNext]_uploadVars

-----------------------------------------------------------------------------
(* The staging texture that an uploader has.                               *)
Has(t, h) == up[t].staging = h

(* A staging texture that exists belongs to the pool, to one upload or to  *)
(* one rescue, and one that was released to nobody; so it is released      *)
(* once, two uploads never write into one, and a drained one is never      *)
(* handed out. Its extent is the one its owner takes it for. And whatever  *)
(* is offered, taken and drained at once, the pool's count of its bytes is *)
(* theirs, and within the limit that the count is there to keep.           *)
StagingOwnedOnce ==
  /\ \A h \in Handles :
       Cardinality({e \in entries : e.handle = h}) + Cardinality({t \in Uploaders : Has(t, h)})
         + Cardinality({h} \cap drained) = Cardinality({h} \cap alive)
  /\ \A e \in entries : made[e.handle] = e.extent
  /\ \A t \in Uploaders : up[t].staging /= NoHandle => made[up[t].staging] = Extent(up[t].level)
  /\ held = Total([e \in entries |-> e.bytes])
  /\ held <= Budget /\ Cardinality(entries) <= MaxEntries

Settled(l) ==
  /\ l \notin dirty \cup marking /\ view[l] /= "write"
  /\ \A t \in Uploaders : l \notin up[t].owed
  /\ \A t \in Uploaders : up[t].level = l => up[t].step \in {"idle", "next", "offer", "release"}

(* Once nobody owes a level or is on the way with it, the GPU shows what   *)
(* was written last, unless its upload failed, or the last upload was      *)
(* passed by another thread's between its copy and UpdateSurface.          *)
ShownUnlessOvertaken ==
  \A l \in Levels : Settled(l) => gpu[l] = section[l] \/ l \in failed \cup overtaken

SoundLayouts == {s \in Shapes : LayoutSound(s)}

(* Whatever texture this is, its section holds its levels side by side and *)
(* a lock leads into its own level only, and the ledger counts as much as  *)
(* the section takes.                                                      *)
SectionSound == shape \in SoundLayouts
=============================================================================
