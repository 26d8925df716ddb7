# Verification of lyrium

lyrium is a Direct3D 9 proxy DLL for a 32-bit game. It keeps the game inside its
address space: it moves large textures out of the MANAGED pool into DEFAULT
textures behind a wrapper of its own, evicts from the engine's texture cache when
an allocation is about to fail, and moves some of the engine's allocations to a
pool of its own. This directory holds TLA+ models of it, the TLC configurations
that check them on small instances, and TLAPS proofs of the most important
properties for all instances. `PROJECT.json` maps every definition to source lines
and lists runs, mutants, findings, hazards and theorems.

Run a check with `tlc -config texture.cfg MCResettableTexture.tla`, a proof with
`tlapm ResettableTexture_proofs.tla`.

## The system

| Part | Source | State | Operations | What makes it correct |
|---|---|---|---|---|
| Resettable texture | `src/resettable_texture.cpp`, `texture/dirty_levels.h`, `texture/level_validity.h` | a COM count, `inner_`, `valid_`, `dirty_`, `locks_`; the registries `registered_textures` and `textures_by_inner` | create, LockRect/UnlockRect, SetTexture, GetTexture, forwarded calls, Release, before/after Reset | nobody runs inside a dead wrapper; every reference on an inner texture is given back once; no written level is lost over a reset |
| COM reference count | `com/ref_count.h` | one atomic number | AddRef, try_add_ref, Release | a count that reached zero stays zero |
| Rescue policy | `policy/rescue_policy.h` | none (a pure function) | plan, escalate | each retry is stronger than the last; batches are capped |
| Rescue coordinator | `policy/rescue_coordinator.h`, `src/d3d9.cpp`, `src/engine_hooks.cpp` | pressure latch, ladder and hysteresis counters, three thread-local guards | consider, execute | no rescue inside a rescue, engine function or reset; a bounded number of cache clears; every create returns |
| Texture creation and ledger | `src/d3d9.cpp`, `texture/texture_ledger.h`, `texture/texture_placement.h` | records by address, totals, the Release hook | CreateTexture, CreateCubeTexture, CreateVolumeTexture, Release | the ledger counts what exists; no texture is lost; a relocated texture is wrapped |
| Staging pool | `texture/staging_pool.h`, `src/resettable_texture.cpp` | system-memory textures to reuse, bytes, limits | acquire, offer, take_all | a staging texture has one owner and is released once; the count of bytes is theirs and within the limit |
| Startup and pool budget | `src/d3d9.cpp` (DllMain, Direct3DCreate9), `dao/targets.h`, `dao/pool_budget.h`, `dao/pool_patch.h` | the patched immediate of the main pool, installed hooks | verify, patch, hook | what the main pool gives up comes back in a side pool |
| Side pool and pool routing | `src/engine_hooks.cpp`, `dao/side_pool.h`, `dao/pool_layout.h` | arena, manager slot, published atomics | create_side_pool, pool_alloc detour | a block is freed into the pool it came from |
| Inline hooks | `dao/inline_hook.h` | patched bytes, trampoline | install, remove | a thread that enters the detour finds a trampoline |
| COM and import hooks | `hooks/com_hook.h`, `hooks/iat_hook.h` | table of patched vtable slots | add_hook, original | patched once, the original stays reachable |
| Engine detours, allocation tracking | `src/engine_hooks.cpp`, `diag/alloc_context.h` | captured cache pointer, `in_hook`, the context, the table of live allocations and its sum | detours, emergency_evict, emergency_clear, malloc, free, realloc | never re-enters the engine; guard and context follow the call stack; table, sum and heap agree |
| Pool occupancy | `src/engine_hooks.cpp`, `dao/pool_occupancy.h`, `diag/size_histogram.h` | cached figures, a histogram | walk_pool, store_occupancy, refresh | what is shown of a pool is the whole of it |
| Log sink | `log.h` | queue, tail ring, counters, writer thread | start, push, drain, seal | an accepted line is written once, also when the process exits |
| Address-space sampler | `diag/sampler.h`, `diag/sample_schedule.h`, `diag/va_space.h`, `diag/va_region.h`, `diag/free_size_classes.h` | the last snapshot, a schedule, a thread | request, run, try_snapshot, sample_now | a reader never waits; a request is served; the figure a rescue starts from is that of a hole that existed |
| Free-list allocator | `allocators/free_list_allocator.h` | a page of blocks | allocate, deallocate, move, destroy | blocks tile the page; neighbours are merged; a refusal means that there is no room |
| Other allocators, containers | `allocators/`, `containers/` | none | | adapters over the system heaps |
| Allocation watch, attribution | `diag/alloc_watch.h`, `diag/alloc_attribution.h` | records, their count and its cap, totals | install, two detours, report | each allocation is accounted for once; a record has one writer; the report adds up |
| Size arithmetic, tallies | `texture/mip_layout.h`, `diag/texture_size.h`, `texture/block_rect.h`, `diag/size_tally.h`, ... | none | pure functions | levels lie side by side in the section and a lock stays in its level |
| Configuration, overlay, counters, entry points, utilities | `config*.h`, `src/overlay.cpp`, `stats.h`, `src/dinput8.cpp`, `sha256.h`, ... | | | no state another part depends on |

How they interact. The game calls the hooks of `d3d9.cpp` on any of its threads.
A CreateTexture asks the *placement* for a pool, the *coordinator* for a rescue
(before the create and after each failure), the driver for the texture, and
wraps a relocated one in a *resettable texture*; every texture then enters the
*ledger*. The coordinator reads the *sampler*'s largest free block, asks the
*policy* for a plan and executes it through the *engine detours*, which call the
engine's own eviction; the engine releases textures in it and may create others,
so every one of these calls can be entered from inside itself. Reset walks all
resettable textures before and after the device's own Reset. At start-up the main
pool is shrunk first, and only later the hooks and the *side pool* that replace
the space appear. Every part writes to the *log sink*; at process exit the
operating system has killed all threads but one, wherever they were.

What is hard here: several threads inside one COM object, re-entrancy through
engine code, driver calls that can fail at any point, addresses that are
reused at once, a device reset that needs the whole process to let go of its
textures, patches of running code, and threads killed in the middle of a
critical section. The 40 places where it bites are listed in `PROJECT.json`
under `hazards`, each with the properties that cover it.

## The modules

Composition: `ObjectLifetime` is the abstract specification that
`ResettableTexture` implements (INSTANCE in `ResettableTexture`, property
`NeverResurrected`). `RescuePolicy` is the pure part of `RescueCoordinator`, which
extends it. `TextureCreation` stands between the two: what it sees of a rescue is
that it acts or does not, what it sees of a wrapper is that it is destroyed.
`PoolBudget` is the pure part of `SidePool`, which extends it. `PageHeap` is the abstract specification that `FreeListAllocator`
implements (`ImplementsHeap`). `AllocationTracking` extends `HookScopes`: what the
malloc detours do depends on the hooks their thread is inside. `StagingUpload`
extends `TextureLayout` and is the other half of `ResettableTexture`: several
threads that upload at once, with the content of each level, but without the
wrapper's life and the reset. `MCWalks` takes `AddressWalk` and `PoolWalk`, the two
walks of one sample, together, and `MCCounting` takes `AllocWatch` and `StagingUpload`, two
tables of fixed size that threads share; a behaviour of either takes one of
the two. `AllocWatch` and `LogSink` use no other component's module: every part
writes to the log and none reads it. `Tally` says what a sum is, for `AllocationTracking`,
`AllocWatch`, `StagingUpload` and `PoolWalk`.
`*_proofs` modules extend the module they prove about; `Counting_proofs` extends four,
`AllocWatch`, `AddressWalk`, `PoolWalk` and `StagingUpload`, whose proofs share their
lemmas about sums and least numbers. MC modules give TLC its
instances.

### ObjectLifetime
One counted object as `ref_count.h` promises it: `count` is `references_`,
`phase` the object's life. An owner adds a reference only while the count is not
zero; the one that takes it to zero destroys the object, once.

### ResettableTexture
One wrapper and the driver's textures behind it. A step is what the code does
between two points where another thread can be seen: a critical section of
`registry_mutex`, `inner_mutex_` or `lock_mutex_`, an atomic operation, or a driver
call. `refs` is `references_`; `held` and `pinned` say who owns the references
(the game, one call of the DLL); `registered` and `byInner` are the two
registries; `inner`, `valid`, `dirty`, `view` are the members `inner_`, `valid_`,
`dirty_`, `locks_`. `innerRefs`, `bound` and `fresh` are the driver: COM counts of
the textures at its addresses, the one bound, and the levels of each that equal
the content of the section. `pc` follows `ensure_inner` (check, make, publish,
register, owe), `flush_dirty` and `upload_level` (take, map, next, grab, copy, put,
letGo), `release_inner` (detach, erase, freeInner), the destructor (unregister,
demolish) and the walks of Reset (snapshot, unpin, deviceReset).
Pixels are abstracted to *fresh or not*. `dropped` and `late` are history.
Every driver call on the way may fail.

### RescuePolicy
`Plan`, `Escalate`, the gates and the batch sizes of `rescue_policy.h` as operators
over the configuration record `Config`. Byte counts are small numbers in the same
order as the defaults.

### RescueCoordinator
Every thread is a *stack* of calls, since each of them can be entered from inside
itself: creates, detoured engine functions, resets. The top frame acts.
`inRescue`, `inHook` and `inReset` are the thread-local guards of
`consider`, of the detours and of the Reset hook; `underPressure`,
`consecutive`, `ladders` and `lastRescue` are the coordinator's plain members,
shared by all threads, read when a plan is made (`Read`) and written in later steps
(`Latch`, `LoadLadders`, `StoreLadders`, `Finish`). `consecutive` is capped at
`preemptiveEscalateAfter`, the only value it is compared with. `DriverFails`
stands for a failing placed create and its failing fallback together. Statistics
are left out. What the sampler reports is any member of `FreeBlocks`.

### TextureCreation
CreateTexture with its placement, wrapping, fallback and retries,
CreateCubeTexture/CreateVolumeTexture, the hooked Release and the destructor of a
wrapper, over the addresses that the driver and the heap hand out and reuse.
`records`, `total` and `relocated` are the ledger's members; `pc`, `want`,
`pool`, `overridden`, `attempt`, `ptr` are the hook's locals. `overtaken` and
`strays` are history: textures whose record a late release erased, and cubes that are
gone and still counted. A byte count is one
for each texture. Assumption about the driver (external): all its
`IDirect3DTexture9` objects share one vtable, so that once one is hooked every
Release of a texture, of inner ones too, goes through the hook.

### PoolBudget
`plan_pool_split` and the constants of `pool_budget.h`, in megabytes, of which every
constant of the source is a whole number.

### SidePool
`start` is where the thread that starts lyrium is, over two calls of the game far
apart: DllMain (attach, patch) and the first Direct3DCreate9 (hooks,
trampoline, create, register, probe, publish). The engine builds its pools at any
time after the first (`BuildPools`), and its threads allocate and free all
along (`pc`: detour, route, side, trampoline, original). `matches` says which
groups of rows of `targets.h` are found in this executable; `budget`, `patched`,
`planned` are the immediate, `pool_patch_result.applied` and
`planned_side_pool_bytes`; `jump` and `hooked` are the two halves of
`InlineHook::install`, whose trampoline is stored after the other threads run on;
`slot`, `arena`, `region`, `serves` are what the manager and the pool object hold;
`published` is which of the atomics have been stored. The registrar may answer
anything: it always reports success. An address is abstracted to a *place* where
one block fits, `live` remembers the request each block was made for, and `free`
asks, as the engine does, which registered pool contains the address
(`Claimers`). External: the engine's pool code. Left out: the back-off loop of
the main pool (`built` instead of a size), the allocator's rows, which are off by
default, and FreeLibrary, which a statically imported DLL does not meet.

### LogSink
`pending`, `draining`, `written`, `dropped`, `sealing` are the sink's members, `file`
what its streams were given (both as one sequence), `owner` who holds `mutex_`,
`tail_mutex_`, `snapshot_mutex_` and `used_sizes_mutex` (which stands for the
`allocation_mutex` taken right after it too). A logging thread goes tail,
inTail, push, inQueue; the writer drain, write, count; the sampler, and the exiting
thread at its end, snapshot, inSnapshot, the log, ledger, sizes, inSizes, the log
again. `Tick` decides, as `SampleSchedule::tick` does, and `SampleNow` is the call that
`run` makes of the decision; `SampleInline` is the same call by a thread of the game
(`d3d9.cpp:739`, `:821`, `:865`). `ExitProcess` makes one thread the only one that moves
(`Alive`); the others keep what they hold. Logging is taken to be enabled until `MaxLines`
lines have been made. `accepted`, `made` and `unserved` are history: `unserved` is set by a
request and reset only when a walk begins that was asked for (`requested`).

### PageHeap, FreeListAllocator
`PageHeap` is what a user may rely on: areas of a page that never overlap, and a
refusal only when header and request fit nowhere. `FreeListAllocator` has one page
and the objects it moves between: `owner`, `taken`, `extent` are `page_` of each, `free`
the list from `head_` in its order, `size` the field of every Node, `held` what the
users keep. `allocate` is three actions (the whole block, a block that is cut,
bad_alloc), `deallocate` two (in front of the list, behind a cursor), each with
the merges the code makes. The page is aligned and addresses count from its
start. Assumption about the users: a block is freed once, by who holds it.

### HookScopes, AllocationTracking
`HookScopes` has the thread-local `inHook` and `context` and a `stack` of the hooks a
thread is inside, with the members of `ReentryGuard` and `AllocContextScope`.
`AllocationTracking` adds the detours of malloc, free and realloc: `live` and
`liveBytes` are `live_allocations` and `live_allocation_bytes`, changed in two steps
(`Track` and `Add`, `Untrack` and `Subtract`) around the engine's own heap (`heap`,
external). `overwritten`, `stale` and `outside` are history: the entries the code is
known to lose.

### AllocWatch
`install` is how far which of the three functions (NtAllocateVirtualMemory,
VirtualAlloc, the executable's import) is patched, in the order the code tries
them; a thread that enters between the two stores of a jump is `adrift`, which
ends the process. `call` is where a thread is in a detour: it counts (`Note`),
takes a number (`Claim`), writes its record, whose stores have no order, unwinds, or
stores the cap over the count and counts a dropped record. `report` is
`report_alloc_records`, which reads each record twice without a lock. A stack is a
sequence of modules, callee first.

### TextureLayout, StagingUpload
`TextureLayout` is `append_mip_levels`, `texture_bytes` and the address arithmetic of
LockRect as functions. `StagingUpload` is one texture whose levels the game writes
(`view`, `marking`, `section`) and threads that bind it upload (`up`: take, map,
acquire, copy, update, offer), through the pool (`entries`, `held`), which a rescue
drains (`drained`). The content of a level is the number of the write that made it.
`failed` and `overtaken` are history: levels whose upload failed, and levels whose
last upload was passed by another thread's.

### AddressWalk, PoolWalk
`AddressWalk` is `sample_now` on several threads: `sample_va` region by region, each
with its own cursor and tallies (`scan`), while other threads reserve, commit and free
around it and a query may fail; then the copy into `snapshot_` under its mutex and the two
relaxed stores (`StoreAnywhere`, `StoreBelow`), which those of another thread can part.
A rescue loads the two figures one after the other (`loaded`); `headroom_bytes` is what
it and the overlay make of them. A figure carries, as history, what is known of the walk
it is from: `held`, the largest hole that stood throughout and was passed, and `widest`,
the largest that existed. The other totals are stored with the two figures and read for
the overlay, the log and a statistic (`diagnose`) only, so that their stores are left out. The unit is a page. `PoolWalk` is
`refresh_pool_occupancy` on several threads, header by header, while the engine
splits and merges blocks; a cursor that no longer stands at a header reads
anything. Histories (`standing`, `widest`, `known`; `whole`, `quiet`, `overlapped`)
say what there was to see.

## The runs

| Run | Instance | Shows |
|---|---|---|
| `texture` | 2 threads that both bind and lock, 1 of them resets, 1 level, 3 addresses; 1.45 million states | `WrapperAlive`, `InnerAccounted`, `InnerIsMapped`, and that the wrapper refines `ObjectLifetime` |
| `texture_levels` | a loader, a renderer that binds and resets, 2 levels, 2 addresses; 2.69 million states | `DebtKept`, `BindsWhatWasWritten`: no written level is lost, except one whose upload failed |
| `texture_unowned` | as above, and GetTexture on a texture whose wrapper the thread does not own | violated: `rewrap_resettable_texture` resurrects a dying wrapper |
| `rescue` | one thread, 3 calls deep, 4 instants, 2 sizes, 5 free-block values; fair; 71,472 states | the guards, the bounds of ladders and retries, and the return of every create |
| `creation` | 2 threads, 2 addresses of each kind, cubes among the requests; 480,485 states | every texture is held, wrapped or in hand; the ledger counts what exists |
| `sidepool` | 2 engine threads, 2 places in the main pool and 1 in the arena, 8 configurations, every subset of matching targets; 654,238 states | `ClaimedOnce`, `PublishedWhole`, `PaidPoolsFit` |
| `heap` | 2 objects, a Node of 2 units aligned to 2, requests of 0 to 3, pages of 1, 2, 8 and 15 units; 21,138 states | `BlocksTile`, `FreeListWhole`, `HandedOutFits`, and that the allocator refines `PageHeap` |
| `log` | a thread of the game, the sampler and the writer; queue of 2, interval of 2, 4 lines, a game's own samples before the first; fair; 139,610 states | `WrittenInOrder`, `EveryLineWritten`, `NobodyStuck`, `RequestServed` |
| `tracking` | 2 threads, 2 hooks deep, 2 addresses, 3 sizes around a threshold of 2, 4 calls; 2.34 million states | `BytesAccounted`, `EntriesMatchHeap`, `ScopesMatchStack` |
| `counting` | the watch: 2 threads, 2 records, 1 module, 5 large allocations; the uploads: 2 uploaders, 3 staging addresses, a pool of 2 entries and 40 bytes, 6 textures, 2 writes; 673,677 states | `RecordsAccounted`, `ReportAddsUp`; `StagingOwnedOnce`, `ShownUnlessOvertaken`, `SectionSound` |
| `walks` | 2 sampling threads, 4 pages with the line at 2, 2 changes or failed queries, 2 samples; 2 pools of 6 words, 2 refreshing threads, 1 move; 1.33 million states | `HeadroomHonest`, `FiguresExact`, `OccupancyWhole` |
| `walks_smaller` | the same | violated: the rescue acts on the larger of the two figures, not on the smaller (`va_region.h:16-17`) |

Six more configurations are there to be run by hand. Each takes away one
condition under which a property holds, and TLC shows what then happens:

| Configuration | Without | Counterexample |
|---|---|---|
| `texture_forgets.cfg` | the exception for levels whose own upload failed | such a level is owed by nobody (`resettable_texture.cpp:763`, `:772`) |
| `texture_stale.cfg` | a texture that is registered before it is detached | a reset erases the key before `ensure_inner` has stored it, and the key stays (`resettable_texture.cpp:669`, `:528`) |
| `rescue_threads.cfg` | the bound of one thread | two racing failures clear the cache once more than the limit (`rescue_coordinator.h:305`) |
| `creation_bare.cfg` | the managed fallback | a retried relocated create hands out a bare DEFAULT texture (`d3d9.cpp:988`) |
| `sidepool_unpaid.cfg` | a budget that was patched | the patch fails, which is only logged (`d3d9.cpp:1561`), and the side pool is made all the same |
| `log_exit.cfg` | a process that runs | the sample at exit waits for a mutex whose holder was killed (`d3d9.cpp:1499`) |

Why the bounds are enough. *Texture*: three addresses are one for `inner_`, one
for a texture still bound and one for a texture that loses the race to be
published; a second thread is needed for every race of one critical section against another, and a
third adds no new pair of them. Levels are independent but for the batch a flush
takes, which two levels show. `texture_levels` has one binding thread, because
with two the flush that copied older content may call `UpdateSurface` last; see
the hazard at `resettable_texture.cpp:683`. *Rescue*: depth 3 holds a create inside an
engine call inside a rescue, or a create inside a rescue inside a reset; a
fourth frame is suppressed by the same three flags. The ladder limit is 2 and
not 3, and an attempt counter goes to 3 as in the code. *Creation*: two
addresses of each kind are the fewest with which one is reused while another is
held; a third only adds a texture that does not meet the others. *Side pool*: one place
in the arena makes it full, two threads see each other's allocations, and the
configurations take every branch of `PlanPoolSplit` (nothing set, additive on a 4 GB
image, clamped, dropped, split) and one with the threshold off. *Log*: two lines
fill the queue and give the writer a batch to be killed in, four let a second
batch follow the first; one thread of the game is enough for every race, because
the sampler logs too, and its own walks are made before it logs a line (`MaxInline`),
where they meet the sampler's and the overlay's locks. *Heap*: fifteen units hold seven blocks with nothing asked
for, so that a block has two neighbours on either side, and are no multiple of the
alignment; the other pages are too small or just large enough. *Tracking*: two
addresses let one be reused while the other thread is between its two steps, and a
realloc move; two hooks nest one of each kind in another; four calls place, move,
free and place again. *Watch*: two slots, so that the cap is reached by one thread
while the other is about to store it, and five allocations, so that a third follows; one
row in the module table, so that it fills. *Uploads*: two levels at once, a third
staging texture while the pool is full, a drain of any mix; the textures are
square, oblong, odd and below one block. *Walks*: four pages hold two holes, a
region across the line and three committed regions for a table of two; two samples on two
threads are the fewest whose stores can be mixed, and two changes open and close a hole
under one walk, or a change meets a failed query. (`MCWalks` bounds the samples
and upsets together by three: what the bound leaves out is two overlapping walks with two
changes between them. The run is of a large-address-aware process; the other kind is
covered by `HeadroomIsHonest` only.) Six
words hold three blocks, of which the cap of two stops short. One move is enough
for a cursor to stand nowhere, because what it then reads is arbitrary.

Deadlock is checked in the runs of textures, rescues, creation and the heap: there
is always something to do. It is not in `sidepool`, where a call through a null
trampoline ends the process, in `log`, where the process exits, in `counting`, where a torn
jump ends it, and in `tracking`, `counting` and `walks` because their bounded
calls, allocations, writes and moves run out.

### Fairness
Nothing is assumed of an outcome: the driver may fail every create.
* `rescue`. `WF(Progress(t))`: the operating system runs every thread, and the
  driver's create returns. `SF(Returns(t, depth))`: a call of engine code, a
  rescue's eviction or a Reset that is on the stack returns, however many creates
  it makes first. It is strong because the frame is not on top while a create it
  made is.
* `log`. `WF` on the steps a thread can take by itself (`Going`, with the call of
  `SampleNow`, `Drain`, `Tick`): it is run, and the sampler's sleep ends. `SF` on taking a mutex (`Locking`,
  `WriterWakes`): one that is free again and again is given to whoever waits. No
  fairness for the game's calls or for the exit. After `ExitProcess` the steps of a
  killed thread are not enabled, so that nothing is assumed of it.

## The proofs

For any finite set of threads, any levels and any addresses
(`ThreadsAssumption`, `LevelsAssumption`, `InnersAssumption`):

* `WrapperStaysAlive`, `ImplementsLifetime` (`ResettableTexture_proofs`). The
  invariant `LifeInv` says that the count is the number of owners
  (`CountsOwners`: `Cardinality(held) + Cardinality(pinned)`, and one more while the
  wrapper is being created), that each position in the
  code implies which references its thread owns (`PinnedWhileInside`,
  `HeldWhileInside`, `Flow`), that an owned wrapper is live, and that one thread
  at most runs the destructor. `WrapperAlive` alone is not inductive: it says
  nothing of why a count is not zero.
* `InnerReferencesAccounted`, `TypeCorrect`. `CountInv` adds to the accounting
  identity which threads can carry a texture (`Hands`, `MayHold`), and that an
  unborn wrapper has none.
* `PublishedInnerIsMapped`. Alone it is not inductive: an address is erased from the
  map after the texture is detached, and the driver hands out freed addresses again.
  `MapInv` adds that a thread that erases an address holds its last reference, so
  that nobody can be given it (`CountInv`), and who stores what between make and register.
* `NoWrittenLevelIsLost`, `BindsShowWhatWasWritten`, for one binding thread
  (`OneBinder`; any number of others lock, write, unlock, reset and release).
  `DebtInv` follows a written level: it is on the texture in use, or dirty, or some
  thread will mark it or upload it (`WillPay`), and a texture on its way to the device
  carries what its binder has flushed. With two binding threads both are false, as
  TLC shows (see the runs): the flag is cleared before the copy.
* `NoNestedRescue`, `NoReentry`, `NoRescueInReset`, `TypeCorrect`
  (`RescueCoordinator_proofs`), for any stack depth, configuration, sizes and clock
  (`ConfigAssumption`, `RescueAssumption`). The invariant `StackInv` states what a
  flag says of a stack: each guard is set exactly while a frame that owns it is
  there, and a frame has above it only what its callee can start.
* `EpisodesStartFresh`, `ClearsAreBounded`, for one thread (`OneThread`), which is
  how the engine creates textures; `rescue_threads.cfg` shows that two lose
  updates of the plain counters. `EpisodeInv` says what the frame that decides has
  read is still so when it stores, although engine calls ran in between, and that
  every clear is counted or about to be.
* `EveryRetryEscalates`, for any threads, where the second rung is wider than the
  first (`WiderSecondRung`: the managed pool is evicted too, which is the default, or
  the batch grows). `RungsKept` says which rung a create has behind it at each attempt;
  with neither, two attempts would evict the same, which the code permits.
* `CreatesOnlyAdvance`, for any threads. `StepsLeft` counts the steps a create can have
  before it, at most 32; each of its own takes one away (`CreateAdvances`) and neither a
  call that nests in it nor another thread gives one back (`StackGoesOn`,
  `NoCreateGoesBack`). That the steps are taken, and that nested calls return, is
  fairness: `CreatesReturn` stays with TLC.
* `BlocksClaimedOnce`, `PoolPublishedWhole`, `OnlyLargeBlocksMoved`,
  `PatchedPoolsFit`, `TypeCorrect` (`SidePool_proofs`), for any threads, places, sizes
  and configurations (`PlacesAssumption`, `ConfigsAssumption`). `StartInv` says what
  each stage of the start-up leaves behind it (`SlotSince`, `Proved`, `Whole`, `Paid`)
  and `AllocInv` what a thread in the detour has seen (`Seen`, `Chosen`) and which
  blocks can be in use. `ClaimedOnce` alone is not inductive: that a served
  block is contained in the pool that served it is known only from the probe,
  which ended before the pool was published. `PatchedPoolsFit` rests on the lemma
  `SplitFits` about `plan_pool_split`.
* `IsHeap`, `Tiled`, `ListWhole`, `OwnedOnce`, `TypeCorrect`
  (`FreeListAllocator_proofs`), for any objects, Node size, alignment, requests
  and capacities (`LayoutAssumption`). The invariant is the conjunction of the
  types, one owner of the page, the tiling and the sorted list without
  touching blocks. Each lemma says of one way to cut or to merge what becomes of
  the set of blocks, and the refusal uses that the blocks cover the page: any room
  for a request would lie within one free block.
* `HandedOutFit`. Everything that is cut or merged is a multiple of the alignment
  (`AllAligned`), and a held block keeps the size it was cut to.
* `ScopesRestored`, `TableTrue`, `TypeCorrect` (`AllocationTracking_proofs`), for
  any threads, depth, addresses and sizes. `ScopesInv` says what every frame of a
  stack found when it was entered: the innermost says too little to leave the next
  one. `BlocksInv` says that the block in a thread's hand is nobody else's, and
  which entry is still to be made or to be taken away.
* `SumAccounted`. A sum is stated as the number of its units, pairs of an
  index and a number up to its value (`Units`, `Total`), so that it changes as a
  cardinality does. `SumInv` adds that the entry whose size a thread is about to add is
  still in the table: what is still to be added is never more than what the table
  holds, so the counter, an unsigned atomic, never passes below zero even while a
  release overtakes the addition of another block.
* `MovedOnlyWrapped`, `LedgerCounts`, `LedgerHonest`, `TexturesKept`, `TypeCorrect`,
  `TotalsTrue` (`TextureCreation_proofs`), for any threads, addresses and requests
  (`CreationAssumption`). All but the last assume the managed fallback, the default
  (`FallBackToManaged`); without it the first is false. `Apart` and `Kept` say that
  each texture has one owner, `Hand` which one a thread is carrying at each step of
  the hook, `Told` and `Expected` what the ledger knows of it. The totals are
  cardinalities of the sets of records.
* `AllocationsAccounted`, `TypeCorrect` (`Counting_proofs`), for any finite set of
  threads and any number of slots (`WatchAssumption`). `SlotsInv` says that a slot in a
  thread's hands is below the count and is its own, and that no record above the
  count is written; `CapInv` that the count is stored over only when it is past
  the slots, and exceeds them by the threads about to store it.
* `ReportsAddUp`. `WorthInv` says that a record's size is stored once, and that what
  is stored and what is owed to a record are no more than what was counted;
  `ReportInv` that the rows, whose modules differ, hold what was read first, the sums
  what was read second, and that a size is no smaller the second time. That
  `attribute` finds the row of a module, if there is one, rests on every set of
  numbers having a least member (`LeastMember`).
* `HeadroomIsHonest` (`Counting_proofs`), for any sampling threads, memory, line, kind of
  process and table of regions (`AddressAssumption`). `WalkInv` says of each walk that
  what stood throughout and was passed lies within one hole that was reported, and that
  what was reported existed at the query; a page that stands cannot be where one query
  ends and the next begins with the hole split, because a query extends to the end of its
  stretch. Each figure takes that along when it is stored (`Honest`), so nothing is needed
  of two figures that come from two walks: the headroom is one of them. Only the
  snapshot's two are of one walk, and there the constrained figure is the smaller.
* `FiguresAreExact`, of every walk. `FiguresInv` says that a bucket counts the regions of at
  least its threshold, and that the i-th of the largest has a size exactly if i regions
  have it; the ranking's insertion keeps this for any length. A size class is the
  difference of two buckets, so it holds the regions between the two thresholds
  (`Between`), and the tallies of pages add up to the cursor, so the walk leaves nothing
  out, also when a query fails and it ends early.
* `OccupancyIsWhole`, for any pools, cut into blocks in any way, and any number of
  refreshing threads (`PoolAssumption`). `WalkerInv` says that a walk has tallied the words
  behind its cursor once, in the total and in the histogram, whatever it read, and that
  a walk whose pool has not moved stands where a block begins and has tallied the
  blocks behind it; `CacheInv` that a figure in the cache came from a walk that reached
  the end; `StoresInv` that, while refreshes do not overlap, a cache that is between
  two walks is in the hands of one thread. That the engine keeps a pool tiled when it
  splits and merges is proved as well (`AllocatedTiled`, `FreedTiled`).
* `StagingIsOwnedOnce`, `SettledIsShown` (`Counting_proofs`), for any textures, number of
  uploaders, staging addresses and limits (`UploadAssumption`). `OwnersInv` says who has
  each staging texture and that no two of pool, uploads and rescue do; `PoolInv` that
  `held` is the sum over the entries; `ShownInv` (`LevelShown`) that until a level is
  pending or failed somebody carries what was written last, or the GPU shows it or was
  overtaken and whoever carries anything else has been passed. Extents and sizes of
  levels are recursive over the level: that every level has one rests on the least
  level without (`GivenExists`, `HalvingsAre`).
* `SectionsAreSound`, for any extents, number of levels and block size. Every block of a
  level ends where the next begins (`BlocksAre`, `BlocksBetween`); a lock reaches as many
  rows as the rect has, each within one pitch (`BlockOf`, `RowOf`, `RowsWithin`). The
  ledger counts from the levels the game asked for, the section from those the driver
  made: they agree because each level is counted with the size it has (`CountedIs`),
  and because halving the larger extent to one takes as many steps as a complete chain
  has levels (`LengthsAre`, `CompleteChain`). Sizes are natural numbers: that those
  of a texture fit the code's 32 bits is the device's limit on extents.
* `LinesInOrder`, `TypeCorrect` (`LogSink_proofs`), for any threads, queue and number of
  lines (`SinkAssumption`). The types include the queue's limit and the writer's
  place in its batch, which need that the seal takes the batch away only at the exit.
  `OrderInv` adds that the seal leaves nothing queued and the process ends once, and
  that a line written and not yet counted is both the file's last and the batch's
  next: this is the line that the seal may write again.

Every invariant and every action property of the runs, and both refinements, are
theorems, some under a condition named above (`OneThread`, `OneBinder`,
`WiderSecondRung`, `FallBackToManaged`). Only model-checked: the counterexamples, and `CreatesReturn`,
`EveryLineWritten`, `NobodyStuck` and `RequestServed`, which are liveness under fairness.

## What the checks found

Two statements of the sources that the code does not keep have a run of their own
(`texture_unowned`, `walks_smaller`) and are quoted in `PROJECT.json` under `findings`. The
second is a comment that was left behind: `d3d9.cpp:465-467` gives the reason why the
rescue no longer reads the smaller figure, and `va_region.h:16-17` still says it does (so
does `overlay.cpp:352` of the overlay). The six
configurations above show what happens outside the conditions of a property.
Others were met on the way:

* `resettable_texture.h` and `d3d9.cpp:1066-1067` say that a rewrap "Returns nullptr when
  the wrapper is already dying", where `resettable_texture.cpp:1028-1034` has no
  such case.
* `rescue_coordinator.h:300` says that "a plan that was never executed has not cost
  the engine anything"; `failure_ladders_` is incremented whether or not
  `clear_cache` did anything (it refuses when no cache has been seen, inside any
  detoured engine function, and inside a reset).
* Cube and volume textures are put in the ledger, and nothing hooks their Release:
  the totals ratchet upward, which `texture_ledger.h:51-58` says it was written to
  remove. `CountedExists` excepts these records and only these.
* `d3d9.cpp:1518-1520` calls a shrunk pool without hooks "strictly worse than not
  loading at all"; `targets_verify_clean` leaves out the row `pool_alloc`, for whose
  mismatch `install_engine_hooks` then installs nothing, with the budget patched.
* `pool_budget.h:49-52` offers a 2 GB image "Nothing above" 768 MB "whatever the ini
  says"; with no side pool configured, `main_pool_mb=1024` goes through.
* `log.h:257-258` promises that the seal emits "exactly the remainder"; a writer killed
  between writing a line and counting it leaves that line to be written twice.
  `WrittenInOrder` excepts this one line.
* `engine_hooks.cpp:138-140` says that the occupancy is refreshed only from the
  sampler's thread; `sample_now` at `d3d9.cpp:739`, `:821` and `:865` runs the observer,
  and with it the refresh, on the game's threads. Two refreshes can mix their
  figures; `OccupancyWhole` excepts these (`overlapped`).
* `release_inner` erases the key of the texture it detached (`resettable_texture.cpp:528`)
  also when the thread that published it has not stored that key yet (`:669`). The key is
  then stored for a texture that is gone, the destructor erases only that of the current
  one (`:606`), and it can outlive the wrapper: `KeysAreInner`, which `texture_stale.cfg`
  refutes. `InnerIsMapped` states the direction that holds.
* `last_largest_free_` and `last_largest_free_below_2g_` are stored apart (`sampler.h:107-108`)
  by any thread that samples, so a reader may find the constrained figure larger than
  the other. `headroom_bytes` uses one of them, and `HeadroomHonest` shows that this one is
  still the figure of a walk.
* `walk_pool` reads a header of eight bytes wherever the cursor is short of the end
  (`engine_hooks.cpp:420`), so up to seven bytes past it on a chain that is torn.
* The watch writes its jump in two stores while other threads may run through the
  function (`alloc_watch.h:325`); `AllocWatch` reaches that state. `InlineHook` suspends
  the other threads for its own patch.
* The VirtualAlloc detour counts calls that failed, the one on
  NtAllocateVirtualMemory does not; the report passes the former over.
* `install_game_malloc_hook` (`alloc_watch.h`) is called by nothing.

## Not modelled

Parsing, drawing and formatting (configuration, overlay, log wording, SHA-256), and
the adapters over the system's heaps. Of modelled parts: ResettableSurface, which appears
through its calls on its texture and has no count of its own here; several
wrappers at once (the registries hold one entry); `block_rect.h`, which only
tests use; formats that are not compressed; `size_tally.h`'s atomics;
`InlineHook::remove` and `remove_alloc_watch`, which only FreeLibrary reaches, and a
statically imported DLL does not meet it; the tail ring's content. Vertex and
index buffers have only counters. Below the grain of a modelled part:
`acquire_bound_texture` when `try_add_ref` fails, which then calls the dying wrapper's own
`AddRef` and hands the wrapper to the driver (`resettable_texture.cpp:1028-1034`; a thread that
binds owns a reference here, so that it is not met); `UpdateTexture_hook`, which
makes that call for two textures and lets go of both; a thread killed inside
`pending_`'s `push_back`, which would leave the vector torn for the seal; and
`AllocContext::device_reset`, which no scope outside the tests sets.

## Plan

Done, in this order: the wrapper and its lifetime; the rescue policy and
coordinator; texture creation and the ledger; start-up and the side pool; the log
and the sampler; the allocator; allocation tracking; the watch; the uploads; the
two walks; proofs of every safety property. Left:

1. `ResettableSurface`'s count and the reference it keeps on its texture; a second
   wrapper in the registries.
2. `ComHook`: the hook table under its reader-writer lock.
