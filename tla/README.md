# A verification of shredder in TLA+

`shredder` is a tracing garbage collector for Rust: `Gc<T>` handles may be cloned, moved and
dropped by any thread; a mark-and-sweep collection runs concurrently with them; destructors run
on a background thread. This directory holds TLA+ models of its components, the TLC
configurations that check them on small instances, and proofs, checked by TLAPS, of what holds
on every instance. Paths below are relative to the crate's `src/` (so `collector/mod.rs` is
`src/src/collector/mod.rs` in `PROJECT.json`).

Run things in this directory: `tlc -config CollectorMutators.cfg MCCollector.tla` checks a run,
`tlapm CollectorProofs.tla` a module of proofs. `PROJECT.json` lists components, runs, mutants
(a plausible bug for each property, which makes it fail), the map from definitions to source
lines, findings, hazards and theorems.

## 1. Inventory

| component | state | operations | modelled in |
|---|---|---|---|
| Collection, `collector/collect_impl.rs`, `mod.rs` | collection number, data list and handle list, `last_marked`, `last_non_rooted`, warrants, `to_drop` | `do_collect`: synchronize, scan, roots, search, filter, send | `Collector` |
| `Gc`, `smart_ptr/gc.rs` | handle entries, the value, the `deallocated` flag | `new*`, `new_cyclic*`, `clone`, `get`, `drop`, `downcast` | `Collector` |
| Allocations, `collector/alloc.rs` | the value, its deallocation action | four ways to allocate, four to deallocate | `Values`, effect in `Collector` |
| Drop thread, `collector/dropper.rs` | unbounded channel, the batch being destroyed | `DataToDrop`, `SyncUp` | `Dropper` |
| `synchronize_destructors`, `run_with_gc_cleanup`, `lib.rs` | `gc_lock`, the responder channels | collect, then synchronize | `Cleanup` |
| Trigger, `collector/trigger.rs`, and the asynchronous thread, `mod.rs` 119-145 | baseline, percentages, channel with room for one | `should_collect`, `set_gc_trigger_percent`, notify, `check_then_collect` | `Trigger`, `Cleanup` |
| `Lockout`, `concurrency/lockout.rs` | counter, mutex, condition variable | `get_warrant`, `get_exclusive_warrant`, two drops | `Lockout`, promise in `Warrants` |
| Wrappers, `wrappers.rs`, and the scans of locks, `std_impls/wrap_types.rs` | a `GcGuard` kept with a borrow of the inner lock | borrow, lock, read, write, their `try_` forms, drop; `try_lock` scans | `Guarded` |
| `AtomicProtectingSpinlock`, `concurrency/atomic_protection.rs` | tracker, `gc_lock` | `lock_inclusive`, `lock_exclusive`, two drops | `AtomicProtection`, promise in `Warrants` |
| `AtomicGc`, `atomic.rs` | an `AtomicPtr` and a dynamic handle | `new`, `load`, `store`, `swap`, exchanges, `drop`, derived `Clone` | `AtomicGc` |
| `DerefGc`, `smart_ptr/deref_gc.rs` | a `Gc` without a warrant | `new*`, `deref` without a check of any kind, `drop` | `AtomicGc`, in part |
| `ChunkedLinkedList`, `concurrency/chunked_ll.rs` | chunks, free queue, length estimate | `insert`, `expand`, `remove`, `par_iter`, `par_retain` | `ChunkedList` |
| `Scan`/`Finalize` of std types, `std_impls/` | none | structural traversal | `Values`, locks in `Guarded` |
| `R`, `RMut`, `r.rs` | none | empty `scan` and `finalize` | no |
| Marker traits, derive macro | none | compile time | no |

How they interact. A `Gc` is one entry of the handle list. `Gc::get` reads `deallocated` and
takes a warrant of the data's `Lockout`. A collection holds `gc_lock` and the exclusive spinlock
guard, waits for the drop thread, takes exclusive warrants of all data it can, stamps the handles
inside it, takes every unstamped handle as a root, searches from the roots, releases the
warrants, filters the data list, and sends what it removed to the drop thread, which flags it and
runs its destructors, which in turn remove the handles that were inside. Mutators run throughout,
except for the operations of `AtomicGc`, which the spinlock keeps out.

Which behaviour is hard. Everything but `gc_lock`, the spinlock and the warrants is
unsynchronized: the lists change under the enumerations, the flag is read once and used later,
stamps and marks of earlier collections stay in place, and the argument that a collection is right
(the comment at `collect_impl.rs` 15-20, the "Essential note" at 90) is about interleavings.
`PROJECT.json` lists each hazard with its line and the property that covers it, or why none does.

What makes each component correct:

* collection: data a mutator can reach is never condemned (`NoLiveDataReclaimed`); what was
  garbage when the scan began goes (`GarbageReclaimed`); only warranted data is scanned
  (`OnlyWarrantedDataScanned`); the graph is frozen while it is walked (`ScannedGraphFrozen`);
  no destructor runs beside it (`DestructorsSynchronized`); nothing is condemned twice
  (`CondemnedOnce`); no guard outlives its data (`GuardedDataAlive`); the trigger's subtraction
  does not wrap (`CountNotBelowBaseline`); it ends (`CollectionEnds`);
* drop thread: flags before destructors (`FlagsBeforeDrops`), each destructor once
  (`DestroyedOnce`), panics stop nothing (`SentEventuallyDestroyed`);
* cleanup and trigger: on return the closure's garbage is destroyed (`CleanupRunsDestructors`); it
  does return (`CleanupReturns`); no notification is lost (`GrowthServed`);
* values: Gcs leave the handle list whatever panics, but for what a table leaks (`HandlesReleased`),
  every part ends once (`EndsOnce`);
* lockout and wrappers: exact counters (`CountIsHolders`), mutual exclusion as a refinement of
  `Warrants` (`ImplementsWarrants`), no lost wake-up (`NoLostWakeup`, `SleeperWoken`), no scan
  finds a lock held (`ScanFindsLockFree`), no user meets a scan (`ScanUnseen`);
* spinlock and `AtomicGc`: an exact tracker (`TrackerCounts`, `ImplementsWarrants`), pointers do not
  dangle (`AtomicGcNeverDangles`) nor move during a collection (`AtomicPointersFrozen`), garbage
  goes (`AtomicGarbageReclaimed`), no deadlock with `gc_lock` (`CallsComplete`);
* lists: slots are conserved (`SlotsConserved`), items are not lost (`NoItemLost`), walks call their
  function on all that stays, on nothing twice, and on nothing that was not there when its slot was
  loaded (`ImplementsEnumeration`), the length does not wrap (`EstimateExact`), calls return
  (`CallsReturn`).

## 2. Modules

```
 AbstractGc <~~ Collector      Warrants <~~ Lockout <- Guarded
                    |                   <~~ AtomicProtection <- AtomicGc
                 Dropper <- Cleanup -> Trigger     Enumeration <~~ ChunkedList     Values
```

(`<~~` is implemented by, `->` extends.) `Dropper` and `Trigger` are operators over their own
variables, which the modules above conjoin with their steps. Modules `MC*` choose programs and
symmetries for TLC; modules `*Proofs` hold the proofs. Definitions called `Mutant...` are the bugs
of `PROJECT.json`'s mutants and part of no specification.

**Dropper.** `channel` is the crossbeam channel, a sequence. A `DataToDrop` batch goes through
stages `flag` and `drop`, each a rayon `par_iter`: any worker takes any remaining item, and the
stage ends when all are done. `EndDeallocate(d, panicked)` is the end of a destructor, with the
panic `catch_unwind` catches or without, which makes no difference to the thread. `sync[c]` is the responder of a thread in `synchronize_destructors`.

**Collector.** A handle is at once a `Gc` value (`holder` says where it is: on a stack, inside
data, or gone), its entry in the handle list (`points`, `stamp` = `last_non_rooted`), and its slot
(`handleSlots` = the slots the enumeration has not passed). Handles are reused, so a clone may
land in a passed slot or in one still ahead; this is the freedom the free queue of
`ChunkedLinkedList` gives it. `access[h]` is how far a call on `h` has got: `closure`,
`returned`, `written` while `new_cyclic` or `new` is constructing; `checked` between the read of
`deallocated` and the warrant in `Gc::get`; `guard` while the `GcGuard` lives. Data goes
`used` -> `written` -> `tracked` (data list) -> `condemned` (`to_drop`) -> `sent`, with
`mark` = `last_marked`. `excl` is the data the collection holds exclusive warrants of; that a
`Lockout` behaves so is `Warrants`. `phase` is the step of `do_collect`, one action per slot
visited, marked or filtered. The `par_iter`s are interleavings of one-slot steps; scanning one
piece of data and stamping the handles in it is one step, since its exclusive warrant (or the lack
of a warrant, when nothing is stamped) makes the order of the stores unobservable to mutators and
the roots are enumerated only after all of them. Mutators allocate (moving Gcs into the value),
clone, drop, guard, and move Gcs in and out of guarded data (any interior mutability).
Destructors may do what `DestructorMay` says with the Gcs inside the data they destroy: `get`, take
guards; `cloneLive`, clone Gcs to data that is not being destroyed; `cloneDead`, clone the others.
`deallocate`'s four actions all end with the Gcs inside invalidated, which is what `Deallocate`
does (`HandlesReleased` of `Values` is the reason). The exception, a Gc that a HashMap or HashSet leaks
when a destructor panics inside, is here a clone that the destructor keeps: a root for ever, and if it
points to data of the same batch, one more way to finding 2. `Program` is what mutators ever do, `During[n]`
what they do while collection number `n` runs. Two merges of steps: `VisitHandleSlot` loads a slot of
the handle list and calls the closure on it in one step, while in the code the handle may be removed
in between (a call on it then only adds a root, for data that was reachable when the slot was
loaded); and `FinishCollection` is the send, the baseline, the number and the unlocking
(`collect_impl.rs` 146-161), although destructors may start right after the send. No property is
about the difference: nothing between the send and the unlocking reads what a destructor changes but
the length of the data list, which destructors leave alone.

**AbstractGc.** The promise: programs act on what they can reach, sets of unreachable data are
reclaimed, reclaimed data is destroyed later. No collection, no marks, no threads.

**Cleanup, Trigger.** Users allocate, lose handles and end in `run_with_gc_cleanup`; `Async` is the
asynchronous collector thread, which receives a notification, takes `gc_lock`, asks the trigger and
collects or not. `held` is the data that has a handle, so `Cardinality(held)` is the handle count
and `Cardinality(tracked)` the data count. The collection is reduced to what `Collector` shows of it:
it condemns only unreachable data (`NoLiveDataReclaimed`), and all that was unreachable when its
scan began (`GarbageReclaimed`). `notified` is the channel with room for one notification. The
usize subtraction of the trigger is modulo `Word`. `SetGcTriggerPercent` changes the percentage
between any two steps, to any of `Percents`; the panic on a negative one changes nothing.

**Values.** One value through its life. A value is a tree of structs, tuples, collections (`vec`) and
HashMaps or HashSets (`table`) over Gcs, `AtomicGc`s and user data, its parts numbered in the order in which they are scanned, finalized
and dropped. The recursive trait implementations are steps over these parts: `at` is the part their
calls have come to, `open` the parts the calls in progress are on, `Enter` a call on the next part;
`FinalizeInPlace`, `FinalizeTuple` and `FinalizeElements` are the returns of the three kinds of
`finalize`, or what unwinding does to their locals when part `culprit` has panicked: it turns to
dropping (`DropFrom`) the local variables of the finalizer of part `owner`. `New`, `NewNoDrop`,
`NewWithFinalizer` and `FromBox` allocate, with the `GcDrop` bound as a guard; `DoNothing`,
`RunDrop`, `RunFinalizer` and `BoxDrop` begin the deallocation, in which one user-written part may
panic. Struct, tuple and the collections that std drops with a guard (`Vec`, `VecDeque`, `BTreeMap`,
`LinkedList`, ...) go on with their other parts when one panics in its destructor. The table of a
`HashMap` or `HashSet` does not: `AbandonTable` leaks the elements after that one and the buffer
(`leaked`). Under `RunDrop` and `BoxDrop` nothing was invalidated before (`alloc.rs` 164-170,
186-194), so the Gcs among the leaked elements stay in the handle list, as roots of what they point
to, for ever. `LostInTable` is this exception of `HandlesReleased`; `EndsOnce` says that such parts
are leaked untouched.

**Lockout.** One `Lockout`; each load, compare-and-swap, lock, wait, notification and unlock is
an action. A failed `compare_exchange` in the slow path loops with the mutex held, as the code
does. parking_lot condition variables do not wake spuriously.

**Guarded** extends `Lockout`: the data is a `RefCell`, a `Mutex` or an `RwLock` (`kind`).
`call[t]` is the borrowing call a user is in, which first gets a warrant, step by step, and then
locks or fails at the inner lock (`shared`, `unique`, `poisoned`); the guard is dropped inner lock
first, then warrant, as the rental structs order it. A collection (`Writer`) with the exclusive
warrant has `Worker`s scan the data, once to stamp and, if the search reaches it, once more; two
workers may reach it through different handles, and the swap of `last_marked` lets one through.
`missed` records a scan that found the lock held and so reported nothing.

**AtomicProtection.** The tracker with the two callers that matter: `do_collect` (gc_lock, then
spin) and `get_collection_blocker_spinlock` (increment, and on failure wait for `gc_lock`).

**AtomicGc** extends `AtomicProtection`. `pointer[c]` is an `AtomicPtr`, `holders[c]` where the
`AtomicGc`s that share it are (stacks or data; more than one only by the derived `Clone`),
`entries` the handle list's dynamic entries. An operation checks that what it is given is live,
takes the spinlock, does its one atomic instruction, and leaves. `gcs` are the data that `Gc`s and
`DerefGc`s on stacks point to. Collections stamp the cells inside data, take the other entries and
all Gcs as roots, and follow the pointers they find then. `Programs` restricts what programs do, as
`During` does in `Collector`, but only while a collection looks for roots: `new`, make an AtomicGc
(or another Gc) of a Gc; `drop`, drop Gcs. `NewOrDrop` says that none does both there. The code
enforces no such thing: it is the assumption under which `AtomicGcNeverDangles` holds (see the
remark on finding 1). Visiting a slot is one step, as in `Collector`.

**ChunkedList.** The lists, slot operation by slot operation. A pointer to a chunk is the
sequence of chunks from it on, as `next` never changes. The worker of a walk in chunk `c` is `c`
itself. It loads a slot (`LoadSlot`), then calls the function on what it loaded (`VisitSlot`, or
`RefuseSlot` when the function of `par_retain` refuses it), and between the two anything may happen to
the slot; it removes by the same three steps as a thread. `par_retain`'s function may refuse any item
whose insertion has returned: `do_collect` refuses only data its scan has seen and no handle points
to, so never data whose `insert` is still in progress. Removals may be stale: the item is out
already, and the slot may hold another. `present` and `visits` are history for the refinement.

**Enumeration.** The promise of the list: a set whose insertions and removals take effect at one
instant (the slot is written, the slot is cleared), and a walk that loads what is in the set at that
moment, visits what it has loaded, which may have left the set by then, visits nothing twice, and
does not end before everything that has been in the set since it began is visited. `members` is what is stored in any slot of any chunk, so a chunk that fell out of the list
would be missed by a walk.

What one module assumes of another: `Collector`, `Cleanup` and `AtomicGc` use the lists as
`Enumeration` allows (with load and visit in one step), `Collector` uses warrants as `Warrants` allows, `Cleanup` and
`AtomicGc` reduce the collection to what `Collector` shows, `Collector` reduces a destructor to what
`Values` shows.

## 3. Runs

| run | instance | distinct states | shows |
|---|---|---|---|
| CollectorMutators | 2 data, 3 handles, 2 collections; during the first all operations but `drop`, during the second all but `clone` | 264,411 (symmetry) | all safety properties and the refinement of `AbstractGc`, while destructors take guards and rescue live data by clones |
| CollectorDestructors | 2 data, 2 handles, 2 collections; destructors take guards and clone any Gcs | 136,950 | `GuardedDataAlive` even so; every collection ends |
| Cleanup | 2 users, the asynchronous thread, 2 data, 2 percentages | 223,460 | shutdown, drop thread, trigger; liveness |
| Guarded | 2 users, 2 collections, 2 workers | 589,881 | wrappers, Lockout beneath them; liveness |
| AtomicGc | 1 thread with 3 operations, 3 collections, 2 data, 1 atomic; programs that make handles or drop Gcs in a root search | 175,837 | `AtomicGc`, spinlock beneath it; liveness |
| Values | values of at most 5 parts | 998,220 | deallocation of every such value, with every panic |
| ChunkedList | 2 threads, 3 items, up to 3 chunks of 1, filters | 701,077 | the list and its refinement of `Enumeration`; liveness |
| CloneDropRace, DestructorScan, CyclicWindow, AtomicClone, FinalizePanic | the smallest that show it | | the findings below |

Why clone and drop are not allowed together during one collection in the run that passes: that
combination is the first finding, and so are AtomicGcs made and Gcs dropped in one root search of
`AtomicGc`. For the same reason destructors clone only Gcs to live data in
`CollectorMutators` (finding 2); in `CollectorDestructors` they clone any.

Bounds. `MaxCollections` bounds `number`; two collections are what is needed for stale stamps,
stale marks, batches of an earlier collection and the wait for them; a third meets nothing new,
since only equality with the current number, and zero, are ever tested. Two pieces of data give
cycles, self-references, one in use while the other is collected, and a path along which the
search must go on from what it has marked. Three handles give a root and an edge for each of two
data, or a clone in between.
`Signpost` and `Sentinel` stand for 2^64 - 1 and 2^60: the assumptions in the modules say that
counts of holders stay below them. `MaxTracker` and `MaxCalls` bound the tracker and the calls.
In `Guarded` two users and two collections meet in every pair that can contend, and two workers are
the least that can scan one piece of data at once. In `AtomicGc` an operation can be overtaken by one
collection and meet the next; two data are what a swap needs. With one thread and one collector in it,
inclusive guards do not overlap and collections do not compete for `gc_lock`: only the proofs cover
these (`SpinlockCounts`, `SpinlockRefinement`, `AtomicGcCounts`, `AtomicGcRefinement`,
`AtomicGcNeverStuck`, for any number of both). In `Cleanup` `MinAllocations` is 1, so that both
thresholds are met and missed; with a baseline of one, a second piece of data is growth by 100%,
between the two percentages the users may set.
`MaxParts` 5 gives tuples and collections of two parts inside one another, with something beside
them, on which unwinding inside unwinding depends.
`MaxChunks` bounds the list's growth; it is enough for every insertion. One-slot chunks make every
second insertion race to expand; the loops over the slots of one chunk are sequential in the code,
the model has them for any `ChunkSize`, and so have the proofs about the list. `Walks` says which
kinds of walk a run has: filters alone, since a `par_retain` that refuses nothing takes the steps of
`par_iter`.
All of these bounds are absent from the safety theorems of section 4.

Fairness. Threads inside a call of the library, the collecting thread and the drop thread are OS
threads that keep running (WF). A step that waits for a parking_lot mutex gets SF: such mutexes are
eventually fair. So, in `Cleanup`, SF for users in their cleanup and for the asynchronous thread
(`gc_lock`), WF for the drop thread and for destructors; in `Guarded`, WF for `get_warrant` and the
scans, SF for the release of exclusive warrants, and nothing of users or of the standard library's
locks, which are not fair; in `AtomicGc`, SF for operations and collections, WF for the collection's
own work; in `ChunkedList`, WF for calls. Destructors are assumed to end and to drop the guards they
take; SF for `Deallocate` in `Collector` because a destructor may take any number of guards first.
Nothing makes a thread start a call, and nothing makes a user release a guard: no liveness property
needs it.

Deadlock checking is off where the system may rightly stop: in `Collector` all handles are used up,
in `Cleanup` all threads are done, in `AtomicGc` all calls are made, in `Values` the value's life is
over, in `ChunkedList` all items are inserted and the walks are over or the bounded chunks full.
In `Guarded` it is on.

### Findings

1. **CloneDropRace** (`collect_impl.rs` 71). The enumeration of the handle list is not a
   snapshot. A thread clones its Gc into a slot that has been passed (a freed slot, or a chunk
   newly put before the head) and drops the original before its slot is reached: no root is seen,
   and the data it still holds is condemned. The comment at 17-18 claims this cannot happen.
   `AtomicGc::new` is such a clone: its entry goes to a passed slot, the Gc it was made of is dropped
   before its slot is reached, and the AtomicGc, never cloned, points to freed data, which the comment
   at `atomic.rs` 70-72 calls impossible in safe code (and 42-43 says that `new` need not block the
   collector). This has no run of its own; `Programs = {{"new", "drop"}}` in `AtomicGc.cfg`
   shows it, as a violation of `AtomicGcNeverDangles` in a dozen steps.
2. **DestructorScan** (`mod.rs` 252). A destructor stows a clone of a Gc that points to data
   condemned with its own. `clone_handle` does not look at `deallocated`. The next collection takes
   the clone for a root; its data left the list with a non-zero mark, so the search scans freed
   data, against the "Essential note" at `collect_impl.rs` 90-91.
3. **CyclicWindow** (`gc.rs` 141). `new_cyclic` clears the `deallocated` flag before
   `track_with_initializer` writes the value; a clone that the closure gave to another thread can
   be dereferenced in between. The finalizer variant (`gc.rs` 161-196) does the same.
4. **AtomicClone** (`atomic.rs` 22). The derived `Clone` shares one entry of the handle list, and
   the first drop removes it: the other `AtomicGc` is no root any more, its data is freed.
5. **FinalizePanic** (`std_impls/collections.rs` 224). A finalizer that panics inside a tuple or a
   collection makes unwinding drop parts that were finalized, or dropped, before.

Smaller disagreements of code and docs, without a run: `synchronize_destructors` waits for batches
already sent, not for what another thread's collection has marked but not sent (`lib.rs` 171-172;
`run_with_gc_cleanup` is not affected, since its own `collect` waits for `gc_lock`). The trigger
compares with `>=` where `lib.rs` 127-135 says `>`, and collects on a deficit of handles and only
above a least number of allocations, neither of which the docs mention. `drop_handle` does not notify
the asynchronous thread, so a deficit that comes of drops alone waits for the next allocation:
`GrowthServed` is about growth past every percentage that is ever set.

## 4. Proofs

All theorems are about arbitrary constants, under the assumptions named in the modules. Every safety
property that a passing run checks is proved.

* **GuardedProofs**, the Lockout. `Inductive` adds to the invariants who owns the mutex in which state
  (`MutexOwned`), that an exclusive warrant is alone (`ExclusiveAlone`), and that a reader about to
  sleep has seen a signpost that is still there (`SleepJustified`): the last needs the mutex to be
  held from the look at the count to the wait, and the signpost to be cleared under it, which is the
  argument that no wake-up is lost. Proved: types, exactness of the counter, no lost wake-up, and
  that Lockout implements Warrants. Assumed: fewer readers than the signpost.
* **GuardedProofs**, the guards. Users and scans take `Lockout`'s steps or leave its variables alone, so its
  theorems carry over. `HeldInGuards` says that the inner lock is held inside a `GcGuard` or by the
  one worker that scans; `ScansAlone` that one worker at a time scans, under the exclusive warrant,
  and that in the search nobody has begun while the data is unmarked. With exactness of the
  counter, which makes the two holders exclude each other, `ScanFindsLockFree` and `ScanUnseen`
  follow.
* **AtomicProtectionProofs.** `TrackerCounts` with uniqueness of the exclusive guard is inductive;
  from it, the refinement of Warrants. The key is that a store of zero can lose only failed
  increments, because no inclusive guard exists while the exclusive one does.
* **AtomicGcProofs.** `ListsShape` ties holders, entries and data; `OperationsShape` says that what
  an operation was given stays live until its instruction; `SearchFinds` that during a collection
  what a Gc or an unstamped `AtomicGc` points to is found or its slot is still ahead, and what a
  stamped one points to is found once its data is marked; `GarbageUnreachable` that garbage stays so. No pointer moves during a collection
  because every instruction but `DropCell`'s is under an inclusive guard. Proved: the tracker and the
  refinement of Warrants, without conditions; and if no program makes handles out of its Gcs and
  drops Gcs in one root search (`NewOrDrop`; without it the first is false, finding 1): never
  dangling, reclaiming, `AtomicPointersFrozen`, types. An entry made in a passed slot is harmless then,
  because the Gc it was made of stays. The derived `Clone` is outside this specification (finding 4).
* **CollectorProofs**, first part. `Inductive` holds whatever mutators do during collections
  (`During` is arbitrary: the races of finding 1 included) and whatever destructors do. Its parts:
  nothing sent is lost between channel and destructor (`DropperShape`); the collection's SyncUp is
  the last message, and once answered the drop thread is idle until the batch is sent (`SyncShape`);
  tracked, condemned and sent data are disjoint (`DataShape`); handles under construction point to
  untracked data of their own (`HandleShape`); stamps are not from the future (`StampShape`).
  Together they make `WarrantsExclude` and `ScannedGraphFrozen` inductive: a Gc can enter or leave
  data only through a guard, which excludes the warrant, or in a destructor, which does not run.
  Also proved here: types, `DestructorsSynchronized`, `CondemnedOnce`, the drop thread's
  `FlagsBeforeDrops` and `DestroyedOnce`, and `CountNotBelowBaseline`.
* **CollectorProofs**, second part: that live data survives. Assumed: `ClonesOrDrops`, that no
  program both clones and drops in one collection; and, for `NoLiveDataReclaimed`,
  `OnlyWarrantedDataScanned` and the refinement, `NoDeadClones`, that destructors clone no Gc to data
  that is being destroyed. Findings 1 and 2 show that neither can be spared. `SafeInductive` is about
  `Doom`, the data condemned or, once the search is over, bound to be (`White`): `GraphSafe` says that
  only doomed data refers to doomed data, but for clones that destructors made (`Stray`: such data is
  flagged, so `get` panics and it is never borrowed). It is disturbed only when the search ends, and holds then because of `Searched`
  (nothing that the search has passed points to what it will not find), which comes of `RootsFound`:
  what a Gc outside warranted data points to is found already, or the Gc's slot is still ahead, or,
  when nothing is dropped, the slot of one that it was cloned from. `MarkShape` tells what marks
  mean in each phase, `PipelineShape` that there is one batch between collector and last destructor.
  From it: `NoLiveDataReclaimed`, `GuardedDataAlive`, `OnlyWarrantedDataScanned`,
  `GarbageReclaimed` (by `GarbageShape`) and the refinement of `AbstractGc`. `GuardedDataAlive` (by
  `GuardShape`: a borrowed Gc is on a stack, or in data whose destructor runs) and `GarbageReclaimed`
  are proved, under `ClonesOrDrops`, whatever destructors clone; but a collection that then scans freed memory (finding 2)
  goes on in the model as if it had found nothing there. Assumed besides: finitely many data,
  distinct locations.
* **DropperProofs.** Lemmas that `Collector` and `Cleanup` share: what each step of the drop thread
  does to the batch, the channel and what is destroyed, and that the SyncUp of a client that waits
  is in the channel until it is answered.
* **CleanupProofs.** The drop thread's queue is FIFO. `CleanupCovers` follows what a thread has lost
  from its collection's scan (`doomed`) to the batch and the channel; `SyncBehind` says that in the
  channel it is ahead of the SyncUp of the thread's `synchronize_destructors`, or in the batch at
  work or destroyed. So the answer comes after the destructors: `CleanupRunsDestructors`. What
  another thread condemns is covered because `gc_lock` is released only after the send.
* **ValuesProofs.** `PassShape`: in a pass over the parts all before `at` (in unwinding, before the
  `culprit`) have been ended and their buffers freed, but for the buffers of parts still `open` and for what is
  `leaked`, and nothing after it has been touched; the open parts are exactly those that `at` is inside, so that a
  part can be left only when all inside it is done. `StageShape` says which stage each deallocation
  action can be in, and that a finalizer's drop of its locals means `Botched`, that it panicked
  inside a tuple or a collection, where `EndsOnce` promises nothing (finding 5).
  `LeakShape` says that what is leaked is a table that a destructor panicked in, or was in one after
  that element. Proved: `HandlesReleased` and `EndsOnce`, each with its exception for tables, for
  values of any number of parts.
* **ChunkedListProofs.** `SlotShape` and `SlotOnce`: a slot of the list is in the free queue, in
  the hands of a worker, or filled, exactly one of these and once. The new chunk's slots belong to the
  thread whose exchange succeeded until it pushes them (`Pushes`). Hence `SlotsConserved` and
  `NoItemLost`. For walks, `Passed` says which slots a worker is done with, `PutIn` and
  `PlaceShape` that what is or was in a slot was put there by the one insertion of the item, so that
  no two workers load it, `CallShape` what a worker between load and call holds, `VisitShape` that what has been
  visited is gone or in a passed slot, and that what was present from the start has been visited
  once its slot is passed. Hence the refinement of `Enumeration`. `EstimateExact` balances the threads about
  to count with the items stored; it does not wrap because these threads have stored an item each.
  Assumed: finitely many threads, any chunk size.

### What liveness rests on

The liveness properties are for TLC alone, but the two ways in which waits could fail to end,
circular waits and lost notifications, are matters of safety and are excluded for any number of
threads. `NeverStuck` says in each module that while somebody waits, somebody can go on.

* `Lockout` (`LockoutNeverStuck`; `Guarded` inherits it): nobody sleeps with the mutex, its owner
  waits for nothing, and when all others sleep there is, by `NoLostWakeup`, a collection to come and
  notify them.
* The spinlock (`SpinlockNeverStuck`; `AtomicGc` inherits it): by `LockHeld`, a thread that holds
  `gc_lock` is in a collection or leaving the lock it blocked on, and one that spins waits for
  operations inside, none of which asks for `gc_lock`; the tracker's exactness says that there are
  some.
* `Collector` (`CollectorNeverStuck`): a collection that synchronizes with the drop thread has its
  SyncUp in the channel, and while destructors run it has no warrant, so that their `get` does not
  wait for the collection that waits for them.
* `Cleanup` (`CleanupNeverStuck`): the holder of `gc_lock` waits for the drop thread only, the drop
  thread for nobody.
* `GrowthNoticed` is the safety half of `GrowthServed`: an allocation past the trigger is followed by
  its notification, a pending notification by a check, a check by a collection, and the end of a
  collection lowers the excess. Assumed: the default percentage is not 0, as in the code (0.75).

Fairness, and that a thread which can go on gets its turn at a contended lock, are beyond these
theorems. So are destructors that call back into the collector, which do wait for themselves
(section 5).

Only model-checked: all liveness, for which the prover has no rules, and the findings.

## 5. Not modelled

Weak memory: all atomic operations are taken as sequentially consistent, although the lists and the
spinlock use weaker orderings. Overflow of 64-bit counters (assumptions) and rounding of `f32`.
Allocation failure. The contents of values, `Eq`, `Ord`, `Hash`, formatting, unsized coercions: they
take guards as `get` does. `clone` and `downcast` of `DerefGc`, which do to the handle list what those
of `Gc` do. `R` and `RMut`, which have neither scan nor finalizer, the marker traits, and the derive
macro, which is a dependency outside the repository. Errors of the channels: both ends live as long as
the process. Panics in user `scan` code, which the contract of the unsafe trait excludes. Destructors
that call `collect`, `synchronize_destructors` or an `AtomicGc`: they wait for the thread they run on.

## 6. What is left to do

1. `Collector` written over `Enumeration` in place of its handle and data slots.
2. An abort of the collection when a scan panics, and what the marks it leaves do to the next one.
3. Destructors that call back into the collector.
