------------------------------ MODULE Collector ------------------------------
(***************************************************************************)
(* The garbage collector: `Collector::do_collect` running against mutator  *)
(* threads that allocate, clone, move, drop and dereference `Gc`s, and     *)
(* against the destructors the drop thread runs.                           *)
(*                                                                         *)
(* A handle is one entry of the handle list (one `Gc` value); it also      *)
(* stands for its slot, so it is visited by an enumeration in progress or  *)
(* not according to whether that slot has been passed.  Mutator threads    *)
(* are not distinguished: what a Gc on any stack, or anywhere else outside *)
(* collected data, has in common is that the collector cannot see it.      *)
(***************************************************************************)
EXTENDS Dropper

CONSTANTS Handle,          \* entries of the handle list
          GcThread,        \* the client of the drop thread that runs do_collect
          Stack,           \* location of a Gc that is not inside collected data
          Gone,            \* location of a handle that does not exist
          Nothing,         \* what such a handle points to
          Program,         \* operations the mutators perform
          During,          \* those of them performed during the collection of each number
          DestructorMay,   \* what destructors do with the Gcs of the data they destroy
          MaxCollections   \* bound on the number of collections

Operation == {"alloc", "cyclic", "clone", "drop", "guard", "move"}

ASSUME ConstantsAssumption ==
    /\ IsFiniteSet(Data)
    /\ GcThread \in Client
    /\ Stack \notin Data /\ Gone \notin Data /\ Nothing \notin Data /\ Stack # Gone
    /\ Program \subseteq Operation
    /\ 2 .. 1 + MaxCollections \subseteq DOMAIN During
    /\ \A n \in DOMAIN During : During[n] \subseteq Program
    /\ DestructorMay \subseteq {"get", "cloneLive", "cloneDead"}
    /\ MaxCollections \in Nat

VARIABLES holder,     \* where each Gc is: inside a piece of data, on a stack, or gone
          points,     \* the data each handle points to (underlying_data, Fixed)
          access,     \* how far its owner has got in constructing or dereferencing it
          stamp,      \* GcHandle.last_non_rooted
          used,       \* data allocated so far
          written,    \* data whose value has been written into the allocation
          tracked,    \* contents of the data list
          mark,       \* GcData.last_marked, 0 for new data
          excl,       \* data whose exclusive warrant the collection holds
          phase,      \* the step of do_collect
          number,     \* current_collection_number
          dataSlots,  \* data-list slots the current par_iter/par_retain has not passed
          handleSlots,\* handle-list slots the root enumeration has not passed
          queue,      \* data of the handles in the depth-first search's queue
          condemned,  \* the to_drop vector
          baseline,   \* the trigger's data_count_at_last_collection
          garbage     \* history: tracked data unreachable when the scan began

mutatorVars   == <<holder, points, access, used, written>>
collectorVars == <<phase, dataSlots, handleSlots, queue, condemned, excl,
                   number, baseline, garbage>>
vars == <<mutatorVars, stamp, tracked, mark, collectorVars, dropperVars>>

\* States of `access` in which the Gc still belongs to the function constructing it:
\* the closure of new_cyclic runs, it has returned, the value is in place.
Constructing == {"closure", "returned", "written"}
Access == Constructing \cup {"none", "checked", "guard"}
Phase  == {"idle", "sync", "scan", "roots", "mark", "retain"}

TypeOK ==
    /\ DropperTypeOK
    /\ holder \in [Handle -> Data \cup {Stack, Gone}]
    /\ points \in [Handle -> Data \cup {Nothing}]
    /\ access \in [Handle -> Access]
    /\ stamp \in [Handle -> Nat]
    /\ used \subseteq Data
    /\ written \subseteq used
    /\ tracked \subseteq used
    /\ mark \in [Data -> Nat]
    /\ excl \subseteq tracked
    /\ phase \in Phase
    /\ number \in Nat /\ number >= 2
    /\ dataSlots \subseteq Data
    /\ handleSlots \subseteq Handle
    /\ queue \subseteq used
    /\ condemned \subseteq used
    /\ baseline \in Nat
    /\ garbage \subseteq Data

Init ==
    /\ DropperInit
    /\ holder = [h \in Handle |-> Gone]
    /\ points = [h \in Handle |-> Nothing]
    /\ access = [h \in Handle |-> "none"]
    /\ stamp = [h \in Handle |-> 0]
    /\ used = {} /\ written = {} /\ tracked = {}
    /\ mark = [d \in Data |-> 0]
    /\ excl = {}
    /\ phase = "idle"
    /\ number = 2
    /\ dataSlots = {} /\ handleSlots = {} /\ queue = {} /\ condemned = {}
    /\ baseline = 0
    /\ garbage = {}

-----------------------------------------------------------------------------
(* What a mutator can reach, and what it holds.                            *)

Exists(h)   == holder[h] # Gone
Inside(d)   == {h \in Handle : holder[h] = d}
Guarded(d)  == \E h \in Handle : access[h] = "guard" /\ points[h] = d
OnStack     == {h \in Handle : holder[h] = Stack}

\* A Gc its owner may move or drop: no borrow of it is alive.
Unborrowed(h) == holder[h] = Stack /\ access[h] = "none"

\* A Gc some mutator can read: a constructed one on a stack, or one inside data
\* that is guarded.
Visible(h) == \/ holder[h] = Stack /\ access[h] \notin Constructing
              \/ holder[h] \in Data /\ Guarded(holder[h])

\* The smallest set of data that holds what every stack Gc and every Gc inside it
\* points to.
Closed(S)  == \A h \in Handle : holder[h] \in S \cup {Stack} => points[h] \in S
Reachable  == {d \in Data : \A S \in SUBSET Data : Closed(S) => d \in S}

\* Data that has left the data list (track_from_token is what puts it there).
InSetup(d)  == \E h \in Handle : points[h] = d /\ access[h] \in Constructing
Reclaimed   == {d \in used \ tracked : ~InSetup(d)}

Performs(op) == op \in (IF phase = "idle" THEN Program ELSE During[number])

-----------------------------------------------------------------------------
(* Mutators.                                                               *)

\* A fresh handle h to d, located at loc.
NewHandle(h, d, loc) ==
    /\ ~Exists(h)
    /\ points' = [points EXCEPT ![h] = d]
    /\ stamp' = [stamp EXCEPT ![h] = 0]

\* Gc::new and its variants: the value, with the Gcs S the caller moved into it, is
\* written into a new allocation and the handle enters the handle list.
SetupGcReference(h, d, S) ==
    /\ Performs("alloc")
    /\ d \notin used
    /\ S \subseteq {g \in Handle : Unborrowed(g)}
    /\ NewHandle(h, d, Stack)
    /\ holder' = [g \in Handle |-> IF g = h THEN Stack ELSE IF g \in S THEN d ELSE holder[g]]
    /\ access' = [access EXCEPT ![h] = "written"]
    /\ used' = used \cup {d}
    /\ written' = written \cup {d}
    /\ UNCHANGED <<tracked, mark, collectorVars, dropperVars>>

\* track_from_token: the data enters the data list and the Gc is returned.
TrackFromToken(h) ==
    /\ access[h] = "written"
    /\ access' = [access EXCEPT ![h] = "none"]
    /\ tracked' = tracked \cup {points[h]}
    /\ UNCHANGED <<holder, points, stamp, used, written, mark, collectorVars, dropperVars>>

\* Gc::new_cyclic up to the call of the closure: uninitialised memory, the handle h
\* of the result, a second handle g given to the closure, and the deallocated flag
\* set so that nobody gets at the memory.
BeginCyclic(h, g, d) ==
    /\ Performs("cyclic")
    /\ d \notin used
    /\ h # g /\ ~Exists(h) /\ ~Exists(g)
    /\ holder' = [holder EXCEPT ![h] = Stack, ![g] = Stack]
    /\ points' = [points EXCEPT ![h] = d, ![g] = d]
    /\ stamp' = [stamp EXCEPT ![h] = 0, ![g] = 0]
    /\ access' = [access EXCEPT ![h] = "closure"]
    /\ used' = used \cup {d}
    /\ deallocated' = deallocated \cup {d}
    /\ UNCHANGED <<written, tracked, mark, collectorVars, channel, stage, batch, pending,
                   running, destroyed, sync, sent>>

\* The closure returns a value holding the Gcs S, and the flag is cleared.
ClosureReturns(h, S) ==
    /\ access[h] = "closure"
    /\ S \subseteq {g \in Handle : Unborrowed(g)}
    /\ holder' = [g \in Handle |-> IF g \in S THEN points[h] ELSE holder[g]]
    /\ access' = [access EXCEPT ![h] = "returned"]
    /\ deallocated' = deallocated \ {points[h]}
    /\ UNCHANGED <<points, stamp, used, written, tracked, mark, collectorVars, channel, stage,
                   batch, pending, running, destroyed, sync, sent>>

\* track_with_initializer writes the value the closure returned.
WriteValue(h) ==
    /\ access[h] = "returned"
    /\ access' = [access EXCEPT ![h] = "written"]
    /\ written' = written \cup {points[h]}
    /\ UNCHANGED <<holder, points, stamp, used, tracked, mark, collectorVars, dropperVars>>

\* Gc::clone of a Gc the mutator can read; the copy is on its stack.
Clone(h, g) ==
    /\ Performs("clone")
    /\ Visible(h)
    /\ NewHandle(g, points[h], Stack)
    /\ holder' = [holder EXCEPT ![g] = Stack]
    /\ UNCHANGED <<access, used, written, tracked, mark, collectorVars, dropperVars>>

\* Drop of a Gc: its entry leaves the handle list.
DropHandle(h) ==
    /\ Performs("drop")
    /\ Unborrowed(h)
    /\ holder' = [holder EXCEPT ![h] = Gone]
    /\ points' = [points EXCEPT ![h] = Nothing]
    /\ stamp' = [stamp EXCEPT ![h] = 0]
    /\ UNCHANGED <<access, used, written, tracked, mark, collectorVars, dropperVars>>

\* Mutant: Gc::get does not look at the flag.
MutantUncheckedGet(h) ==
    /\ \/ Performs("guard") /\ Unborrowed(h)
       \/ "get" \in DestructorMay /\ holder[h] \in running /\ access[h] = "none"
    /\ access' = [access EXCEPT ![h] = "checked"]
    /\ UNCHANGED <<holder, points, stamp, used, written, tracked, mark, collectorVars, dropperVars>>

\* Gc::get, first half: the deallocated flag is read (set: the call panics).
\* A destructor may do it with the Gcs of the data being destroyed.
CheckDeallocated(h) ==
    /\ \/ Performs("guard") /\ Unborrowed(h)
       \/ "get" \in DestructorMay /\ holder[h] \in running /\ access[h] = "none"
    /\ points[h] \notin deallocated
    /\ access' = [access EXCEPT ![h] = "checked"]
    /\ UNCHANGED <<holder, points, stamp, used, written, tracked, mark, collectorVars, dropperVars>>

\* Mutant: the signposted lockout does not stop the reader.
MutantGetWarrantAnyway(h) ==
    /\ access[h] = "checked"
    /\ access' = [access EXCEPT ![h] = "guard"]
    /\ UNCHANGED <<holder, points, stamp, used, written, tracked, mark, collectorVars, dropperVars>>

\* Gc::get, second half: Lockout::get_warrant blocks while the data is warranted
\* exclusively to the collection.
GetWarrant(h) ==
    /\ access[h] = "checked"
    /\ points[h] \notin excl
    /\ access' = [access EXCEPT ![h] = "guard"]
    /\ UNCHANGED <<holder, points, stamp, used, written, tracked, mark, collectorVars, dropperVars>>

\* The GcGuard is dropped.
ReleaseGuard(h) ==
    /\ access[h] = "guard"
    /\ access' = [access EXCEPT ![h] = "none"]
    /\ UNCHANGED <<holder, points, stamp, used, written, tracked, mark, collectorVars, dropperVars>>

\* Interior mutation through a guard g: a Gc moves from the stack into the data, or out.
MoveIn(h, g) ==
    /\ Performs("move")
    /\ access[g] = "guard"
    /\ Unborrowed(h)
    /\ holder' = [holder EXCEPT ![h] = points[g]]
    /\ UNCHANGED <<points, access, stamp, used, written, tracked, mark, collectorVars, dropperVars>>

MoveOut(h, g) ==
    /\ Performs("move")
    /\ access[g] = "guard"
    /\ holder[h] = points[g] /\ access[h] = "none"
    /\ holder' = [holder EXCEPT ![h] = Stack]
    /\ UNCHANGED <<points, access, stamp, used, written, tracked, mark, collectorVars, dropperVars>>

-----------------------------------------------------------------------------
(* Destructors.                                                            *)

\* A destructor clones a Gc of the data it destroys and stows the copy outside;
\* clone_handle does not look at the deallocated flag, so the destructor can do it
\* whether the Gc is one it could dereference or not.
DestructorClone(h, g) ==
    /\ holder[h] \in running
    /\ \/ points[h] \notin deallocated /\ "cloneLive" \in DestructorMay
       \/ points[h] \in deallocated /\ "cloneDead" \in DestructorMay
    /\ NewHandle(g, points[h], Stack)
    /\ holder' = [holder EXCEPT ![g] = Stack]
    /\ UNCHANGED <<access, used, written, tracked, mark, collectorVars, dropperVars>>

\* `deallocate` ends.  In every DeallocationAction the Gcs inside the data are
\* invalidated, also when a destructor panics and the rest is dropped in unwinding.  (A
\* Gc that a HashMap or HashSet leaks when a destructor panics inside stays in the list:
\* as if the destructor had kept a clone of it, DestructorClone.)
Deallocate(d, panicked) ==
    /\ EndDeallocate(d, panicked)
    /\ \A h \in Inside(d) : access[h] = "none"
    /\ holder' = [h \in Handle |-> IF holder[h] = d THEN Gone ELSE holder[h]]
    /\ points' = [h \in Handle |-> IF holder[h] = d THEN Nothing ELSE points[h]]
    /\ stamp' = [h \in Handle |-> IF holder[h] = d THEN 0 ELSE stamp[h]]
    /\ UNCHANGED <<access, used, written, tracked, mark, collectorVars>>

-----------------------------------------------------------------------------
(* The collection, one step per slot visited.                              *)

\* gc_lock and the exclusive spinlock are taken, then the drop thread is asked to
\* synchronize.
BeginCollection ==
    /\ phase = "idle"
    /\ number < 2 + MaxCollections
    /\ phase' = "sync"
    /\ SendSync(GcThread)
    /\ UNCHANGED <<mutatorVars, stamp, tracked, mark, dataSlots, handleSlots, queue,
                   condemned, excl, number, baseline, garbage>>

\* Mutant: the collection does not wait for the drop thread.
MutantBeginScanUnsynchronized ==
    /\ phase = "sync"
    /\ phase' = "scan"
    /\ dataSlots' = Data
    /\ garbage' = tracked \ Reachable
    /\ sync' = [sync EXCEPT ![GcThread] = "none"]
    /\ channel' = SelectSeq(channel, LAMBDA m : m.kind = "data")
    /\ UNCHANGED <<mutatorVars, stamp, tracked, mark, handleSlots, queue, condemned, excl,
                   number, baseline, stage, batch, pending, running, deallocated, destroyed, sent>>

BeginScan ==
    /\ phase = "sync"
    /\ SyncReturns(GcThread)
    /\ phase' = "scan"
    /\ dataSlots' = Data
    /\ garbage' = tracked \ Reachable
    /\ UNCHANGED <<mutatorVars, stamp, tracked, mark, handleSlots, queue, condemned, excl,
                   number, baseline>>

\* Mutant: data in use is not marked.
MutantBusyUnmarked(d) ==
    /\ d \in tracked
    /\ mark' = [mark EXCEPT ![d] = IF @ = 0 THEN number - 1 ELSE @]
    /\ IF Guarded(d)
       THEN UNCHANGED <<excl, stamp>>
       ELSE /\ excl' = excl \cup {d}
            /\ stamp' = [h \in Handle |-> IF holder[h] = d THEN number ELSE stamp[h]]

\* Mutant: new data does not join the collection.
MutantNewDataLeft(d) ==
    /\ d \in tracked
    /\ IF Guarded(d)
       THEN /\ mark' = [mark EXCEPT ![d] = number]
            /\ UNCHANGED <<excl, stamp>>
       ELSE /\ excl' = excl \cup {d}
            /\ stamp' = [h \in Handle |-> IF holder[h] = d THEN number ELSE stamp[h]]
            /\ UNCHANGED mark

\* New data joins the collection; data that is in use is marked, any other is
\* warranted and the handles inside it are stamped as not rooted.
ScanData(d) ==
    /\ d \in tracked
    /\ IF Guarded(d)
       THEN /\ mark' = [mark EXCEPT ![d] = number]
            /\ UNCHANGED <<excl, stamp>>
       ELSE /\ mark' = [mark EXCEPT ![d] = IF @ = 0 THEN number - 1 ELSE @]
            /\ excl' = excl \cup {d}
            /\ stamp' = [h \in Handle |-> IF holder[h] = d THEN number ELSE stamp[h]]

ScanSlot(d) ==
    /\ phase = "scan"
    /\ d \in dataSlots
    /\ dataSlots' = dataSlots \ {d}
    /\ \/ ScanData(d)
       \/ d \notin tracked /\ UNCHANGED <<mark, excl, stamp>>
    /\ UNCHANGED <<mutatorVars, tracked, phase, handleSlots, queue, condemned, number,
                   baseline, garbage, dropperVars>>

EndScan ==
    /\ phase = "scan"
    /\ dataSlots = {}
    /\ phase' = "roots"
    /\ handleSlots' = Handle
    /\ UNCHANGED <<mutatorVars, stamp, tracked, mark, dataSlots, queue, condemned, excl,
                   number, baseline, garbage, dropperVars>>

\* Mutant: a handle ever found inside data is taken for non-rooted for good.
MutantStaleStamp(h) ==
    /\ phase = "roots"
    /\ h \in handleSlots
    /\ handleSlots' = handleSlots \ {h}
    /\ queue' = IF Exists(h) /\ stamp[h] = 0 THEN queue \cup {points[h]} ELSE queue
    /\ UNCHANGED <<mutatorVars, stamp, tracked, mark, phase, dataSlots, condemned, excl,
                   number, baseline, garbage, dropperVars>>

\* A handle whose stamp is not the current number is a root.  Loading its slot and the
\* call of the closure are one step: a call on a handle removed in between only adds a
\* root for data that was reachable when the slot was loaded.
VisitHandleSlot(h) ==
    /\ phase = "roots"
    /\ h \in handleSlots
    /\ handleSlots' = handleSlots \ {h}
    /\ queue' = IF Exists(h) /\ stamp[h] # number THEN queue \cup {points[h]} ELSE queue
    /\ UNCHANGED <<mutatorVars, stamp, tracked, mark, phase, dataSlots, condemned, excl,
                   number, baseline, garbage, dropperVars>>

EndRoots ==
    /\ phase = "roots"
    /\ handleSlots = {}
    /\ phase' = "mark"
    /\ UNCHANGED <<mutatorVars, stamp, tracked, mark, dataSlots, handleSlots, queue,
                   condemned, excl, number, baseline, garbage, dropperVars>>

\* Mutant: the search marks the roots' data and does not follow it.
MutantShallowMark(d) ==
    /\ phase = "mark"
    /\ d \in queue
    /\ queue' = queue \ {d}
    /\ mark' = IF mark[d] = 0 THEN mark ELSE [mark EXCEPT ![d] = number]
    /\ UNCHANGED <<mutatorVars, stamp, tracked, phase, dataSlots, handleSlots, condemned,
                   excl, number, baseline, garbage, dropperVars>>

\* One step of the search: new data and data already marked are skipped, other data
\* is marked and the unmarked data its Gcs point to are queued.
MarkData(d) ==
    /\ phase = "mark"
    /\ d \in queue
    /\ IF mark[d] \in {0, number}
       THEN queue' = queue \ {d} /\ UNCHANGED mark
       ELSE /\ mark' = [mark EXCEPT ![d] = number]
            /\ queue' = (queue \ {d}) \cup
                        {e \in {points[h] : h \in Inside(d)} : mark'[e] # number}
    /\ UNCHANGED <<mutatorVars, stamp, tracked, phase, dataSlots, handleSlots, condemned,
                   excl, number, baseline, garbage, dropperVars>>

\* Mutant: the warrants outlive the search.
MutantWarrantsKept ==
    /\ phase = "mark"
    /\ queue = {}
    /\ phase' = "retain"
    /\ dataSlots' = Data
    /\ UNCHANGED <<mutatorVars, stamp, tracked, mark, excl, handleSlots, queue, condemned,
                   number, baseline, garbage, dropperVars>>

\* The search is over; the warrants are released.
EndMark ==
    /\ phase = "mark"
    /\ queue = {}
    /\ phase' = "retain"
    /\ excl' = {}
    /\ dataSlots' = Data
    /\ UNCHANGED <<mutatorVars, stamp, tracked, mark, handleSlots, queue, condemned, number,
                   baseline, garbage, dropperVars>>

\* Mutant: data allocated during the collection is not spared.
MutantNewDataCondemned(d) ==
    /\ d \in tracked
    /\ IF mark[d] = number
       THEN UNCHANGED <<tracked, condemned>>
       ELSE tracked' = tracked \ {d} /\ condemned' = condemned \cup {d}
    /\ UNCHANGED mark

\* New data is marked; marked data stays, the rest leaves the list.
RetainData(d) ==
    /\ d \in tracked
    /\ mark' = [mark EXCEPT ![d] = IF @ = 0 THEN number ELSE @]
    /\ IF mark'[d] = number
       THEN UNCHANGED <<tracked, condemned>>
       ELSE tracked' = tracked \ {d} /\ condemned' = condemned \cup {d}

RetainSlot(d) ==
    /\ phase = "retain"
    /\ d \in dataSlots
    /\ dataSlots' = dataSlots \ {d}
    /\ \/ RetainData(d)
       \/ d \notin tracked /\ UNCHANGED <<mark, tracked, condemned>>
    /\ UNCHANGED <<mutatorVars, stamp, phase, handleSlots, queue, excl, number, baseline,
                   garbage, dropperVars>>

\* Mutant: the baseline counts the data before the batch left the list.
MutantStaleBaseline ==
    /\ phase = "retain"
    /\ dataSlots = {}
    /\ SendData(condemned)
    /\ baseline' = Cardinality(tracked \cup condemned)
    /\ number' = number + 1
    /\ phase' = "idle"
    /\ condemned' = {}
    /\ garbage' = {}
    /\ UNCHANGED <<mutatorVars, stamp, tracked, mark, dataSlots, handleSlots, queue, excl>>

\* Mutant: the to_drop vector is reused without being cleared.
MutantBatchKept ==
    /\ phase = "retain"
    /\ dataSlots = {}
    /\ SendData(condemned)
    /\ baseline' = Cardinality(tracked)
    /\ number' = number + 1
    /\ phase' = "idle"
    /\ garbage' = {}
    /\ UNCHANGED <<mutatorVars, stamp, tracked, mark, dataSlots, handleSlots, queue, excl,
                   condemned>>

\* The batch is sent, the trigger gets its new baseline, the number advances and
\* the locks are released; in the code one after the other, so that destructors may
\* start before the locks are released.
FinishCollection ==
    /\ phase = "retain"
    /\ dataSlots = {}
    /\ SendData(condemned)
    /\ baseline' = Cardinality(tracked)
    /\ number' = number + 1
    /\ phase' = "idle"
    /\ condemned' = {}
    /\ garbage' = {}
    /\ UNCHANGED <<mutatorVars, stamp, tracked, mark, dataSlots, handleSlots, queue, excl>>

-----------------------------------------------------------------------------
Mutator ==
    \/ \E h \in Handle, d \in Data, S \in SUBSET Handle : SetupGcReference(h, d, S)
    \/ \E h, g \in Handle, d \in Data : BeginCyclic(h, g, d)
    \/ \E h \in Handle, S \in SUBSET Handle : ClosureReturns(h, S)
    \/ \E h, g \in Handle : Clone(h, g) \/ MoveIn(h, g) \/ MoveOut(h, g)
    \/ \E h \in Handle : \/ TrackFromToken(h) \/ WriteValue(h) \/ DropHandle(h)
                         \/ CheckDeallocated(h) \/ GetWarrant(h) \/ ReleaseGuard(h)

Destruction ==
    \/ DropThread /\ UNCHANGED <<mutatorVars, stamp, tracked, mark, collectorVars>>
    \/ \E d \in Data, panicked \in BOOLEAN : Deallocate(d, panicked)
    \/ \E h, g \in Handle : DestructorClone(h, g)

Collection ==
    \/ BeginCollection \/ BeginScan \/ EndScan \/ EndRoots \/ EndMark \/ FinishCollection
    \/ \E d \in Data : ScanSlot(d) \/ MarkData(d) \/ RetainSlot(d)
    \/ \E h \in Handle : VisitHandleSlot(h)

Next == Mutator \/ Destruction \/ Collection

Spec == Init /\ [][Next]_vars
-----------------------------------------------------------------------------
(* Safety.                                                                 *)

\* Data a mutator can still get at through the Gcs it holds is never condemned,
\* let alone dropped: the promise of the collector.
NoLiveDataReclaimed == Reachable \cap Reclaimed = {}

\* collect_impl.rs, the search: "Essential note! All non-new non-warranted data is
\* automatically marked. Thus we will never accidentally scan non-warranted data".
\* What the search will scan, it holds the exclusive warrant of.
OnlyWarrantedDataScanned ==
    phase = "mark" => \A d \in queue : mark[d] \notin {0, number} => d \in excl

\* Nobody dereferences, or mutates, data while the collection holds its exclusive
\* warrant.
WarrantsExclude ==
    \A h \in Handle : access[h] = "guard" => points[h] \notin excl

\* No guard is on data whose destructor has started: the one check of the flag in
\* Gc::get is not overtaken by the collection before the guard is dropped.
GuardedDataAlive ==
    \A h \in Handle : access[h] = "guard" => points[h] \notin running \cup destroyed

\* A Gc inside data the collection has scanned stays where the scan found it until
\* the search has used it: the object graph the search walks does not move.
ScannedGraphFrozen ==
    phase \in {"scan", "roots", "mark"} =>
        \A h \in Handle : stamp[h] = number <=> holder[h] \in excl

\* No destructor runs, and no batch waits, while the collection scans, looks for
\* roots or searches: it never sees the Gcs of condemned data as roots.
DestructorsSynchronized ==
    phase \in {"scan", "roots", "mark", "retain"} =>
        /\ running = {} /\ pending = {}
        /\ sent \subseteq destroyed

\* Data is condemned once: what is sent to the drop thread was never sent before.
CondemnedOnce == condemned \cap (sent \cup tracked) = {}

\* Everything that was tracked and unreachable when the scan began is gone when the
\* collection ends, cycles included, whatever mutators and destructors did meanwhile.
GarbageReclaimed ==
    phase = "retain" /\ dataSlots = {} => garbage \cap tracked = {}

\* The trigger's `current_data_count - data_count_at_last_collection` does not wrap:
\* outside a collection the list never holds less than the baseline.
CountNotBelowBaseline == phase = "idle" => baseline <= Cardinality(tracked)

\* Deadlock freedom: a collection that waits for the drop thread has given it something to
\* do, and a destructor that calls get never waits for a warrant to be given back, for which
\* the collection would have to go on.
NeverStuck ==
    /\ phase = "sync" => sync[GcThread] = "answered" \/ channel # <<>>
    /\ running # {} => excl = {}

-----------------------------------------------------------------------------
(* The strengthening that makes WarrantsExclude, DestructorsSynchronized,  *)
(* ScannedGraphFrozen and CondemnedOnce inductive.                         *)

\* The collector's SyncUp is the last message there is, and once it is answered the
\* drop thread has nothing to do until the next batch.
Quiet == /\ channel = <<>> /\ stage = "recv"
         /\ batch = {} /\ pending = {} /\ running = {}
         /\ sent \subseteq destroyed

SyncShape ==
    /\ \A i \in DOMAIN channel : channel[i].kind = "sync" =>
          i = Len(channel) /\ channel[i].from = GcThread /\ sync[GcThread] = "waiting"
    /\ sync[GcThread] # "none" <=> phase = "sync"
    /\ sync[GcThread] = "answered" \/ phase \in {"scan", "roots", "mark", "retain"} => Quiet

\* Warrants and condemned data exist during their phases only; data is under
\* construction, tracked, condemned or sent.
DataShape ==
    /\ excl # {} => phase \in {"scan", "roots", "mark"}
    /\ condemned # {} => phase = "retain"
    /\ tracked \cap (condemned \cup sent) = {} /\ condemned \cap sent = {}
    /\ sent \subseteq used

HandleShape ==
    /\ \A h \in Handle : Exists(h) => points[h] \in used
    /\ \A h \in Handle : access[h] # "none" => Exists(h)
    /\ \A h \in Handle : access[h] \in Constructing =>
          holder[h] = Stack /\ points[h] \notin tracked \cup condemned \cup sent
    /\ \A g, h \in Handle :
          access[g] \in Constructing /\ access[h] \in Constructing /\ points[g] = points[h]
          => g = h

\* Stamps are not from the future.
StampShape ==
    \A h \in Handle : stamp[h] <= number /\ (phase \in {"idle", "sync"} => stamp[h] < number)

Inductive ==
    /\ TypeOK
    /\ DropperShape /\ SyncShape /\ DataShape /\ HandleShape /\ StampShape
    /\ WarrantsExclude /\ ScannedGraphFrozen

-----------------------------------------------------------------------------
(* The strengthening that makes GuardedDataAlive and GarbageReclaimed      *)
(* inductive, for programs that in one collection clone or drop Gcs, not   *)
(* both; and NoLiveDataReclaimed and OnlyWarrantedDataScanned, if besides  *)
(* destructors clone no Gc to data that is being destroyed.                *)

ClonesOrDrops ==
    \A n \in DOMAIN During : "clone" \notin During[n] \/ "drop" \notin During[n]

NoDeadClones == "cloneDead" \notin DestructorMay

Dead  == condemned \cup sent
White == {d \in tracked : mark[d] \notin {0, number}}
Doom  == Dead \cup (IF phase = "retain" THEN White ELSE {})

\* There is one batch between the collector and the end of its last destructor, and
\* what has been destroyed is flagged.
PipelineShape ==
    /\ \A i \in DOMAIN channel : IsData(i) => stage = "recv"
    /\ \A i, j \in DOMAIN channel : IsData(i) /\ IsData(j) => i = j
    /\ destroyed \subseteq deallocated

\* All data is accounted for, nothing is inside destroyed data, and new data is unmarked.
HeapShape ==
    /\ number >= 2 /\ (phase # "idle" => number < 2 + MaxCollections)
    /\ used \subseteq tracked \cup Dead \cup {d \in Data : InSetup(d)}
    /\ \A d \in Data \ (tracked \cup Dead) : mark[d] = 0
    /\ \A h \in Handle : holder[h] \in Data => holder[h] \in used \ destroyed

\* How far the collection has got with the marks.
MarkShape ==
    /\ \A d \in Data : mark[d] <= number
    /\ phase \in {"idle", "sync"} => \A d \in Data : mark[d] < number
    /\ phase = "scan" =>
          /\ excl \cap dataSlots = {}
          /\ \A d \in dataSlots : mark[d] < number
          /\ \A d \in tracked \ (dataSlots \cup excl) : mark[d] \in {0, number}
    /\ \A d \in excl : mark[d] # 0 /\ (phase \in {"scan", "roots"} => mark[d] < number)
    /\ phase \in {"roots", "mark"} => \A d \in tracked \ excl : mark[d] \in {0, number}
    /\ phase = "retain" => White \subseteq dataSlots

\* A borrowed Gc is on a stack or in data whose destructor runs, and points to nothing
\* that is doomed.
GuardShape ==
    \A h \in Handle : access[h] \in {"checked", "guard"} =>
        holder[h] \in {Stack} \cup running /\ points[h] \notin Doom

\* What a destructor's clones may have kept within reach: it is flagged.
Stray(d) == d \in sent \cap deallocated /\ ~NoDeadClones

\* Only doomed data refers to doomed data, but for those clones.
GraphSafe ==
    \A h \in Handle : Exists(h) /\ holder[h] \notin Doom /\ points[h] \in Doom => Stray(points[h])

QueueShape ==
    /\ queue # {} => phase \in {"roots", "mark"}
    /\ \A d \in queue \cap Dead : Stray(d)

Safe(d) == mark[d] \in {0, number} \/ d \in queue

\* What a Gc outside the warranted data points to is found, or will be: the Gc's slot is
\* still to be visited, or, if nothing is dropped, another one's that it was cloned from.
RootsFound ==
    phase = "roots" =>
        \A h \in Handle : Exists(h) /\ holder[h] \notin excl =>
            \/ Safe(points[h])
            \/ h \in handleSlots
            \/ /\ "drop" \notin During[number]
               /\ \E g \in handleSlots : /\ Exists(g) /\ holder[g] \notin excl
                                        /\ points[g] = points[h]

\* Nothing the search has passed, or need not visit, points to data it will not find.
Searched ==
    phase = "mark" =>
        \A h \in Handle :
            Exists(h) /\ (holder[h] \in excl => mark[holder[h]] = number) => Safe(points[h])

\* The garbage stays unreachable, warranted and unmarked.
GarbageShape ==
    /\ garbage # {} => phase \in {"scan", "roots", "mark", "retain"}
    /\ garbage \subseteq tracked \cup condemned /\ garbage \cap queue = {}
    /\ \A h \in Handle : Exists(h) /\ points[h] \in garbage => holder[h] \in garbage
    /\ \A d \in garbage \cap tracked :
          \/ phase = "scan" /\ d \in dataSlots
          \/ phase = "retain" /\ d \in dataSlots /\ mark[d] \notin {0, number}
          \/ phase # "retain" /\ d \in excl /\ mark[d] \notin {0, number}

SafeInductive ==
    /\ Inductive /\ DropperInductive
    /\ PipelineShape /\ HeapShape /\ MarkShape /\ GuardShape
    /\ GraphSafe /\ QueueShape /\ RootsFound /\ Searched /\ GarbageShape

-----------------------------------------------------------------------------
(* Liveness, under the fairness of the threads involved: the collecting    *)
(* thread and the drop thread are always runnable, and a destructor ends   *)
(* and does not keep the guards it takes.                                  *)

Fairness ==
    /\ WF_vars(Collection /\ phase # "idle")
    /\ WF_vars(DropThread /\ UNCHANGED <<mutatorVars, stamp, tracked, mark, collectorVars>>)
    /\ \A d \in Data : SF_vars(\E panicked \in BOOLEAN : Deallocate(d, panicked))
    /\ \A h \in Handle : WF_vars(holder[h] \in running /\ (GetWarrant(h) \/ ReleaseGuard(h)))

FairSpec == Spec /\ Fairness

\* Every collection ends: the wait for the drop thread is never circular with the
\* warrants the collection holds.
CollectionEnds == phase # "idle" ~> phase = "idle"
-----------------------------------------------------------------------------
\* alloc.rs: uninitialised memory "is safe as long as you don't access this
\* uninitialized memory".  A guard is only ever on data whose value has been written.
GuardedDataWritten == \A h \in Handle : access[h] = "guard" => points[h] \in written

-----------------------------------------------------------------------------
\* The collector implements what a collector promises: what has been sent to the drop
\* thread is what has been reclaimed.
Promise == INSTANCE AbstractGc WITH allocated <- used, reclaimed <- sent

\* Every step of the program and of the collection is one the promise allows: data is
\* reclaimed only when nothing reaches it, from a stack or from a destructor, and no Gc
\* dies under its owner.
ImplementsPromise == Promise!AbstractSpec

=============================================================================
