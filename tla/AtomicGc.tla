------------------------------ MODULE AtomicGc -------------------------------
(***************************************************************************)
(* AtomicGcs (src/atomic.rs): pointers to data that own nothing, kept from *)
(* dangling by an entry in the handle list and by the spinlock of          *)
(* AtomicProtection, which keeps their operations out of collections.      *)
(* An AtomicGc is on a stack or inside data; threads reach the ones inside *)
(* data through DerefGcs (src/smart_ptr/deref_gc.rs), which take no        *)
(* warrant.  A collection is reduced to what it does with those: it stamps *)
(* the AtomicGcs it finds inside data, takes the others and every Gc for   *)
(* roots, and follows pointers (module Collector has the rest).  `Gc`      *)
(* below is a Gc or a DerefGc; whose stack it is on makes no difference.   *)
(***************************************************************************)
EXTENDS AtomicProtection

CONSTANTS Data,
          Cell,       \* AtomicPtrs, each with the one handle-list entry of its AtomicGcs
          Stack,      \* places outside data for an AtomicGc
          Programs,   \* what programs do with Gcs while one collection looks for roots
          Nothing     \* what a cell without AtomicGcs points to

ASSUME AtomicGcAssumption ==
    /\ Nothing \notin Data
    /\ Data \cap Stack = {} /\ Data \cap Cell = {}
    /\ Programs # {} /\ Programs \subseteq SUBSET {"new", "drop"}

VARIABLES pointer,  \* atomic_ptr
          holders,  \* where the AtomicGcs of each cell are
          entries,  \* the cells whose entry is in the handle list
          gcs,      \* the data Gcs on stacks point to
          op,       \* the operation each thread is in, until its atomic instruction
          tracked,  \* contents of the data list
          freed,    \* data that was collected
          phase,    \* the step of the collection
          during,   \* the member of Programs it meets
          stamped,  \* cells found inside data by this collection
          slots,    \* handles it has still to visit: of each cell, and of stack Gcs
          queue,    \* data of the search's queue
          marked,   \* data marked by this collection, or new since it began
          garbage   \* history: the unreachable data when it began

dataVars == <<pointer, holders, entries, gcs, tracked, freed>>
scanVars == <<phase, during, stamped, slots, queue, marked, garbage>>
lockVars == <<tracker, gcLock, pc, calls>>
atomicVars == <<lockVars, dataVars, op, scanVars>>

NoOperation == [kind |-> "none"]
Operation ==
    [kind: {"load"}, cell: Cell]
      \cup [kind: {"store", "swap"}, cell: Cell, new: Data]
      \cup [kind: {"compare"}, cell: Cell, new: Data, current: Data]

AtomicGcTypeOK ==
    /\ TypeOK
    /\ pointer \in [Cell -> Data \cup {Nothing}]
    /\ holders \in [Cell -> SUBSET (Stack \cup Data)]
    /\ \A c \in Cell : holders[c] = {} <=> pointer[c] = Nothing
    /\ entries \subseteq Cell
    /\ gcs \subseteq Data
    /\ op \in [Reader -> Operation \cup {NoOperation}]
    /\ tracked \subseteq Data /\ freed \subseteq Data
    /\ phase \in {"none", "roots", "mark", "done"}
    /\ during \subseteq {"new", "drop"}
    /\ stamped \subseteq Cell
    /\ slots \subseteq Cell \cup Data
    /\ queue \subseteq Data /\ marked \subseteq Data /\ garbage \subseteq Data

AtomicGcInit ==
    /\ Init
    /\ pointer = [c \in Cell |-> Nothing]
    /\ holders = [c \in Cell |-> {}]
    /\ entries = {}
    /\ gcs = {}
    /\ op = [r \in Reader |-> NoOperation]
    /\ tracked = {} /\ freed = {}
    /\ phase = "none" /\ during = {}
    /\ stamped = {} /\ slots = {} /\ queue = {} /\ marked = {} /\ garbage = {}

-----------------------------------------------------------------------------
\* Mutant: AtomicGcs are not scanned.
MutantScanNothing(d) == {}

\* The cells scanning d reports.
ScanCells(d) == {c \in Cell : d \in holders[c]}

\* What stacks reach through Gcs, AtomicGcs and the AtomicGcs inside data.
Closed(S) ==
    /\ gcs \subseteq S
    /\ \A c \in Cell : holders[c] \cap (Stack \cup S) # {} => pointer[c] \in S
Reachable == {d \in Data : \A S \in SUBSET Data : Closed(S) => d \in S}

\* A thread can use an AtomicGc on a stack, or inside data it can deref.
Reaches(c) == holders[c] \cap (Stack \cup gcs) # {}

\* What the operations in progress borrow.
Pending == {op[r] : r \in Reader} \ {NoOperation}
CellBorrowed(c) == \E o \in Pending : o.cell = c
GcBorrowed(d) == \E o \in Pending :
    \/ d \in holders[o.cell]
    \/ o.kind # "load" /\ d = o.new
    \/ o.kind = "compare" /\ d = o.current

\* Mutant: liveness is not asserted.
MutantAssertNothing(d) == d \in Data

\* The deallocated flag is set before any destructor of the batch runs.
AssertLive(d) == d \notin freed

\* A Gc a thread may pass: one on its stack, or one a destructor finds in collected data.
Passed(d) == d \in gcs \cup freed

-----------------------------------------------------------------------------
(* What threads do without the spinlock, at any time.  Programs only says  *)
(* which of the programs there are to look at while a collection looks for *)
(* roots: "new", those that make handles out of Gcs they have (an AtomicGc *)
(* or another Gc); "drop", those that drop Gcs.                            *)

Performs(what) == phase = "roots" => what \in during

\* Gc::new or DerefGc::new of a value into which the AtomicGcs at the places P of the
\* cells S have been moved.
Allocate(d, S, P) ==
    /\ d \notin tracked \cup freed
    /\ \A c \in S : holders[c] \cap P # {} /\ ~CellBorrowed(c)
    /\ gcs' = gcs \cup {d}
    /\ holders' = [c \in Cell |-> IF c \in S THEN (holders[c] \ P) \cup {d} ELSE holders[c]]
    /\ tracked' = tracked \cup {d}
    /\ marked' = IF phase = "none" THEN marked ELSE marked \cup {d}
    /\ UNCHANGED <<lockVars, pointer, entries, freed, op, phase, during, stamped, slots, queue, garbage>>

\* Drop of the last stack Gc to d.
DropGc(d) ==
    /\ Performs("drop")
    /\ d \in gcs /\ ~GcBorrowed(d)
    /\ gcs' = gcs \ {d}
    /\ UNCHANGED <<lockVars, pointer, holders, entries, tracked, freed, op, scanVars>>

\* AtomicGc::new: a cell, and its entry in the handle list.
NewCell(c, d, s) ==
    /\ Performs("new")
    /\ holders[c] = {}
    /\ Passed(d) /\ AssertLive(d)
    /\ pointer' = [pointer EXCEPT ![c] = d]
    /\ holders' = [holders EXCEPT ![c] = {s}]
    /\ entries' = entries \cup {c}
    /\ UNCHANGED <<lockVars, gcs, tracked, freed, op, scanVars>>

\* The derived Clone copies the pointer to the cell and the reference to its entry.
CloneCell(c, s) ==
    /\ Reaches(c)
    /\ s \notin holders[c]
    /\ holders' = [holders EXCEPT ![c] = @ \cup {s}]
    /\ UNCHANGED <<lockVars, pointer, entries, gcs, tracked, freed, op, scanVars>>

\* The AtomicGcs of the cells S located at x are dropped: their entries leave the list.
Invalidate(S, x) ==
    /\ holders' = [c \in Cell |-> IF c \in S THEN holders[c] \ x ELSE holders[c]]
    /\ pointer' = [c \in Cell |-> IF holders'[c] = {} THEN Nothing ELSE pointer[c]]
    /\ entries' = entries \ S

DropCell(c, s) ==
    /\ s \in holders[c] /\ ~CellBorrowed(c)
    /\ Invalidate({c}, {s})
    /\ UNCHANGED <<lockVars, gcs, tracked, freed, op, scanVars>>

-----------------------------------------------------------------------------
(* The operations that take the spinlock.                                  *)

StartOperation(r, o) ==
    /\ Call(r, "try")
    /\ Reaches(o.cell)
    /\ o.kind # "load" => Passed(o.new) /\ AssertLive(o.new)
    /\ o.kind = "compare" => Passed(o.current)
    /\ op' = [op EXCEPT ![r] = o]
    /\ UNCHANGED <<dataVars, scanVars>>

GetCollectionBlocker(r) ==
    /\ LockInclusive(r) \/ BlockOnCollector(r) \/ Unblock(r)
    /\ UNCHANGED <<dataVars, op, scanVars>>

\* Mutant: the operation does not wait for the collection blocker.
MutantUnblocked(r, kind) == op[r].kind = kind

\* r is in an operation of this kind and has its collection blocker.
Blocking(r, kind) == op[r].kind = kind /\ pc[r] = "inside"

Finished(r) == op' = [op EXCEPT ![r] = NoOperation]

\* handle_from_data: a new handle in the list, for what the cell points to.
HandleFromData(c) == gcs' = gcs \cup {pointer[c]}

Load(r) ==
    /\ Blocking(r, "load")
    /\ HandleFromData(op[r].cell)
    /\ Finished(r)
    /\ UNCHANGED <<lockVars, pointer, holders, entries, tracked, freed, scanVars>>

Store(r) ==
    /\ Blocking(r, "store")
    /\ pointer' = [pointer EXCEPT ![op[r].cell] = op[r].new]
    /\ Finished(r)
    /\ UNCHANGED <<lockVars, holders, entries, gcs, tracked, freed, scanVars>>

Swap(r) ==
    /\ Blocking(r, "swap")
    /\ pointer' = [pointer EXCEPT ![op[r].cell] = op[r].new]
    /\ HandleFromData(op[r].cell)
    /\ Finished(r)
    /\ UNCHANGED <<lockVars, holders, entries, tracked, freed, scanVars>>

\* compare_and_swap and compare_exchange.
CompareExchange(r) ==
    /\ Blocking(r, "compare")
    /\ pointer' = [pointer EXCEPT ![op[r].cell] = IF @ = op[r].current THEN op[r].new ELSE @]
    /\ Finished(r)
    /\ UNCHANGED <<lockVars, holders, entries, gcs, tracked, freed, scanVars>>

EndOperation(r) ==
    /\ op[r] = NoOperation
    /\ DropInclusive(r)
    /\ UNCHANGED <<dataVars, op, scanVars>>

-----------------------------------------------------------------------------
(* The collection.                                                         *)

LockForCollection(w) ==
    /\ LockGc(w) \/ SpinLoad(w)
    /\ UNCHANGED <<dataVars, op, scanVars>>

\* With the exclusive guard, the scan of the data list stamps the cells inside data.
BeginCollection(w) ==
    /\ SwapSentinel(w)
    /\ IF pc'[w] = "collecting"
       THEN /\ phase' = "roots" /\ during' \in Programs
            /\ stamped' = UNION {ScanCells(d) : d \in tracked}
            /\ slots' = Cell \cup Data
            /\ queue' = {} /\ marked' = {}
            /\ garbage' = tracked \ Reachable
       ELSE UNCHANGED scanVars
    /\ UNCHANGED <<dataVars, op>>

\* The handles of the stack Gcs to d are roots.  (Here and in VisitCell loading a slot and
\* the call of the closure are one step: a handle removed in between only adds a root.)
VisitGcs(d) ==
    /\ phase = "roots" /\ d \in slots
    /\ slots' = slots \ {d}
    /\ queue' = queue \cup (gcs \cap {d})
    /\ UNCHANGED <<lockVars, dataVars, op, phase, during, stamped, marked, garbage>>

\* with_data of a DynamicForAtomic handle: the pointer is read as it is now.
WithData(c) == {pointer[c]} \ {Nothing}

\* A cell's entry is a root unless it was stamped.
VisitCell(c) ==
    /\ phase = "roots" /\ c \in slots
    /\ slots' = slots \ {c}
    /\ queue' = IF c \in entries \ stamped THEN queue \cup WithData(c) ELSE queue
    /\ UNCHANGED <<lockVars, dataVars, op, phase, during, stamped, marked, garbage>>

EndRoots ==
    /\ phase = "roots" /\ slots = {}
    /\ phase' = "mark" /\ during' = {}
    /\ UNCHANGED <<lockVars, dataVars, op, stamped, slots, queue, marked, garbage>>

\* The search: data new since the collection began is not scanned.
MarkData(d) ==
    /\ phase = "mark" /\ d \in queue
    /\ marked' = marked \cup {d}
    /\ queue' = (queue \ {d}) \cup
                (IF d \in marked THEN {} ELSE (UNION {WithData(c) : c \in ScanCells(d)}) \ marked')
    /\ UNCHANGED <<lockVars, dataVars, op, phase, during, stamped, slots, garbage>>

\* Unmarked data leaves the list, and its destructors drop the AtomicGcs inside.
Reclaim ==
    /\ phase = "mark" /\ queue = {}
    /\ phase' = "done"
    /\ tracked' = tracked \cap marked
    /\ freed' = freed \cup (tracked \ marked)
    /\ Invalidate(UNION {ScanCells(d) : d \in tracked \ marked}, tracked \ marked)
    /\ UNCHANGED <<lockVars, gcs, op, during, stamped, slots, queue, marked, garbage>>

EndCollection(w) ==
    /\ phase \in {"done", "none"}
    /\ UnlockGc(w) \/ DropExclusive(w)
    /\ phase' = "none"
    /\ stamped' = {} /\ marked' = {} /\ garbage' = {}
    /\ UNCHANGED <<dataVars, op, during, slots, queue>>

-----------------------------------------------------------------------------
InOperation(r) ==
    \/ GetCollectionBlocker(r) \/ EndOperation(r)
    \/ Load(r) \/ Store(r) \/ Swap(r) \/ CompareExchange(r)

InCollection(w) ==
    \/ SpinLoad(w) /\ UNCHANGED <<dataVars, op, scanVars>>
    \/ BeginCollection(w) \/ EndCollection(w)

Collecting ==
    \/ \E d \in Data : VisitGcs(d) \/ MarkData(d)
    \/ \E c \in Cell : VisitCell(c)
    \/ EndRoots \/ Reclaim

Unprotected ==
    \/ \E d \in Data : DropGc(d) \/ \E S \in SUBSET Cell, P \in SUBSET Stack : Allocate(d, S, P)
    \/ \E c \in Cell, s \in Stack : DropCell(c, s) \/ \E d \in Data : NewCell(c, d, s)

AtomicGcNext ==
    \/ Unprotected
    \/ \E r \in Reader : InOperation(r) \/ \E o \in Operation : StartOperation(r, o)
    \/ \E w \in Writer : LockForCollection(w) \/ InCollection(w)
    \/ Collecting

\* As in AtomicProtection; the collection's own work ends.
AtomicGcFairness ==
    /\ \A r \in Reader : SF_atomicVars(InOperation(r))
    /\ \A w \in Writer : SF_atomicVars(InCollection(w))
    /\ WF_atomicVars(Collecting)

AtomicGcSpec == AtomicGcInit /\ [][AtomicGcNext]_atomicVars /\ AtomicGcFairness

\* Programs that clone AtomicGcs as well.
CloningNext == AtomicGcNext \/ \E c \in Cell, s \in Stack : CloneCell(c, s)
CloningSpec == AtomicGcInit /\ [][CloningNext]_atomicVars

-----------------------------------------------------------------------------
\* What is assumed of programs, and no code enforces: none makes handles out of its Gcs
\* and drops Gcs too while the same collection looks for roots.  One that does can put an
\* AtomicGc's entry in a slot already passed and drop the Gc before its slot is reached;
\* the collection frees the data, and the AtomicGc, though never cloned, dangles.
NewOrDrop == {"new", "drop"} \notin Programs

\* atomic.rs, load: "otherwise someone would be accessing an AtomicGc pointing to freed
\* data--which is impossible in safe code".  No AtomicGc, on a stack or inside data,
\* points to collected data, and so no Gc that was loaded from one does: if programs
\* clone no AtomicGc, and keep to NewOrDrop.
AtomicGcNeverDangles ==
    /\ \A c \in Cell : pointer[c] \notin freed
    /\ gcs \cap freed = {}

\* atomic.rs, atomic_ptr: "It is only safe to read the data here if a collection is not
\* happening".  During a collection no pointer changes, except that an AtomicGc dropped
\* is gone: the root search and the depth-first search read the same graph.
AtomicPointersFrozen ==
    [][Exclusive # {} =>
          \A c \in Cell : pointer[c] \in {Nothing, pointer'[c]} \/ pointer'[c] = Nothing]_atomicVars

\* Data reachable only through AtomicGcs inside garbage is garbage, cycles included, and
\* goes with the collection that finds it.
AtomicGarbageReclaimed == phase = "done" => garbage \cap tracked = {}

\* What makes them inductive.  Each AtomicGc has an entry of its own in the handle list,
\* and with the Gcs points to data in the data list;
ListsShape ==
    /\ gcs \subseteq tracked
    /\ tracked \cap freed = {}
    /\ \A c \in Cell : /\ holders[c] # {} => c \in entries
                       /\ holders[c] \subseteq Stack \cup tracked
                       /\ \A x, y \in holders[c] : x = y
                       /\ pointer[c] \in tracked \cup {Nothing}

\* an operation keeps the cell, and the Gc it was passed, from being dropped;
OperationsShape ==
    \A r \in Reader : op[r] # NoOperation =>
        /\ Reaches(op[r].cell)
        /\ op[r].kind # "load" => op[r].new \in gcs

\* and what the search has still to find is where it will look: a Gc, or an AtomicGc
\* that was not stamped, in a slot to be visited, or a new one of a Gc that stays; the others, in data to be marked.
Searching == phase \in {"roots", "mark"}
Found     == marked \cup queue

SearchFinds ==
    /\ phase = "roots" => during \in Programs
    /\ slots # {} => phase = "roots"
    /\ gcs \subseteq Found \cup slots
    /\ \A c \in Cell \ stamped :
           \/ pointer[c] \in Found \cup {Nothing}
           \/ phase = "roots" /\ c \in slots
           \/ phase = "roots" /\ "drop" \notin during /\ pointer[c] \in gcs
    /\ \A c \in stamped : /\ holders[c] # {} /\ holders[c] \subseteq Data
                          /\ holders[c] \cap marked # {} => pointer[c] \in Found

\* It finds no garbage, which nothing else can reach.
GarbageUnreachable ==
    /\ Closed(Data \ garbage)
    /\ Found \cap garbage = {}
    /\ \A c \in Cell \ stamped : holders[c] \cap garbage = {}

AtomicGcInductive ==
    /\ Inductive /\ AtomicGcTypeOK
    /\ ListsShape /\ OperationsShape
    /\ Searching => Exclusive # {} /\ SearchFinds /\ GarbageUnreachable
    /\ garbage \subseteq tracked \cup freed
    /\ AtomicGcNeverDangles /\ AtomicGarbageReclaimed

=============================================================================
