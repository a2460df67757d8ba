------------------------------ MODULE Guarded -------------------------------
(***************************************************************************)
(* The guards that borrow through a Gc: borrow, lock, read, write and      *)
(* their try variants on a Gc<RefCell>, Gc<Mutex> or Gc<RwLock>            *)
(* (src/smart_ptr/gc.rs, src/wrappers.rs), against the scans of the same   *)
(* data (src/std_impls/wrap_types.rs).  A guard holds a warrant of the     *)
(* data's Lockout and, inside it, a guard of the inner lock; the workers   *)
(* of a collection, which has the exclusive warrant, scan the data once to *)
(* stamp what is inside and once more if the search reaches it, and a scan *)
(* only tries the inner lock.                                              *)
(***************************************************************************)
EXTENDS Lockout

CONSTANT Worker     \* threads of the collection's parallel iterations

ASSUME GuardedAssumption == Worker \cap Reader = {}

VARIABLES kind,      \* of the inner lock
          call,      \* the call each reader is in, from get to the drop of its guard
          shared,    \* holders of the inner lock: a Ref, a read guard
          unique,    \* the holder of a RefMut, a MutexGuard or a write guard
          poisoned,
          pass,      \* 1: the scan of all data; 2: the search
          worker,    \* what each worker is about to do
          marked,    \* last_marked is the current collection
          missed     \* history: a scan has found the inner lock in use

innerVars == <<call, shared, unique, poisoned>>
scanVars == <<pass, worker, marked, missed>>
guardedVars == <<vars, kind, innerVars, scanVars>>

Kind == {"refcell", "mutex", "rwlock"}
NoCall == [write |-> FALSE, blocks |-> FALSE, pending |-> FALSE]

\* What can be called. A RefCell never blocks: its borrow panics where try_borrow fails.
RefCellCalls == [write: BOOLEAN, blocks: {FALSE}, pending: {TRUE}]
MutexCalls   == [write: {TRUE}, blocks: BOOLEAN, pending: {TRUE}]
RwLockCalls  == [write: BOOLEAN, blocks: BOOLEAN, pending: {TRUE}]

Calls == CASE kind = "refcell" -> RefCellCalls
           [] kind = "mutex"   -> MutexCalls
           [] kind = "rwlock"  -> RwLockCalls

InnerHolders == shared \cup unique

GuardedTypeOK ==
    /\ TypeOK
    /\ kind \in Kind
    /\ call \in [Reader -> Calls \cup {NoCall}]
    /\ shared \subseteq Reader \cup Worker
    /\ unique \subseteq Reader \cup Worker
    /\ \A t \in unique : InnerHolders = {t}
    /\ poisoned \in BOOLEAN
    /\ pass \in {1, 2}
    /\ worker \in [Worker -> {"ready", "scan", "unlock", "done"}]
    /\ marked \in BOOLEAN /\ missed \in BOOLEAN

GuardedInit ==
    /\ Init
    /\ kind \in Kind
    /\ call = [r \in Reader |-> NoCall]
    /\ shared = {} /\ unique = {} /\ poisoned = FALSE
    /\ pass = 1
    /\ worker = [k \in Worker |-> "ready"]
    /\ marked = FALSE /\ missed = FALSE

-----------------------------------------------------------------------------
\* The inner lock, as the standard library has it.
Available(write) == unique = {} /\ (write => shared = {})

Lock(t, write) ==
    /\ unique' = IF write THEN unique \cup {t} ELSE unique
    /\ shared' = IF write THEN shared ELSE shared \cup {t}

Unlock(t) == unique' = unique \ {t} /\ shared' = shared \ {t}

-----------------------------------------------------------------------------
(* The users' side.                                                        *)

\* A Gc<RefCell> stays on one thread, so its calls do not overlap.
Alone(r) == kind = "refcell" => \A s \in Reader : call[s].pending => s \in InnerHolders

\* Every entry point begins with self.get().
Get(r, c) ==
    /\ call[r] = NoCall
    /\ Alone(r)
    /\ StartGet(r)
    /\ call' = [call EXCEPT ![r] = c]
    /\ UNCHANGED <<kind, shared, unique, poisoned, scanVars>>

InGet(r) == InGetWarrant(r) /\ UNCHANGED <<kind, innerVars, scanVars>>

\* r has its GcGuard and is at the inner lock.
AtInnerLock(r) == pc[r] = "holds" /\ call[r].pending /\ r \notin InnerHolders

\* Poisoned or not: the error holds the guard as well.
LockInner(r) ==
    /\ AtInnerLock(r)
    /\ Available(call[r].write)
    /\ Lock(r, call[r].write)
    /\ UNCHANGED <<vars, kind, call, poisoned, scanVars>>

\* WouldBlock, a BorrowError or the panic of borrow: the call is over but for the
\* GcGuard, which is dropped.
FailInner(r) ==
    /\ AtInnerLock(r)
    /\ ~Available(call[r].write) /\ ~call[r].blocks
    /\ call' = [call EXCEPT ![r] = NoCall]
    /\ UNCHANGED <<vars, kind, shared, unique, poisoned, scanVars>>

\* The call is made through one of the wrappers.
Wrapped(r, k, write) == kind = k /\ call[r].write = write /\ (LockInner(r) \/ FailInner(r))

GcRef(r)              == Wrapped(r, "refcell", FALSE)
GcRefMut(r)           == Wrapped(r, "refcell", TRUE)
GcMutexGuard(r)       == Wrapped(r, "mutex", TRUE)
GcRwLockReadGuard(r)  == Wrapped(r, "rwlock", FALSE)
GcRwLockWriteGuard(r) == Wrapped(r, "rwlock", TRUE)

\* Mutant: the warrant is dropped before the inner guard.
MutantWarrantFirst(r) ==
    /\ r \in InnerHolders /\ call[r].pending
    /\ call' = [call EXCEPT ![r] = NoCall]
    /\ UNCHANGED <<vars, kind, shared, unique, poisoned, scanVars>>

\* The inner guard, a suffix of the rental struct, is dropped before the GcGuard; dropped
\* in a panic, a guard that could write poisons its lock.
UnlockInner(r) ==
    /\ r \in InnerHolders
    /\ Unlock(r)
    /\ call' = [call EXCEPT ![r] = NoCall]
    /\ \/ UNCHANGED poisoned
       \/ kind # "refcell" /\ r \in unique /\ poisoned' = TRUE
    /\ UNCHANGED <<vars, kind, scanVars>>

DropGuard(r) ==
    /\ call[r] = NoCall
    /\ LoadDrop(r) \/ DropWarrant(r)
    /\ UNCHANGED <<kind, innerVars, scanVars>>

-----------------------------------------------------------------------------
(* The collection's side.                                                  *)

\* The collection has the data's exclusive warrant and has not begun to drop it.
Warranted == \E w \in Writer : pc[w] = "exclusive"

BeginPass(n) == pass' = n /\ worker' = [k \in Worker |-> "ready"]

Collect(w) ==
    /\ GetExclusive(w)
    /\ BeginPass(1)
    /\ marked' = FALSE
    /\ UNCHANGED <<kind, innerVars, missed>>

\* An item of the data list goes to one worker.
StampData(k) ==
    /\ Warranted /\ pass = 1
    /\ \A j \in Worker : worker[j] = "ready"
    /\ worker' = [j \in Worker |-> IF j = k THEN "scan" ELSE "done"]
    /\ UNCHANGED <<vars, kind, innerVars, pass, marked, missed>>

BeginSearch ==
    /\ Warranted /\ pass = 1
    /\ \A k \in Worker : worker[k] = "done"
    /\ BeginPass(2)
    /\ UNCHANGED <<vars, kind, innerVars, marked, missed>>

\* Mutant: the mark is read and not yet set when the data is scanned.
MutantReadMark(k) ==
    /\ Warranted /\ pass = 2 /\ worker[k] = "ready"
    /\ worker' = [worker EXCEPT ![k] = IF marked THEN "done" ELSE "scan"]
    /\ UNCHANGED <<vars, kind, innerVars, pass, marked, missed>>

\* Each worker may reach the data through a handle of its own; the swap lets one scan it.
SearchData(k) ==
    /\ Warranted /\ pass = 2 /\ worker[k] = "ready"
    /\ marked' = TRUE
    /\ worker' = [worker EXCEPT ![k] = IF marked THEN "done" ELSE "scan"]
    /\ UNCHANGED <<vars, kind, innerVars, pass, missed>>

\* Mutant: a poisoned lock is not scanned.
MutantSkipPoisoned(k, write) ==
    /\ worker[k] = "scan"
    /\ IF Available(write) /\ ~poisoned
       THEN Lock(k, write) /\ worker' = [worker EXCEPT ![k] = "unlock"] /\ UNCHANGED missed
       ELSE worker' = [worker EXCEPT ![k] = "done"] /\ missed' = TRUE /\ UNCHANGED <<shared, unique>>
    /\ UNCHANGED <<vars, kind, call, poisoned, pass, marked>>

\* Poisoned or not, the value is scanned; in use, it reports nothing.
ScanInner(k, write) ==
    /\ worker[k] = "scan"
    /\ IF Available(write)
       THEN Lock(k, write) /\ worker' = [worker EXCEPT ![k] = "unlock"] /\ UNCHANGED missed
       ELSE worker' = [worker EXCEPT ![k] = "done"] /\ missed' = TRUE /\ UNCHANGED <<shared, unique>>
    /\ UNCHANGED <<vars, kind, call, poisoned, pass, marked>>

\* try_borrow, try_lock and try_read.
ScanRefCell(k) == kind = "refcell" /\ ScanInner(k, FALSE)
ScanMutex(k)   == kind = "mutex" /\ ScanInner(k, TRUE)
ScanRwLock(k)  == kind = "rwlock" /\ ScanInner(k, FALSE)

EndScanInner(k) ==
    /\ worker[k] = "unlock"
    /\ Unlock(k)
    /\ worker' = [worker EXCEPT ![k] = "done"]
    /\ UNCHANGED <<vars, kind, call, poisoned, pass, marked, missed>>

\* The warrants are dropped when the search is over, whether it reached the data or not.
\* (That gc_lock also keeps the next collection waiting until they are is not relied on.)
DropWarrants(w) ==
    /\ InDropExclusive(w)
    /\ pc[w] = "exclusive" => pass = 2 /\ \A k \in Worker : worker[k] \in {"ready", "done"}
    /\ UNCHANGED <<kind, innerVars, scanVars>>

-----------------------------------------------------------------------------
Scanning ==
    \/ BeginSearch
    \/ \E k \in Worker : \/ StampData(k) \/ SearchData(k) \/ EndScanInner(k)
                         \/ ScanRefCell(k) \/ ScanMutex(k) \/ ScanRwLock(k)

GuardedNext ==
    \/ \E r \in Reader : \/ InGet(r) \/ UnlockInner(r) \/ DropGuard(r)
                         \/ GcRef(r) \/ GcRefMut(r) \/ GcMutexGuard(r)
                         \/ GcRwLockReadGuard(r) \/ GcRwLockWriteGuard(r)
                         \/ \E c \in Calls : Get(r, c)
    \/ \E w \in Writer : Collect(w) \/ DropWarrants(w)
    \/ Scanning

\* As in Lockout; a collection's workers never wait.  Nothing is assumed of users, nor of
\* the standard library's locks, which are not fair.
GuardedFairness ==
    /\ \A r \in Reader : WF_guardedVars(InGet(r))
    /\ \A w \in Writer : SF_guardedVars(DropWarrants(w))
    /\ WF_guardedVars(Scanning)

GuardedSpec == GuardedInit /\ [][GuardedNext]_guardedVars /\ GuardedFairness

-----------------------------------------------------------------------------
\* wrap_types.rs: "A Mutex was in use when it was scanned -- something is buggy here!".
\* No scan, the stamping one or the search's, finds the inner lock held, by a user or by
\* another worker, and a poisoned lock is scanned like any other: what is inside data
\* the collection has a warrant of is always reported.
ScanFindsLockFree == ~missed

\* Scans stay invisible: a user that finds the inner lock taken, and so fails, panics or
\* waits inside its guard, finds it taken by a user and never by the collection.
ScanUnseen ==
    \A r \in Reader : AtInnerLock(r) => InnerHolders \cap Worker = {}

\* What makes them inductive: the inner lock is held only inside a GcGuard, or by the one
\* worker that scans, which does so only under the exclusive warrant; in the search,
\* nobody has begun to scan while the data is not marked.
HeldInGuards ==
    \A r \in Reader : r \in InnerHolders => pc[r] = "holds" /\ call[r].pending

Scans(k) == worker[k] \in {"scan", "unlock"}

ScansAlone ==
    /\ \A k \in Worker : k \in InnerHolders <=> worker[k] = "unlock"
    /\ \A k \in Worker : Scans(k) => Warranted
    /\ \A j, k \in Worker : Scans(j) /\ Scans(k) => j = k
    /\ pass = 2 /\ ~marked => \A k \in Worker : worker[k] = "ready"

GuardedInductive ==
    Inductive /\ GuardedTypeOK /\ HeldInGuards /\ ScansAlone /\ ScanFindsLockFree

=============================================================================
