-------------------------- MODULE AtomicProtection --------------------------
(***************************************************************************)
(* The AtomicProtectingSpinlock between collections and operations on      *)
(* AtomicGcs (src/concurrency/atomic_protection.rs), with the two callers  *)
(* that use it: do_collect, which takes it while it holds gc_lock, and     *)
(* get_collection_blocker_spinlock, which waits for gc_lock when it fails. *)
(***************************************************************************)
EXTENDS Integers, FiniteSets

CONSTANTS Reader,      \* threads operating on AtomicGcs: inclusive guards
          Writer,      \* threads collecting: exclusive guards
          Sentinel,    \* SENTINEL_VALUE, 1 << 60 in the code
          MaxTracker,  \* bound on the tracker, u64::MAX in the code
          MaxCalls,    \* bound on the calls each thread makes
          Nobody       \* owner of the free gc_lock

Thread == Reader \cup Writer

\* atomic_protection.rs: "We assume SENTINEL_VALUE is so big, we'll never reach it by
\* incrementing by 1".
ASSUME SpinlockAssumption ==
    /\ Reader \cap Writer = {}
    /\ Nobody \notin Thread
    /\ IsFiniteSet(Reader)
    /\ Sentinel \in Nat /\ Cardinality(Reader) < Sentinel
    /\ MaxTracker \in Nat /\ Sentinel <= MaxTracker
    /\ MaxCalls \in Nat

VARIABLES tracker,  \* the AtomicU64
          gcLock,   \* owner of Collector.gc_lock
          pc,       \* what each thread is about to do
          calls     \* calls each thread has still to make

vars == <<tracker, gcLock, pc, calls>>

ReaderPc == {"idle", "try", "block", "unblock", "inside"}
WriterPc == {"idle", "spin", "swap", "collecting", "unlocked"}

TypeOK ==
    /\ tracker \in 0 .. MaxTracker
    /\ gcLock \in Thread \cup {Nobody}
    /\ pc \in [Thread -> ReaderPc \cup WriterPc]
    /\ \A r \in Reader : pc[r] \in ReaderPc
    /\ \A w \in Writer : pc[w] \in WriterPc
    /\ calls \in [Thread -> 0 .. MaxCalls]

Init ==
    /\ tracker = 0
    /\ gcLock = Nobody
    /\ pc = [t \in Thread |-> "idle"]
    /\ calls = [t \in Thread |-> MaxCalls]

\* Holders of inclusive guards, and of the exclusive guard.
Inclusive == {r \in Reader : pc[r] = "inside"}
Exclusive == {w \in Writer : pc[w] \in {"collecting", "unlocked"}}

Goto(t, from, to) == pc[t] = from /\ pc' = [pc EXCEPT ![t] = to]

\* A thread starts a call.
Call(t, to) ==
    /\ calls[t] > 0
    /\ calls' = [calls EXCEPT ![t] = @ - 1]
    /\ Goto(t, "idle", to)
    /\ UNCHANGED <<tracker, gcLock>>

-----------------------------------------------------------------------------
(* get_collection_blocker_spinlock, and the drop of its guard              *)

\* lock_inclusive increments first; a failed increment is not undone.
LockInclusive(r) ==
    /\ tracker < MaxTracker
    /\ tracker' = tracker + 1
    /\ Goto(r, "try", IF tracker < Sentinel THEN "inside" ELSE "block")
    /\ UNCHANGED <<gcLock, calls>>

BlockOnCollector(r) ==
    /\ Goto(r, "block", "unblock")
    /\ gcLock = Nobody
    /\ gcLock' = r
    /\ UNCHANGED <<tracker, calls>>

Unblock(r) ==
    /\ Goto(r, "unblock", "try")
    /\ gcLock' = Nobody
    /\ UNCHANGED <<tracker, calls>>

DropInclusive(r) ==
    /\ Goto(r, "inside", "idle")
    /\ tracker' = tracker - 1
    /\ UNCHANGED <<gcLock, calls>>

-----------------------------------------------------------------------------
(* collect, as far as the two locks are concerned                          *)

LockGc(w) ==
    /\ gcLock = Nobody
    /\ Goto(w, "idle", "spin")
    /\ calls[w] > 0
    /\ calls' = [calls EXCEPT ![w] = @ - 1]
    /\ gcLock' = w
    /\ UNCHANGED tracker

\* The relaxed load; anything but zero and the thread yields and tries again.
SpinLoad(w) ==
    /\ tracker = 0
    /\ Goto(w, "spin", "swap")
    /\ UNCHANGED <<tracker, gcLock, calls>>

\* Mutant: the exclusive guard is stored without comparing.
MutantStoreSentinel(w) ==
    /\ pc[w] = "swap"
    /\ Goto(w, "swap", "collecting") /\ tracker' = Sentinel
    /\ UNCHANGED <<gcLock, calls>>

SwapSentinel(w) ==
    /\ pc[w] = "swap"
    /\ IF tracker = 0
       THEN Goto(w, "swap", "collecting") /\ tracker' = Sentinel
       ELSE Goto(w, "swap", "spin") /\ UNCHANGED tracker
    /\ UNCHANGED <<gcLock, calls>>

\* drop(gc_guard) comes before the end of the scope drops the exclusive guard.
UnlockGc(w) ==
    /\ Goto(w, "collecting", "unlocked")
    /\ gcLock' = Nobody
    /\ UNCHANGED <<tracker, calls>>

\* Mutant: the exclusive guard undoes its own increment only.
MutantSubtractSentinel(w) ==
    /\ Goto(w, "unlocked", "idle")
    /\ tracker' = tracker - Sentinel
    /\ UNCHANGED <<gcLock, calls>>

\* Resetting to zero also erases the failed increments.
DropExclusive(w) ==
    /\ Goto(w, "unlocked", "idle")
    /\ tracker' = 0
    /\ UNCHANGED <<gcLock, calls>>

-----------------------------------------------------------------------------
InCall(r)    == LockInclusive(r) \/ BlockOnCollector(r) \/ Unblock(r) \/ DropInclusive(r)
InCollect(w) == SpinLoad(w) \/ SwapSentinel(w) \/ UnlockGc(w) \/ DropExclusive(w)

Next ==
    \/ \E r \in Reader : Call(r, "try") \/ InCall(r)
    \/ \E w \in Writer : LockGc(w) \/ InCollect(w)

Spec == Init /\ [][Next]_vars

\* Threads inside a call are runnable; gc_lock is a parking_lot mutex, eventually fair.
Fairness ==
    /\ \A r \in Reader : SF_vars(InCall(r))
    /\ \A w \in Writer : SF_vars(InCollect(w))

FairSpec == Spec /\ Fairness

-----------------------------------------------------------------------------
\* atomic_protection.rs, the doc of `tracker`: below the sentinel it counts the
\* inclusive guards, at or above it there is exactly one exclusive guard; no failed
\* increment survives the exclusive guard it failed against.
TrackerCounts ==
    IF Exclusive = {} THEN tracker = Cardinality(Inclusive)
                      ELSE tracker >= Sentinel /\ Inclusive = {}

\* What makes it inductive: there is one exclusive guard at a time.
Inductive ==
    /\ TypeOK
    /\ TrackerCounts
    /\ \A v, w \in Exclusive : v = w

\* A program that makes finitely many calls completes them: operations that wait for
\* gc_lock and a collection that waits, holding it, for operations never wait for
\* each other.
CallsComplete == \A t \in Thread : pc[t] # "idle" ~> pc[t] = "idle"

\* The safety it rests on: as long as a call is in progress, some thread in one waits
\* neither for gc_lock nor for the tracker.
Runnable(t) ==
    \/ pc[t] \in {"try", "unblock", "inside", "swap", "collecting", "unlocked"}
    \/ pc[t] = "block" /\ gcLock = Nobody
    \/ pc[t] = "spin" /\ tracker = 0

NeverStuck == (\E t \in Thread : pc[t] # "idle") => \E t \in Thread : Runnable(t)

\* gc_lock is held from the beginning of a collection to its end, and by operations that
\* waited for it, who do not enter the spinlock before they have released it.
LockHeld == \A t \in Thread : gcLock = t <=> pc[t] \in {"unblock", "spin", "swap", "collecting"}

\* The promise is the one of a lockout: any number of operations or one collection.
Promise == INSTANCE Warrants WITH readers <- Inclusive, writers <- Exclusive
ImplementsWarrants == Promise!WarrantSpec

=============================================================================
