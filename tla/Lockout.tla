------------------------------- MODULE Lockout -------------------------------
(***************************************************************************)
(* The Lockout of one piece of data, atomic operation by atomic operation: *)
(* a counter changed by compare-and-swap, with a mutex and a condition     *)
(* variable for the readers that find it signposted.                       *)
(***************************************************************************)
EXTENDS Integers, FiniteSets

CONSTANTS Reader,     \* threads in get_warrant (Gc::get)
          Writer,     \* threads in get_exclusive_warrant (collections)
          Signpost,   \* EXCLUSIVE_SIGNPOST, !0 in the code
          Nobody      \* owner of the free mutex

Thread == Reader \cup Writer

\* A count of holders never reaches the signpost: 2^64 - 1 warrants do not fit in
\* memory.
ASSUME LockoutAssumption ==
    /\ Reader \cap Writer = {}
    /\ Nobody \notin Thread
    /\ IsFiniteSet(Reader)
    /\ Signpost \in Nat /\ Cardinality(Reader) < Signpost

VARIABLES count,    \* the AtomicU64
          mutex,    \* owner of lockout_mutex
          waiting,  \* readers asleep on lockout_condvar
          pc,       \* what each thread is about to do
          seen      \* the count each reader last loaded

vars == <<count, mutex, waiting, pc, seen>>

ReaderPc == {"idle", "fast", "lock", "load", "decide", "asleep", "unlock", "holds", "drop"}
WriterPc == {"idle", "exclusive", "clear", "notify", "unlock"}

TypeOK ==
    /\ count \in 0 .. Signpost
    /\ mutex \in Thread \cup {Nobody}
    /\ waiting \subseteq Reader
    /\ pc \in [Thread -> ReaderPc \cup WriterPc]
    /\ \A r \in Reader : pc[r] \in ReaderPc
    /\ \A w \in Writer : pc[w] \in WriterPc
    /\ seen \in [Reader -> 0 .. Signpost]

Init ==
    /\ count = 0
    /\ mutex = Nobody
    /\ waiting = {}
    /\ pc = [t \in Thread |-> "idle"]
    /\ seen = [r \in Reader |-> 0]

\* Threads holding a Warrant, and threads holding an ExclusiveWarrant.
Holding   == {r \in Reader : pc[r] \in {"unlock", "holds", "drop"}}
Exclusive == {w \in Writer : pc[w] \in {"exclusive", "clear"}}

Goto(t, to) == pc' = [pc EXCEPT ![t] = to]

LoadCount(r) == seen' = [seen EXCEPT ![r] = count]

\* compare_exchange of a reader: from the count it has seen, or not at all.
CompareExchange(r, new, success, failure) ==
    IF count = seen[r] THEN count' = new /\ Goto(r, success)
                       ELSE UNCHANGED count /\ Goto(r, failure)

-----------------------------------------------------------------------------
(* get_warrant                                                             *)

StartGet(r) ==
    /\ pc[r] = "idle"
    /\ LoadCount(r)
    /\ Goto(r, "fast")
    /\ UNCHANGED <<count, mutex, waiting>>

FastPath(r) ==
    /\ pc[r] = "fast"
    /\ IF seen[r] # Signpost
       THEN CompareExchange(r, seen[r] + 1, "holds", "lock")
       ELSE Goto(r, "lock") /\ UNCHANGED count
    /\ UNCHANGED <<mutex, waiting, seen>>

\* Mutant: the wait does not keep the mutex from the load on, so the signpost may be
\* cleared and the notification sent in between.
MutantLockUnheld(r) ==
    /\ pc[r] = "lock"
    /\ mutex = Nobody
    /\ Goto(r, "load")
    /\ UNCHANGED <<count, mutex, waiting, seen>>

LockSlowPath(r) ==
    /\ pc[r] = "lock"
    /\ mutex = Nobody
    /\ mutex' = r
    /\ Goto(r, "load")
    /\ UNCHANGED <<count, waiting, seen>>

LoadSlowPath(r) ==
    /\ pc[r] = "load"
    /\ LoadCount(r)
    /\ Goto(r, "decide")
    /\ UNCHANGED <<count, mutex, waiting>>

\* condvar.wait releases the mutex and falls asleep in one step.
Wait(r) ==
    /\ pc[r] = "decide"
    /\ seen[r] = Signpost
    /\ mutex' = Nobody
    /\ waiting' = waiting \cup {r}
    /\ Goto(r, "asleep")
    /\ UNCHANGED <<count, seen>>

\* A notified reader takes the mutex again before wait returns (parking_lot's
\* condition variables do not wake spuriously).
WakeUp(r) ==
    /\ pc[r] = "asleep"
    /\ r \notin waiting
    /\ mutex = Nobody
    /\ mutex' = r
    /\ Goto(r, "load")
    /\ UNCHANGED <<count, waiting, seen>>

SlowPath(r) ==
    /\ pc[r] = "decide"
    /\ seen[r] # Signpost
    /\ CompareExchange(r, seen[r] + 1, "unlock", "load")
    /\ UNCHANGED <<mutex, waiting, seen>>

UnlockSlowPath(r) ==
    /\ pc[r] = "unlock"
    /\ mutex' = Nobody
    /\ Goto(r, "holds")
    /\ UNCHANGED <<count, waiting, seen>>

-----------------------------------------------------------------------------
(* Warrant::drop                                                           *)

LoadDrop(r) ==
    /\ pc[r] = "holds"
    /\ LoadCount(r)
    /\ Goto(r, "drop")
    /\ UNCHANGED <<count, mutex, waiting>>

\* Mutant: a plain store of the decremented value.
MutantStoreDrop(r) ==
    /\ pc[r] = "drop"
    /\ count' = seen[r] - 1
    /\ Goto(r, "idle")
    /\ UNCHANGED <<mutex, waiting, seen>>

DropWarrant(r) ==
    /\ pc[r] = "drop"
    /\ CompareExchange(r, seen[r] - 1, "idle", "holds")
    /\ UNCHANGED <<mutex, waiting, seen>>

-----------------------------------------------------------------------------
(* get_exclusive_warrant and ExclusiveWarrant::drop                        *)

\* Mutant: the exclusive warrant is taken whatever the count.
MutantSwapExclusive(w) ==
    /\ pc[w] = "idle"
    /\ count' = Signpost
    /\ Goto(w, "exclusive")
    /\ UNCHANGED <<mutex, waiting, seen>>

\* When the exchange fails the call returns None and nothing has changed.
GetExclusive(w) ==
    /\ pc[w] = "idle"
    /\ count = 0
    /\ count' = Signpost
    /\ Goto(w, "exclusive")
    /\ UNCHANGED <<mutex, waiting, seen>>

LockExclusive(w) ==
    /\ pc[w] = "exclusive"
    /\ mutex = Nobody
    /\ mutex' = w
    /\ Goto(w, "clear")
    /\ UNCHANGED <<count, waiting, seen>>

ClearSignpost(w) ==
    /\ pc[w] = "clear"
    /\ count = Signpost
    /\ count' = 0
    /\ Goto(w, "notify")
    /\ UNCHANGED <<mutex, waiting, seen>>

\* Mutant: one sleeper is notified.
MutantNotifyOne(w) ==
    /\ pc[w] = "notify"
    /\ \E R \in SUBSET waiting : (Cardinality(waiting \ R) = 1 \/ waiting = {}) /\ waiting' = R
    /\ Goto(w, "unlock")
    /\ UNCHANGED <<count, mutex, seen>>

NotifyAll(w) ==
    /\ pc[w] = "notify"
    /\ waiting' = {}
    /\ Goto(w, "unlock")
    /\ UNCHANGED <<count, mutex, seen>>

UnlockExclusive(w) ==
    /\ pc[w] = "unlock"
    /\ mutex' = Nobody
    /\ Goto(w, "idle")
    /\ UNCHANGED <<count, waiting, seen>>

-----------------------------------------------------------------------------
InGetWarrant(r) ==
    \/ FastPath(r) \/ LockSlowPath(r) \/ LoadSlowPath(r) \/ Wait(r) \/ WakeUp(r)
    \/ SlowPath(r) \/ UnlockSlowPath(r)

ReaderStep(r) == StartGet(r) \/ InGetWarrant(r) \/ LoadDrop(r) \/ DropWarrant(r)

InDropExclusive(w) ==
    LockExclusive(w) \/ ClearSignpost(w) \/ NotifyAll(w) \/ UnlockExclusive(w)

WriterStep(w) == GetExclusive(w) \/ InDropExclusive(w)

Next == (\E r \in Reader : ReaderStep(r)) \/ (\E w \in Writer : WriterStep(w))

Spec == Init /\ [][Next]_vars

\* A collection releases its warrants, and the mutex (parking_lot, eventually fair)
\* does not keep it from doing so for ever; a reader inside get_warrant keeps going.
Fairness ==
    /\ \A r \in Reader : WF_vars(InGetWarrant(r))
    /\ \A w \in Writer : SF_vars(InDropExclusive(w))

FairSpec == Spec /\ Fairness

-----------------------------------------------------------------------------
\* The counter says who holds what: the signpost while, and only while, an exclusive
\* warrant exists, the number of warrants otherwise.  Both assertions of the code
\* (lockout.rs, the two drops) follow.
CountIsHolders ==
    count = IF Exclusive # {} THEN Signpost ELSE Cardinality(Holding)

\* No lost wake-up: a reader is asleep only while somebody who will notify it is in
\* or before ExclusiveWarrant::drop.
NoLostWakeup ==
    waiting # {} => \E w \in Writer : pc[w] \in {"exclusive", "clear", "notify"}

\* What makes the two invariants inductive: who owns the mutex, that an exclusive
\* warrant is alone, and that a reader about to fall asleep is right to.
MutexOwned ==
    /\ \A r \in Reader : mutex = r <=> pc[r] \in {"load", "decide", "unlock"}
    /\ \A w \in Writer : mutex = w <=> pc[w] \in {"clear", "notify", "unlock"}

ExclusiveAlone ==
    /\ \A v, w \in Exclusive : v = w
    /\ Exclusive # {} => Holding = {}

SleepJustified ==
    \A r \in Reader : pc[r] = "decide" /\ seen[r] = Signpost => Exclusive # {}

Inductive ==
    TypeOK /\ CountIsHolders /\ MutexOwned /\ ExclusiveAlone /\ SleepJustified /\ NoLostWakeup

\* No deadlock: while some thread is inside get_warrant or a collection has its warrant,
\* some such thread can go on, by itself or, at "exclusive", with its collection.
Engaged(t) == IF t \in Reader THEN pc[t] \notin {"idle", "holds", "drop"} ELSE pc[t] # "idle"

Runnable(t) ==
    /\ Engaged(t)
    /\ pc[t] \in {"lock", "asleep", "exclusive"} => mutex = Nobody
    /\ pc[t] = "asleep" => t \notin waiting

NeverStuck == (\E t \in Thread : Engaged(t)) => \E t \in Thread : Runnable(t)

\* A reader asleep on the condition variable is woken.
SleeperWoken == \A r \in Reader : r \in waiting ~> r \notin waiting

\* The promise of the lockout, as a refinement.
Promise == INSTANCE Warrants WITH readers <- Holding, writers <- Exclusive
ImplementsWarrants == Promise!WarrantSpec

=============================================================================
