----------------------- MODULE AtomicProtectionProofs -----------------------
(* Proofs about AtomicProtection, for any number of threads and any sentinel *)
(* the number of threads does not reach.                                     *)
EXTENDS AtomicProtection, FiniteSetTheorems, TLAPS

\* The inclusive guards are finitely many, fewer than the sentinel.
LEMMA GuardsCounted ==
    /\ IsFiniteSet(Inclusive)
    /\ Cardinality(Inclusive) \in Nat
    /\ Cardinality(Inclusive) < Sentinel
    /\ Cardinality(Inclusive) = 0 <=> Inclusive = {}
<1>1. Inclusive \subseteq Reader
  BY DEF Inclusive
<1>2. IsFiniteSet(Inclusive) /\ Cardinality(Inclusive) <= Cardinality(Reader)
  BY <1>1, FS_Subset, SpinlockAssumption DEF SpinlockAssumption
<1>3. Cardinality(Inclusive) \in Nat /\ Cardinality(Reader) \in Nat
  BY <1>2, FS_CardinalityType, SpinlockAssumption DEF SpinlockAssumption
<1> QED
  BY <1>2, <1>3, FS_EmptySet, SpinlockAssumption DEF SpinlockAssumption

LEMMA GuardJoins ==
    ASSUME NEW r \in Reader \ Inclusive, Inclusive' = Inclusive \cup {r}
    PROVE  Cardinality(Inclusive') = Cardinality(Inclusive) + 1
BY GuardsCounted, FS_AddElement

LEMMA GuardLeaves ==
    ASSUME NEW r \in Inclusive, Inclusive' = Inclusive \ {r}
    PROVE  Cardinality(Inclusive') = Cardinality(Inclusive) - 1
BY GuardsCounted, FS_RemoveElement

LEMMA InitInductive == Init => Inductive
<1> SUFFICES ASSUME Init PROVE Inductive
  OBVIOUS
<1>1. Inclusive = {} /\ Exclusive = {}
  BY SpinlockAssumption DEF Init, Inclusive, Exclusive, Thread, SpinlockAssumption
<1>2. tracker = Cardinality(Inclusive)
  BY <1>1, GuardsCounted DEF Init
<1>3. TypeOK
  BY SpinlockAssumption DEF Init, TypeOK, Thread, SpinlockAssumption, ReaderPc, WriterPc
<1> QED
  BY <1>1, <1>2, <1>3 DEF Inductive, TrackerCounts

\* What a step does to the guards: nothing, while the tracker may count one more failed
\* increment, or one guard comes or goes.
GuardsStep ==
    \/ Inclusive' = Inclusive /\ Exclusive' = Exclusive /\ tracker' = tracker
    \/ /\ Inclusive' = Inclusive /\ Exclusive' = Exclusive
       /\ tracker >= Sentinel /\ tracker' = tracker + 1
    \/ \E r \in Reader \ Inclusive :
          /\ Inclusive' = Inclusive \cup {r} /\ Exclusive' = Exclusive
          /\ tracker < Sentinel /\ tracker' = tracker + 1
    \/ \E r \in Inclusive :
          /\ Inclusive' = Inclusive \ {r} /\ Exclusive' = Exclusive
          /\ tracker' = tracker - 1
    \/ \E w \in Writer \ Exclusive :
          /\ Exclusive' = Exclusive \cup {w} /\ Inclusive' = Inclusive
          /\ tracker = 0 /\ tracker' = Sentinel
    \/ \E w \in Exclusive :
          /\ Exclusive' = Exclusive \ {w} /\ Inclusive' = Inclusive
          /\ tracker' = 0

LEMMA StepGuards ==
    ASSUME TypeOK, [Next]_vars
    PROVE  GuardsStep
<1>1. /\ pc \in [Thread -> ReaderPc \cup WriterPc] /\ tracker \in 0 .. MaxTracker
      /\ \A x \in Reader : x \in Thread /\ x \notin Writer
      /\ \A x \in Writer : x \in Thread /\ x \notin Reader
      /\ Sentinel \in Nat /\ MaxTracker \in Nat
  BY SpinlockAssumption DEF TypeOK, Thread, SpinlockAssumption
<1>2. ASSUME NEW r \in Reader, Call(r, "try") \/ InCall(r)
      PROVE  GuardsStep
  <2>1. CASE LockInclusive(r) /\ tracker < Sentinel
    BY <1>1, <2>1 DEF LockInclusive, Goto, GuardsStep, Inclusive, Exclusive
  <2>2. CASE LockInclusive(r) /\ tracker >= Sentinel
    BY <1>1, <2>2 DEF LockInclusive, Goto, GuardsStep, Inclusive, Exclusive
  <2>3. CASE DropInclusive(r)
    BY <1>1, <2>3 DEF DropInclusive, Goto, GuardsStep, Inclusive, Exclusive
  <2>4. CASE Call(r, "try") \/ BlockOnCollector(r) \/ Unblock(r)
    BY <1>1, <2>4 DEF Call, BlockOnCollector, Unblock, Goto, GuardsStep, Inclusive, Exclusive
  <2> QED
    BY <1>1, <1>2, <2>1, <2>2, <2>3, <2>4 DEF InCall
<1>3. ASSUME NEW w \in Writer, LockGc(w) \/ InCollect(w)
      PROVE  GuardsStep
  <2>1. CASE SwapSentinel(w) /\ tracker = 0
    BY <1>1, <2>1 DEF SwapSentinel, Goto, GuardsStep, Inclusive, Exclusive
  <2>2. CASE SwapSentinel(w) /\ tracker # 0
    BY <1>1, <2>2 DEF SwapSentinel, Goto, GuardsStep, Inclusive, Exclusive
  <2>3. CASE DropExclusive(w)
    BY <1>1, <2>3 DEF DropExclusive, Goto, GuardsStep, Inclusive, Exclusive
  <2>4. CASE LockGc(w) \/ SpinLoad(w) \/ UnlockGc(w)
    BY <1>1, <2>4 DEF LockGc, SpinLoad, UnlockGc, Goto, GuardsStep, Inclusive, Exclusive
  <2> QED
    BY <1>3, <2>1, <2>2, <2>3, <2>4 DEF InCollect
<1>4. CASE UNCHANGED vars
  BY <1>4 DEF vars, GuardsStep, Inclusive, Exclusive
<1> QED
  BY <1>2, <1>3, <1>4 DEF Next

LEMMA StepTracker ==
    ASSUME Inductive, GuardsStep
    PROVE  TrackerCounts' /\ (\A v, w \in Exclusive' : v = w) /\ tracker' \in Nat
<1>1. /\ IF Exclusive = {} THEN tracker = Cardinality(Inclusive)
                           ELSE tracker >= Sentinel /\ Inclusive = {}
      /\ \A v, w \in Exclusive : v = w
      /\ tracker \in Nat
  BY SpinlockAssumption DEF Inductive, TrackerCounts, TypeOK, SpinlockAssumption
<1>2. /\ Cardinality(Inclusive) < Sentinel /\ Cardinality(Inclusive) \in Nat /\ Sentinel \in Nat
      /\ Cardinality(Inclusive) = 0 <=> Inclusive = {}
  BY GuardsCounted, SpinlockAssumption DEF SpinlockAssumption
<1>3. CASE Inclusive' = Inclusive /\ Exclusive' = Exclusive /\ tracker' = tracker
  BY <1>1, <1>3 DEF TrackerCounts
<1>4. CASE /\ Inclusive' = Inclusive /\ Exclusive' = Exclusive
           /\ tracker >= Sentinel /\ tracker' = tracker + 1
  BY <1>1, <1>2, <1>4 DEF TrackerCounts
<1>5. ASSUME NEW r \in Reader \ Inclusive,
             Inclusive' = Inclusive \cup {r}, Exclusive' = Exclusive,
             tracker < Sentinel, tracker' = tracker + 1
      PROVE  TrackerCounts' /\ (\A v, w \in Exclusive' : v = w) /\ tracker' \in Nat
  <2>1. Cardinality(Inclusive') = Cardinality(Inclusive) + 1
    BY <1>5, GuardJoins
  <2> QED
    BY <1>1, <1>2, <1>5, <2>1 DEF TrackerCounts
<1>6. ASSUME NEW r \in Inclusive,
             Inclusive' = Inclusive \ {r}, Exclusive' = Exclusive, tracker' = tracker - 1
      PROVE  TrackerCounts' /\ (\A v, w \in Exclusive' : v = w) /\ tracker' \in Nat
  <2>1. Cardinality(Inclusive') = Cardinality(Inclusive) - 1
    BY <1>6, GuardLeaves
  <2>2. Exclusive = {} /\ tracker = Cardinality(Inclusive) /\ Cardinality(Inclusive) # 0
    BY <1>1, <1>2
  <2> QED
    BY <1>1, <1>2, <1>6, <2>1, <2>2 DEF TrackerCounts
<1>7. CASE \E w \in Writer \ Exclusive :
              /\ Exclusive' = Exclusive \cup {w} /\ Inclusive' = Inclusive
              /\ tracker = 0 /\ tracker' = Sentinel
  <2>1. Exclusive = {} /\ Inclusive = {}
    BY <1>1, <1>2, <1>7
  <2> QED
    BY <1>2, <1>7, <2>1 DEF TrackerCounts
<1>8. CASE \E w \in Exclusive :
              /\ Exclusive' = Exclusive \ {w} /\ Inclusive' = Inclusive
              /\ tracker' = 0
  <2>1. Exclusive' = {} /\ Inclusive' = {} /\ tracker' = 0
    BY <1>1, <1>8
  <2> QED
    BY <2>1, FS_EmptySet DEF TrackerCounts
<1> QED
  BY <1>3, <1>4, <1>5, <1>6, <1>7, <1>8 DEF GuardsStep

LEMMA StepType ==
    ASSUME TypeOK, [Next]_vars, tracker' \in Nat
    PROVE  TypeOK'
<1>1. /\ \A x \in Reader : x \in Thread /\ x \notin Writer
      /\ \A x \in Writer : x \in Thread /\ x \notin Reader
      /\ Sentinel \in Nat /\ MaxTracker \in Nat /\ Sentinel <= MaxTracker /\ MaxCalls \in Nat
  BY SpinlockAssumption DEF Thread, SpinlockAssumption
<1>2. ASSUME NEW r \in Reader, Call(r, "try") \/ InCall(r)
      PROVE  TypeOK'
  BY <1>1, <1>2 DEF TypeOK, InCall, Call, LockInclusive, BlockOnCollector, Unblock,
     DropInclusive, Goto, ReaderPc, WriterPc
<1>3. ASSUME NEW w \in Writer, LockGc(w) \/ InCollect(w)
      PROVE  TypeOK'
  BY <1>1, <1>3 DEF TypeOK, LockGc, InCollect, SpinLoad, SwapSentinel, UnlockGc,
     DropExclusive, Goto, ReaderPc, WriterPc
<1>4. CASE UNCHANGED vars
  BY <1>4 DEF TypeOK, vars
<1> QED
  BY <1>2, <1>3, <1>4 DEF Next

LEMMA StepInductive == Inductive /\ [Next]_vars => Inductive'
<1> SUFFICES ASSUME Inductive, [Next]_vars PROVE Inductive'
  OBVIOUS
<1>1. TypeOK
  BY DEF Inductive
<1>2. GuardsStep
  BY <1>1, StepGuards
<1>3. TrackerCounts' /\ (\A v, w \in Exclusive' : v = w) /\ tracker' \in Nat
  BY <1>2, StepTracker
<1>4. TypeOK'
  BY <1>1, <1>3, StepType
<1> QED
  BY <1>3, <1>4 DEF Inductive

THEOREM SpinlockInductive == Spec => []Inductive
<1>1. Init => Inductive
  BY InitInductive
<1>2. Inductive /\ [Next]_vars => Inductive'
  BY StepInductive
<1> QED
  BY <1>1, <1>2, PTL DEF Spec

\* Type correctness of tracker, gc_lock and program counters.
THEOREM SpinlockTypes == Spec => []TypeOK
<1>1. Inductive => TypeOK
  BY DEF Inductive
<1> QED
  BY <1>1, SpinlockInductive, PTL

\* The tracker counts the inclusive guards or holds the sentinel, for any number of
\* threads: atomic operations and collections exclude each other.
THEOREM SpinlockCounts == Spec => []TrackerCounts
<1>1. Inductive => TrackerCounts
  BY DEF Inductive
<1> QED
  BY <1>1, SpinlockInductive, PTL

\* gc_lock changes hands as LockHeld says.
LEMMA StepLock ==
    ASSUME TypeOK, LockHeld, [Next]_vars
    PROVE  LockHeld'
<1>1. /\ \A x \in Reader : x \in Thread
      /\ \A x \in Writer : x \in Thread
      /\ Nobody \notin Thread
  BY SpinlockAssumption DEF Thread, SpinlockAssumption
<1>2. ASSUME NEW r \in Reader, Call(r, "try") \/ InCall(r)
      PROVE  LockHeld'
  BY <1>1, <1>2 DEF TypeOK, LockHeld, InCall, Call, LockInclusive, BlockOnCollector, Unblock,
     DropInclusive, Goto
<1>3. ASSUME NEW w \in Writer, LockGc(w) \/ InCollect(w)
      PROVE  LockHeld'
  BY <1>1, <1>3 DEF TypeOK, LockHeld, LockGc, InCollect, SpinLoad, SwapSentinel, UnlockGc,
     DropExclusive, Goto
<1>4. CASE UNCHANGED vars
  BY <1>4 DEF LockHeld, vars
<1> QED
  BY <1>2, <1>3, <1>4 DEF Next

\* No deadlock: a collection that spins while it holds gc_lock waits for operations inside
\* the spinlock, or for a collection about to leave it, and neither waits for gc_lock.
THEOREM SpinlockNeverStuck == Spec => []NeverStuck
<1>1. Init => LockHeld
  BY SpinlockAssumption DEF Init, LockHeld, Thread, SpinlockAssumption
<1>2. Inductive /\ LockHeld /\ [Next]_vars => LockHeld'
  BY StepLock DEF Inductive
<1>3. ASSUME Inductive, LockHeld, ~NeverStuck
      PROVE  FALSE
  <2>1. PICK t \in Thread : pc[t] # "idle"
    BY <1>3 DEF NeverStuck
  <2>2. \A u \in Thread : ~Runnable(u)
    BY <1>3 DEF NeverStuck
  <2>3. /\ pc \in [Thread -> ReaderPc \cup WriterPc] /\ gcLock \in Thread \cup {Nobody}
        /\ \A u \in Thread : u \in Reader \/ u \in Writer
    BY <1>3 DEF Inductive, TypeOK, Thread
  <2>4. \A u \in Thread : pc[u] \in {"idle", "block", "spin"}
    BY <2>2, <2>3 DEF Runnable, ReaderPc, WriterPc
  <2>5. Inclusive = {} /\ Exclusive = {}
    BY <2>4 DEF Inclusive, Exclusive, Thread
  <2>6. tracker = 0
    BY <1>3, <2>5, FS_EmptySet DEF Inductive, TrackerCounts
  <2>7. pc[t] = "block" /\ gcLock # Nobody
    BY <2>1, <2>2, <2>4, <2>6 DEF Runnable
  <2>8. gcLock \in Thread /\ pc[gcLock] = "spin"
    BY <1>3, <2>3, <2>4, <2>7 DEF LockHeld
  <2> QED
    BY <2>2, <2>6, <2>8 DEF Runnable
<1> QED
  BY <1>1, <1>2, <1>3, SpinlockInductive, PTL DEF Spec

\* The spinlock implements Warrants.
THEOREM SpinlockRefinement == Spec => ImplementsWarrants
<1>1. Init => Promise!WarrantInit
  BY SpinlockAssumption DEF Init, Promise!WarrantInit, Inclusive, Exclusive, Thread,
     SpinlockAssumption
<1>2. Inductive /\ [Next]_vars => [Promise!WarrantNext]_(Promise!warrantVars)
  <2> SUFFICES ASSUME Inductive, [Next]_vars
               PROVE  [Promise!WarrantNext]_(Promise!warrantVars)
    OBVIOUS
  <2>1. GuardsStep
    BY StepGuards DEF Inductive
  <2>2. /\ tracker < Sentinel => Exclusive = {}
        /\ tracker = 0 => Exclusive = {} /\ Inclusive = {}
    BY GuardsCounted, SpinlockAssumption DEF Inductive, TrackerCounts, TypeOK,
       SpinlockAssumption
  <2>3. Inclusive \subseteq Reader /\ Exclusive \subseteq Writer
    BY DEF Inclusive, Exclusive
  <2> QED
    BY <2>1, <2>2, <2>3 DEF GuardsStep, Promise!WarrantNext, Promise!warrantVars,
       Promise!GetWarrant, Promise!DropWarrant, Promise!GetExclusiveWarrant,
       Promise!DropExclusiveWarrant
<1> QED
  BY <1>1, <1>2, SpinlockInductive, PTL DEF Spec, ImplementsWarrants, Promise!WarrantSpec

=============================================================================
