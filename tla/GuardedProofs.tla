---------------------------- MODULE GuardedProofs ----------------------------
(* Proofs about Lockout, for any number of readers and writers, and about  *)
(* Guarded, for any number of users, collections and workers.              *)
EXTENDS Guarded, FiniteSetTheorems, TLAPS

(***************************************************************************)
(* The Lockout.                                                            *)
(***************************************************************************)

\* The holders of warrants are finitely many, fewer than the signpost.
LEMMA HoldersCounted ==
    /\ IsFiniteSet(Holding)
    /\ Cardinality(Holding) \in Nat
    /\ Cardinality(Holding) < Signpost
    /\ Cardinality(Holding) = 0 <=> Holding = {}
<1>1. Holding \subseteq Reader
  BY DEF Holding
<1>2. IsFiniteSet(Holding) /\ Cardinality(Holding) <= Cardinality(Reader)
  BY <1>1, FS_Subset, LockoutAssumption DEF LockoutAssumption
<1>3. Cardinality(Holding) \in Nat /\ Cardinality(Reader) \in Nat
  BY <1>2, FS_CardinalityType, LockoutAssumption DEF LockoutAssumption
<1> QED
  BY <1>2, <1>3, FS_EmptySet, LockoutAssumption DEF LockoutAssumption

\* A reader joins the holders, or leaves them.
LEMMA HolderJoins ==
    ASSUME NEW r \in Reader \ Holding, Holding' = Holding \cup {r}
    PROVE  Cardinality(Holding') = Cardinality(Holding) + 1
BY HoldersCounted, FS_AddElement

LEMMA HolderLeaves ==
    ASSUME NEW r \in Holding, Holding' = Holding \ {r}
    PROVE  Cardinality(Holding') = Cardinality(Holding) - 1
BY HoldersCounted, FS_RemoveElement

LEMMA InitInductive == Init => Inductive
<1> SUFFICES ASSUME Init PROVE Inductive
  OBVIOUS
<1>1. Holding = {} /\ Exclusive = {}
  BY LockoutAssumption DEF Init, Holding, Exclusive, Thread, LockoutAssumption
<1>2. count = Cardinality(Holding)
  BY <1>1, HoldersCounted DEF Init
<1>3. TypeOK
  BY LockoutAssumption DEF Init, TypeOK, Thread, LockoutAssumption, ReaderPc, WriterPc
<1> QED
  BY <1>1, <1>2, <1>3, LockoutAssumption DEF Init, Inductive, CountIsHolders, MutexOwned,
     ExclusiveAlone, SleepJustified, NoLostWakeup, Thread, LockoutAssumption

\* What every step does to the two sets of holders: nothing, or one thread joins or
\* leaves one of them, when the promise allows it.
HoldersStep ==
    \/ Holding' = Holding /\ Exclusive' = Exclusive /\ count' = count
    \/ \E r \in Reader \ Holding :
          /\ Holding' = Holding \cup {r} /\ Exclusive' = Exclusive
          /\ Exclusive = {} /\ count' = count + 1
    \/ \E r \in Holding :
          /\ Holding' = Holding \ {r} /\ Exclusive' = Exclusive
          /\ count' = count - 1
    \/ \E w \in Writer \ Exclusive :
          /\ Exclusive' = {w} /\ Holding' = Holding
          /\ Exclusive = {} /\ Holding = {} /\ count' = Signpost
    \/ \E w \in Exclusive :
          /\ Exclusive' = Exclusive \ {w} /\ Holding' = Holding
          /\ count' = 0

LEMMA StepHolders ==
    ASSUME Inductive, [Next]_vars
    PROVE  HoldersStep
<1>1. /\ pc \in [Thread -> ReaderPc \cup WriterPc] /\ count \in 0 .. Signpost
      /\ \A r \in Reader : pc[r] \in ReaderPc /\ seen[r] \in 0 .. Signpost
      /\ \A w \in Writer : pc[w] \in WriterPc
      /\ \A x \in Reader : x \in Thread /\ x \notin Writer
      /\ \A x \in Writer : x \in Thread /\ x \notin Reader
  BY LockoutAssumption DEF Inductive, TypeOK, Thread, LockoutAssumption
<1>2. /\ Exclusive = {} => count = Cardinality(Holding)
      /\ Exclusive # {} => count = Signpost
      /\ Exclusive # {} => Holding = {}
      /\ \A v, w \in Exclusive : v = w
  BY DEF Inductive, CountIsHolders, ExclusiveAlone
<1>3. /\ Cardinality(Holding) < Signpost /\ Cardinality(Holding) \in Nat
      /\ Cardinality(Holding) = 0 <=> Holding = {}
      /\ Signpost \in Nat
  BY HoldersCounted, LockoutAssumption DEF LockoutAssumption
<1>4. ASSUME NEW r \in Reader, ReaderStep(r)
      PROVE  HoldersStep
  <2>1. CASE pc[r] = "fast" /\ count' = seen[r] + 1 /\ count = seen[r] /\ FastPath(r)
             /\ seen[r] # Signpost
    BY <1>1, <1>2, <2>1 DEF FastPath, CompareExchange, Goto, HoldersStep, Holding, Exclusive
  <2>2. CASE SlowPath(r)
    BY <1>1, <1>2, <2>2 DEF SlowPath, CompareExchange, Goto, HoldersStep, Holding, Exclusive
  <2>3. CASE DropWarrant(r)
    BY <1>1, <1>2, <2>3 DEF DropWarrant, CompareExchange, Goto, HoldersStep, Holding, Exclusive
  <2>4. CASE StartGet(r) \/ LockSlowPath(r) \/ LoadSlowPath(r) \/ Wait(r) \/ WakeUp(r)
             \/ UnlockSlowPath(r) \/ LoadDrop(r)
    BY <1>1, <2>4 DEF StartGet, LockSlowPath, LoadSlowPath, Wait, WakeUp, UnlockSlowPath,
       LoadDrop, LoadCount, Goto, HoldersStep, Holding, Exclusive
  <2>5. CASE FastPath(r) /\ (seen[r] = Signpost \/ count # seen[r])
    BY <1>1, <2>5 DEF FastPath, CompareExchange, Goto, HoldersStep, Holding, Exclusive
  <2> QED
    BY <1>4, <2>1, <2>2, <2>3, <2>4, <2>5 DEF ReaderStep, InGetWarrant, FastPath,
       CompareExchange
<1>5. ASSUME NEW w \in Writer, WriterStep(w)
      PROVE  HoldersStep
  <2>1. CASE GetExclusive(w)
    BY <1>1, <1>2, <1>3, <2>1 DEF GetExclusive, Goto, HoldersStep, Holding, Exclusive
  <2>2. CASE ClearSignpost(w)
    BY <1>1, <2>2 DEF ClearSignpost, Goto, HoldersStep, Holding, Exclusive
  <2>3. CASE LockExclusive(w) \/ NotifyAll(w) \/ UnlockExclusive(w)
    BY <1>1, <2>3 DEF LockExclusive, NotifyAll, UnlockExclusive, Goto, HoldersStep, Holding,
       Exclusive
  <2> QED
    BY <1>5, <2>1, <2>2, <2>3 DEF WriterStep, InDropExclusive
<1>6. CASE UNCHANGED vars
  BY <1>6 DEF vars, HoldersStep, Holding, Exclusive
<1> QED
  BY <1>4, <1>5, <1>6 DEF Next

LEMMA StepCount ==
    ASSUME Inductive, HoldersStep
    PROVE  CountIsHolders' /\ ExclusiveAlone' /\ count' \in 0 .. Signpost
<1>1. /\ count = IF Exclusive # {} THEN Signpost ELSE Cardinality(Holding)
      /\ \A v, w \in Exclusive : v = w
      /\ Exclusive # {} => Holding = {}
      /\ count \in 0 .. Signpost
  BY DEF Inductive, CountIsHolders, ExclusiveAlone, TypeOK
<1>2. /\ Cardinality(Holding) < Signpost /\ Cardinality(Holding) \in Nat /\ Signpost \in Nat
      /\ Cardinality(Holding) = 0 <=> Holding = {}
  BY HoldersCounted, LockoutAssumption DEF LockoutAssumption
<1>3. CASE Holding' = Holding /\ Exclusive' = Exclusive /\ count' = count
  BY <1>1, <1>3 DEF CountIsHolders, ExclusiveAlone
<1>4. CASE \E r \in Reader \ Holding :
              /\ Holding' = Holding \cup {r} /\ Exclusive' = Exclusive
              /\ Exclusive = {} /\ count' = count + 1
  <2>1. PICK r \in Reader \ Holding :
              /\ Holding' = Holding \cup {r} /\ Exclusive' = Exclusive
              /\ Exclusive = {} /\ count' = count + 1
    BY <1>4
  <2>2. Cardinality(Holding') = Cardinality(Holding) + 1
    BY <2>1, HolderJoins
  <2> QED
    BY <1>1, <1>2, <2>1, <2>2 DEF CountIsHolders, ExclusiveAlone
<1>5. CASE \E r \in Holding :
              /\ Holding' = Holding \ {r} /\ Exclusive' = Exclusive
              /\ count' = count - 1
  <2>1. PICK r \in Holding : Holding' = Holding \ {r} /\ Exclusive' = Exclusive
                             /\ count' = count - 1
    BY <1>5
  <2>2. Exclusive = {} /\ count = Cardinality(Holding) /\ Cardinality(Holding) # 0
    BY <1>1, <1>2
  <2> QED
    BY <1>2, <2>1, <2>2, HolderLeaves DEF CountIsHolders, ExclusiveAlone
<1>6. CASE \E w \in Writer \ Exclusive :
              /\ Exclusive' = {w} /\ Holding' = Holding
              /\ Exclusive = {} /\ Holding = {} /\ count' = Signpost
  BY <1>2, <1>6 DEF CountIsHolders, ExclusiveAlone
<1>7. CASE \E w \in Exclusive :
              /\ Exclusive' = Exclusive \ {w} /\ Holding' = Holding
              /\ count' = 0
  <2>1. Exclusive' = {} /\ Holding' = {} /\ count' = 0
    BY <1>1, <1>7
  <2> QED
    BY <1>2, <2>1, FS_EmptySet DEF CountIsHolders, ExclusiveAlone
<1> QED
  BY <1>3, <1>4, <1>5, <1>6, <1>7 DEF HoldersStep

LEMMA StepType ==
    ASSUME Inductive, [Next]_vars, count' \in 0 .. Signpost
    PROVE  TypeOK'
<1>1. TypeOK
  BY DEF Inductive
<1>2. \A x \in Reader : x \in Thread /\ x \notin Writer
  BY LockoutAssumption DEF Thread, LockoutAssumption
<1>3. \A x \in Writer : x \in Thread /\ x \notin Reader
  BY LockoutAssumption DEF Thread, LockoutAssumption
<1>4. ASSUME NEW r \in Reader, ReaderStep(r)
      PROVE  TypeOK'
  BY <1>1, <1>2, <1>3, <1>4 DEF TypeOK, ReaderStep, InGetWarrant, StartGet, FastPath,
     LockSlowPath, LoadSlowPath, Wait, WakeUp, SlowPath, UnlockSlowPath, LoadDrop,
     DropWarrant, CompareExchange, LoadCount, Goto, ReaderPc, WriterPc
<1>5. ASSUME NEW w \in Writer, WriterStep(w)
      PROVE  TypeOK'
  BY <1>1, <1>2, <1>3, <1>5 DEF TypeOK, WriterStep, InDropExclusive, GetExclusive,
     LockExclusive, ClearSignpost, NotifyAll, UnlockExclusive, Goto, ReaderPc, WriterPc
<1>6. CASE UNCHANGED vars
  BY <1>1, <1>6 DEF TypeOK, vars
<1> QED
  BY <1>4, <1>5, <1>6 DEF Next

\* The mutex keeps its owner until the owner lets go of it, and a reader that has seen
\* the signpost under the mutex is asleep before it can be cleared.
LEMMA StepMutex ==
    ASSUME Inductive, [Next]_vars
    PROVE  MutexOwned' /\ SleepJustified' /\ NoLostWakeup'
<1>1. /\ pc \in [Thread -> ReaderPc \cup WriterPc]
      /\ seen \in [Reader -> 0 .. Signpost]
      /\ \A w \in Writer : pc[w] \in WriterPc
      /\ \A x \in Reader : x \in Thread /\ x \notin Writer /\ x # Nobody
      /\ \A x \in Writer : x \in Thread /\ x \notin Reader /\ x # Nobody
  BY LockoutAssumption DEF Inductive, TypeOK, Thread, LockoutAssumption
<1>2. MutexOwned /\ SleepJustified /\ NoLostWakeup
  BY DEF Inductive
<1>3. count = Signpost => Exclusive # {}
  BY HoldersCounted, LockoutAssumption DEF Inductive, CountIsHolders, LockoutAssumption
<1>4. ASSUME NEW r \in Reader, ReaderStep(r)
      PROVE  MutexOwned' /\ SleepJustified' /\ NoLostWakeup'
  <2>1. Exclusive' = Exclusive
    BY <1>1, <1>4 DEF ReaderStep, InGetWarrant, StartGet, FastPath, LockSlowPath,
       LoadSlowPath, Wait, WakeUp, SlowPath, UnlockSlowPath, LoadDrop, DropWarrant,
       CompareExchange, Goto, Exclusive
  <2>2. MutexOwned'
    BY <1>1, <1>2, <1>4 DEF MutexOwned, ReaderStep, InGetWarrant, StartGet, FastPath,
       LockSlowPath, LoadSlowPath, Wait, WakeUp, SlowPath, UnlockSlowPath, LoadDrop,
       DropWarrant, CompareExchange, LoadCount, Goto
  <2>3. SleepJustified'
    BY <1>1, <1>2, <1>3, <1>4, <2>1 DEF SleepJustified, ReaderStep, InGetWarrant, StartGet,
       FastPath, LockSlowPath, LoadSlowPath, Wait, WakeUp, SlowPath, UnlockSlowPath,
       LoadDrop, DropWarrant, CompareExchange, LoadCount, Goto
  <2>4. NoLostWakeup'
    <3>1. \A w \in Writer : pc'[w] = pc[w]
      BY <1>1, <1>4 DEF ReaderStep, InGetWarrant, StartGet, FastPath, LockSlowPath,
         LoadSlowPath, Wait, WakeUp, SlowPath, UnlockSlowPath, LoadDrop, DropWarrant,
         CompareExchange, Goto
    <3>2. CASE Wait(r)
      BY <1>2, <3>1, <3>2 DEF NoLostWakeup, SleepJustified, Wait, Exclusive
    <3>3. CASE waiting' = waiting
      BY <1>2, <3>1, <3>3 DEF NoLostWakeup
    <3> QED
      BY <1>4, <3>2, <3>3 DEF ReaderStep, InGetWarrant, StartGet, FastPath, LockSlowPath,
         LoadSlowPath, WakeUp, SlowPath, UnlockSlowPath, LoadDrop, DropWarrant
  <2> QED
    BY <2>2, <2>3, <2>4
<1>5. ASSUME NEW w \in Writer, WriterStep(w)
      PROVE  MutexOwned' /\ SleepJustified' /\ NoLostWakeup'
  <2>1. MutexOwned'
    BY <1>1, <1>2, <1>5 DEF MutexOwned, WriterStep, InDropExclusive, GetExclusive,
       LockExclusive, ClearSignpost, NotifyAll, UnlockExclusive, Goto
  <2>2. SleepJustified'
    <3>1. CASE ClearSignpost(w)
      BY <1>1, <1>2, <3>1 DEF SleepJustified, MutexOwned, ClearSignpost, Goto
    <3>2. CASE GetExclusive(w) \/ LockExclusive(w) \/ NotifyAll(w) \/ UnlockExclusive(w)
      BY <1>1, <1>2, <3>2 DEF SleepJustified, GetExclusive, LockExclusive, NotifyAll,
         UnlockExclusive, Goto, Exclusive
    <3> QED
      BY <1>5, <3>1, <3>2 DEF WriterStep, InDropExclusive
  <2>3. NoLostWakeup'
    BY <1>1, <1>2, <1>5 DEF NoLostWakeup, WriterStep, InDropExclusive, GetExclusive,
       LockExclusive, ClearSignpost, NotifyAll, UnlockExclusive, Goto
  <2> QED
    BY <2>1, <2>2, <2>3
<1>6. CASE UNCHANGED vars
  BY <1>2, <1>6 DEF vars, MutexOwned, SleepJustified, NoLostWakeup, Exclusive
<1> QED
  BY <1>4, <1>5, <1>6 DEF Next

LEMMA StepInductive == Inductive /\ [Next]_vars => Inductive'
<1> SUFFICES ASSUME Inductive, [Next]_vars PROVE Inductive'
  OBVIOUS
<1>1. HoldersStep
  BY StepHolders
<1>2. CountIsHolders' /\ ExclusiveAlone' /\ count' \in 0 .. Signpost
  BY <1>1, StepCount
<1>3. TypeOK'
  BY <1>2, StepType
<1> QED
  BY <1>2, <1>3, StepMutex DEF Inductive

\* lockout.rs keeps its invariant whatever the threads do.
THEOREM LockoutInductive == Spec => []Inductive
<1>1. Init => Inductive
  BY InitInductive
<1>2. Inductive /\ [Next]_vars => Inductive'
  BY StepInductive
<1> QED
  BY <1>1, <1>2, PTL DEF Spec

\* Type correctness of counter, mutex, sleepers and program counters.
THEOREM LockoutTypes == Spec => []TypeOK
<1>1. Inductive => TypeOK
  BY DEF Inductive
<1> QED
  BY <1>1, LockoutInductive, PTL

\* The counter of lockout.rs tells who holds warrants, for any number of threads.
THEOREM LockoutCount == Spec => []CountIsHolders
<1>1. Inductive => CountIsHolders
  BY DEF Inductive
<1> QED
  BY <1>1, LockoutInductive, PTL

\* No wake-up is lost: get_warrant sleeps only while ExclusiveWarrant::drop is to come.
THEOREM LockoutNoLostWakeup == Spec => []NoLostWakeup
<1>1. Inductive => NoLostWakeup
  BY DEF Inductive
<1> QED
  BY <1>1, LockoutInductive, PTL

\* Whoever is inside get_warrant or has an exclusive warrant never waits for ever for the
\* others: a sleeper is waited for by no one and has a collection to notify it, and the
\* owner of the mutex is always able to go on.
THEOREM LockoutNeverStuck == Spec => []NeverStuck
<1>1. ASSUME Inductive, NEW t \in Thread, Engaged(t), \A u \in Thread : ~Runnable(u)
      PROVE  FALSE
  <2>1. /\ mutex \in Thread \cup {Nobody}
        /\ \A u \in Thread : u \in Reader \/ u \in Writer
    BY <1>1, LockoutAssumption DEF Inductive, TypeOK, Thread, LockoutAssumption
  <2>2. mutex = Nobody
    <3> SUFFICES ASSUME mutex \in Thread PROVE FALSE
      BY <2>1
    <3>1. pc[mutex] \in {"load", "decide", "clear", "notify", "unlock"}
      BY <1>1, <2>1 DEF Inductive, MutexOwned
    <3> QED
      BY <1>1, <2>1, <3>1 DEF Runnable, Engaged
  <2>3. t \in waiting
    BY <1>1, <2>2 DEF Runnable
  <2>4. PICK w \in Writer : pc[w] \in {"exclusive", "clear", "notify"}
    BY <1>1, <2>3 DEF Inductive, NoLostWakeup
  <2>5. w \in Thread /\ w \notin Reader
    BY LockoutAssumption DEF Thread, LockoutAssumption
  <2> QED
    BY <1>1, <2>1, <2>2, <2>4, <2>5 DEF Runnable, Engaged
<1>2. Inductive => NeverStuck
  BY <1>1 DEF NeverStuck
<1> QED
  BY <1>2, LockoutInductive, PTL

\* Lockout implements Warrants: many warrants or one exclusive warrant.
THEOREM LockoutRefinement == Spec => ImplementsWarrants
<1>1. Init => Promise!WarrantInit
  BY LockoutAssumption DEF Init, Promise!WarrantInit, Holding, Exclusive, Thread,
     LockoutAssumption
<1>2. Inductive /\ [Next]_vars => [Promise!WarrantNext]_(Promise!warrantVars)
  <2> SUFFICES ASSUME Inductive, [Next]_vars
               PROVE  [Promise!WarrantNext]_(Promise!warrantVars)
    OBVIOUS
  <2>1. HoldersStep
    BY StepHolders
  <2>2. Holding \subseteq Reader /\ Exclusive \subseteq Writer
    BY DEF Holding, Exclusive
  <2> QED
    BY <2>1, <2>2 DEF HoldersStep, Promise!WarrantNext, Promise!warrantVars,
       Promise!GetWarrant, Promise!DropWarrant, Promise!GetExclusiveWarrant,
       Promise!DropExclusiveWarrant
<1> QED
  BY <1>1, <1>2, LockoutInductive, PTL DEF Spec, ImplementsWarrants, Promise!WarrantSpec

(***************************************************************************)
(* The guards over it.                                                     *)
(***************************************************************************)

\* Every step is one of the Lockout, or leaves the Lockout alone.
LEMMA StepOfLockout == [GuardedNext]_guardedVars => [Next]_vars
<1>1. ASSUME NEW r \in Reader,
             InGet(r) \/ UnlockInner(r) \/ DropGuard(r) \/ GcRef(r) \/ GcRefMut(r)
               \/ GcMutexGuard(r) \/ GcRwLockReadGuard(r) \/ GcRwLockWriteGuard(r)
      PROVE  [Next]_vars
  BY <1>1 DEF InGet, UnlockInner, DropGuard, GcRef, GcRefMut, GcMutexGuard,
     GcRwLockReadGuard, GcRwLockWriteGuard, Wrapped, LockInner, FailInner, Next, ReaderStep
<1>2. ASSUME NEW r \in Reader, NEW c \in Calls, Get(r, c)
      PROVE  [Next]_vars
  BY <1>2 DEF Get, Next, ReaderStep
<1>3. ASSUME NEW w \in Writer, Collect(w) \/ DropWarrants(w)
      PROVE  [Next]_vars
  BY <1>3 DEF Collect, DropWarrants, Next, WriterStep
<1>4. CASE Scanning
  BY <1>4 DEF Scanning, BeginSearch, StampData, SearchData, EndScanInner, ScanRefCell,
     ScanMutex, ScanRwLock, ScanInner
<1>5. CASE UNCHANGED guardedVars
  BY <1>5 DEF guardedVars
<1> QED
  BY <1>1, <1>2, <1>3, <1>4, <1>5 DEF GuardedNext

LEMMA GuardedIsLockout == GuardedSpec => Spec
<1>1. GuardedInit => Init
  BY DEF GuardedInit
<1> QED
  BY <1>1, StepOfLockout, PTL DEF GuardedSpec, Spec

\* The calls of every kind of lock, in one set.
LEMMA CallsTyped ==
    ASSUME kind \in Kind
    PROVE  \A c \in Calls \cup {NoCall} : c.write \in BOOLEAN /\ c.pending \in BOOLEAN
<1>1. NoCall.write = FALSE /\ NoCall.pending = FALSE
  BY DEF NoCall
<1>2. Calls \in {RefCellCalls, MutexCalls, RwLockCalls}
  BY DEF Kind, Calls
<1>3. \A c \in RefCellCalls : c.write \in BOOLEAN /\ c.pending \in BOOLEAN
  BY DEF RefCellCalls
<1>4. \A c \in MutexCalls : c.write \in BOOLEAN /\ c.pending \in BOOLEAN
  BY DEF MutexCalls
<1>5. \A c \in RwLockCalls : c.write \in BOOLEAN /\ c.pending \in BOOLEAN
  BY DEF RwLockCalls
<1> QED
  BY <1>1, <1>2, <1>3, <1>4, <1>5

\* What the guarded data's own variables are, apart from the Lockout's.
Shape ==
    /\ kind \in Kind
    /\ call \in [Reader -> Calls \cup {NoCall}]
    /\ shared \subseteq Reader \cup Worker
    /\ unique \subseteq Reader \cup Worker
    /\ \A t \in unique : InnerHolders = {t}
    /\ poisoned \in BOOLEAN
    /\ pass \in {1, 2}
    /\ worker \in [Worker -> {"ready", "scan", "unlock", "done"}]
    /\ marked \in BOOLEAN /\ missed \in BOOLEAN
    /\ \A r \in Reader : r \notin Worker

Good == Shape /\ HeldInGuards /\ ScansAlone /\ ScanFindsLockFree

LEMMA GoodIsInductive == Inductive /\ Good => GuardedInductive
BY DEF Good, Shape, GuardedInductive, GuardedTypeOK, Inductive

LEMMA InductiveIsGood == GuardedInductive => Inductive /\ Good
BY GuardedAssumption DEF Good, Shape, GuardedInductive, GuardedTypeOK, GuardedAssumption

\* While a collection has the exclusive warrant, and only then, no user has a guard.
LEMMA WarrantedAlone ==
    ASSUME Inductive
    PROVE  /\ Warranted => \A r \in Reader : pc[r] # "holds"
           /\ Warranted => count # 0
           /\ \A v, w \in Writer : pc[v] = "exclusive" /\ pc[w] = "exclusive" => v = w
<1>1. Warranted => Exclusive # {}
  BY DEF Warranted, Exclusive
<1>2. Signpost \in Nat /\ Signpost # 0
  BY HoldersCounted, LockoutAssumption DEF LockoutAssumption
<1> QED
  BY <1>1, <1>2 DEF Inductive, ExclusiveAlone, CountIsHolders, Exclusive, Holding

-----------------------------------------------------------------------------
(* Users.                                                                  *)

\* The Lockout's steps outside Warrant::drop leave guards where they are.
LEMMA GetStep ==
    ASSUME Inductive, Good, NEW r \in Reader, InGet(r)
    PROVE  Good'
<1>1. /\ pc \in [Thread -> ReaderPc \cup WriterPc]
      /\ r \in Thread
      /\ \A w \in Writer : w # r
  BY LockoutAssumption DEF Inductive, TypeOK, Thread, LockoutAssumption
<1>2. pc[r] # "holds" /\ \A t \in Thread : t # r => pc'[t] = pc[t]
  BY <1>1 DEF InGet, InGetWarrant, FastPath, LockSlowPath, LoadSlowPath, Wait, WakeUp,
     SlowPath, UnlockSlowPath, CompareExchange, Goto
<1>3. Shape' /\ ScanFindsLockFree'
  BY DEF InGet, innerVars, scanVars, Good, Shape, Calls, InnerHolders, ScanFindsLockFree
<1>4. HeldInGuards'
  BY <1>1, <1>2 DEF InGet, innerVars, Good, HeldInGuards, InnerHolders, Thread
<1>5. ScansAlone'
  BY <1>1, <1>2 DEF InGet, innerVars, scanVars, Good, ScansAlone, InnerHolders, Scans,
     Warranted, Thread
<1> QED
  BY <1>3, <1>4, <1>5 DEF Good

LEMMA StartStep ==
    ASSUME Inductive, Good, NEW r \in Reader, NEW c \in Calls, Get(r, c)
    PROVE  Good'
<1>1. /\ pc \in [Thread -> ReaderPc \cup WriterPc]
      /\ r \in Thread
      /\ \A w \in Writer : w # r
  BY LockoutAssumption DEF Inductive, TypeOK, Thread, LockoutAssumption
<1>2. pc[r] = "idle" /\ \A t \in Thread : t # r => pc'[t] = pc[t]
  BY <1>1 DEF Get, StartGet, Goto
<1>3. Shape' /\ ScanFindsLockFree'
  BY DEF Get, scanVars, Good, Shape, Calls, InnerHolders, ScanFindsLockFree
<1>4. HeldInGuards'
  BY <1>1, <1>2 DEF Get, Good, Shape, HeldInGuards, InnerHolders, Thread
<1>5. ScansAlone'
  BY <1>1, <1>2 DEF Get, scanVars, Good, ScansAlone, InnerHolders, Scans, Warranted, Thread
<1> QED
  BY <1>3, <1>4, <1>5 DEF Good

\* Taking the inner lock, or failing to, inside a guard.
LEMMA BorrowStep ==
    ASSUME Inductive, Good, NEW r \in Reader, LockInner(r) \/ FailInner(r)
    PROVE  Good'
<1>1. /\ pc[r] = "holds" /\ call[r].pending /\ r \notin InnerHolders
      /\ UNCHANGED <<pc, kind, scanVars>>
  BY DEF LockInner, FailInner, AtInnerLock, vars
<1>2. call[r].write \in BOOLEAN
  BY CallsTyped DEF Good, Shape
<1>3. CASE LockInner(r)
  <2>1. InnerHolders' = InnerHolders \cup {r} /\ UNCHANGED call
    BY <1>2, <1>3 DEF LockInner, Lock, InnerHolders
  <2>2. \A t \in unique' : InnerHolders' = {t}
    BY <1>2, <1>3, <2>1 DEF LockInner, Lock, Available, InnerHolders
  <2>3. Shape'
    BY <1>1, <1>2, <1>3, <2>2 DEF LockInner, Lock, Good, Shape, Calls, scanVars
  <2>4. HeldInGuards' /\ ScanFindsLockFree'
    BY <1>1, <2>1 DEF Good, HeldInGuards, ScanFindsLockFree, scanVars
  <2>5. ScansAlone'
    BY <1>1, <2>1 DEF Good, Shape, ScansAlone, Scans, Warranted, scanVars
  <2> QED
    BY <2>3, <2>4, <2>5 DEF Good
<1>4. CASE FailInner(r)
  <2>1. UNCHANGED <<shared, unique, poisoned>> /\ call' = [call EXCEPT ![r] = NoCall]
    BY <1>4 DEF FailInner
  <2>2. Shape'
    BY <1>1, <2>1 DEF Good, Shape, Calls, scanVars, InnerHolders
  <2>3. HeldInGuards' /\ ScanFindsLockFree'
    BY <1>1, <2>1 DEF Good, Shape, HeldInGuards, ScanFindsLockFree, scanVars, InnerHolders
  <2>4. ScansAlone'
    BY <1>1, <2>1 DEF Good, ScansAlone, Scans, Warranted, scanVars, InnerHolders
  <2> QED
    BY <2>2, <2>3, <2>4 DEF Good
<1> QED
  BY <1>3, <1>4

LEMMA UnlockStep ==
    ASSUME Inductive, Good, NEW r \in Reader, UnlockInner(r)
    PROVE  Good'
<1>1. /\ r \in InnerHolders /\ UNCHANGED <<pc, kind, scanVars>>
      /\ shared' = shared \ {r} /\ unique' = unique \ {r}
      /\ call' = [call EXCEPT ![r] = NoCall]
      /\ poisoned' \in {poisoned, TRUE}
  BY DEF UnlockInner, Unlock, vars
<1>2. InnerHolders' = InnerHolders \ {r}
  BY <1>1 DEF InnerHolders
<1>3. \A t \in unique' : InnerHolders' = {t}
  BY <1>1, <1>2 DEF Good, Shape
<1>4. Shape'
  BY <1>1, <1>3 DEF Good, Shape, Calls, scanVars
<1>5. HeldInGuards' /\ ScanFindsLockFree'
  BY <1>1, <1>2 DEF Good, Shape, HeldInGuards, ScanFindsLockFree, scanVars
<1>6. ScansAlone'
  BY <1>1, <1>2 DEF Good, Shape, ScansAlone, Scans, Warranted, scanVars
<1> QED
  BY <1>4, <1>5, <1>6 DEF Good

\* A GcGuard is dropped only when nothing is borrowed through it.
LEMMA DropStep ==
    ASSUME Inductive, Good, NEW r \in Reader, DropGuard(r)
    PROVE  Good'
<1>1. /\ pc \in [Thread -> ReaderPc \cup WriterPc]
      /\ r \in Thread
      /\ \A w \in Writer : w # r
  BY LockoutAssumption DEF Inductive, TypeOK, Thread, LockoutAssumption
<1>2. \A t \in Thread : t # r => pc'[t] = pc[t]
  BY <1>1 DEF DropGuard, LoadDrop, DropWarrant, CompareExchange, Goto
<1>3. r \notin InnerHolders
  BY DEF DropGuard, NoCall, Good, HeldInGuards
<1>4. Shape' /\ ScanFindsLockFree'
  BY DEF DropGuard, innerVars, scanVars, Good, Shape, Calls, InnerHolders, ScanFindsLockFree
<1>5. HeldInGuards'
  BY <1>1, <1>2, <1>3 DEF DropGuard, innerVars, Good, HeldInGuards, InnerHolders, Thread
<1>6. ScansAlone'
  BY <1>1, <1>2 DEF DropGuard, innerVars, scanVars, Good, ScansAlone, InnerHolders, Scans,
     Warranted, Thread
<1> QED
  BY <1>4, <1>5, <1>6 DEF Good

-----------------------------------------------------------------------------
(* Collections.                                                            *)

LEMMA CollectStep ==
    ASSUME Inductive, Good, NEW w \in Writer, Collect(w)
    PROVE  Good'
<1>1. /\ pc \in [Thread -> ReaderPc \cup WriterPc]
      /\ w \in Thread
      /\ \A r \in Reader : r # w /\ r \in Thread
  BY LockoutAssumption DEF Inductive, TypeOK, Thread, LockoutAssumption
<1>2. /\ count = 0 /\ pc' = [pc EXCEPT ![w] = "exclusive"]
      /\ worker' = [k \in Worker |-> "ready"] /\ pass' = 1 /\ marked' = FALSE
      /\ UNCHANGED <<kind, innerVars, missed>>
  BY DEF Collect, GetExclusive, Goto, BeginPass
<1>3. ~Warranted
  BY <1>2, WarrantedAlone
<1>4. Shape' /\ ScanFindsLockFree'
  BY <1>2 DEF innerVars, Good, Shape, Calls, InnerHolders, ScanFindsLockFree
<1>5. HeldInGuards'
  BY <1>1, <1>2 DEF innerVars, Good, HeldInGuards, InnerHolders
<1>6. ScansAlone'
  BY <1>2, <1>3 DEF innerVars, Good, ScansAlone, InnerHolders, Scans
<1> QED
  BY <1>4, <1>5, <1>6 DEF Good

LEMMA DropExclusiveStep ==
    ASSUME Inductive, Good, NEW w \in Writer, DropWarrants(w)
    PROVE  Good'
<1>1. /\ pc \in [Thread -> ReaderPc \cup WriterPc]
      /\ w \in Thread
      /\ \A r \in Reader : r # w /\ r \in Thread
  BY LockoutAssumption DEF Inductive, TypeOK, Thread, LockoutAssumption
<1>2. /\ \A t \in Thread : t # w => pc'[t] = pc[t]
      /\ UNCHANGED <<kind, innerVars, scanVars>>
      /\ pc[w] = "exclusive" => \A k \in Worker : worker[k] \in {"ready", "done"}
  BY <1>1 DEF DropWarrants, InDropExclusive, LockExclusive, ClearSignpost, NotifyAll,
     UnlockExclusive, Goto
<1>3. Shape' /\ ScanFindsLockFree'
  BY <1>2 DEF innerVars, scanVars, Good, Shape, Calls, InnerHolders, ScanFindsLockFree
<1>4. HeldInGuards'
  BY <1>1, <1>2 DEF innerVars, Good, HeldInGuards, InnerHolders
<1>5. \A k \in Worker : Scans(k) => Warranted'
  <2> SUFFICES ASSUME NEW k \in Worker, Scans(k) PROVE Warranted'
    OBVIOUS
  <2>1. PICK v \in Writer : pc[v] = "exclusive"
    BY DEF Good, ScansAlone, Warranted
  <2>2. v # w
    BY <1>2, <2>1 DEF Scans
  <2> QED
    BY <1>2, <2>1, <2>2 DEF Warranted, Thread
<1>6. ScansAlone'
  BY <1>2, <1>5 DEF innerVars, scanVars, Good, ScansAlone, InnerHolders, Scans
<1> QED
  BY <1>3, <1>4, <1>6 DEF Good

\* Data is handed to one worker, or to none: nobody is scanning yet.
LEMMA AssignStep ==
    ASSUME Inductive, Good,
           BeginSearch \/ \E k \in Worker : StampData(k) \/ SearchData(k)
    PROVE  Good'
<1>1. Warranted /\ UNCHANGED <<pc, kind, innerVars, missed>>
  BY DEF BeginSearch, StampData, SearchData, vars
<1>2. HeldInGuards' /\ ScanFindsLockFree'
  BY <1>1 DEF innerVars, Good, HeldInGuards, InnerHolders, ScanFindsLockFree
<1>3. CASE BeginSearch
  BY <1>1, <1>2, <1>3 DEF BeginSearch, BeginPass, innerVars, Good, Shape, Calls, InnerHolders,
     ScansAlone, Scans, Warranted
<1>4. CASE \E k \in Worker : StampData(k)
  <2>1. PICK k \in Worker : StampData(k)
    BY <1>4
  <2>2. /\ \A j \in Worker : worker[j] = "ready"
        /\ worker' = [j \in Worker |-> IF j = k THEN "scan" ELSE "done"]
        /\ pass = 1 /\ UNCHANGED <<pass, marked>>
    BY <2>1 DEF StampData
  <2>3. Shape'
    BY <1>1, <2>2 DEF innerVars, Good, Shape, Calls, InnerHolders
  <2>4. ScansAlone'
    BY <1>1, <2>2 DEF innerVars, Good, Shape, InnerHolders, ScansAlone, Scans, Warranted
  <2> QED
    BY <1>2, <2>3, <2>4 DEF Good
<1>5. CASE \E k \in Worker : SearchData(k)
  <2>1. PICK k \in Worker : SearchData(k)
    BY <1>5
  <2>2. /\ pass = 2 /\ worker[k] = "ready" /\ marked' = TRUE /\ UNCHANGED pass
        /\ worker' = [worker EXCEPT ![k] = IF marked THEN "done" ELSE "scan"]
    BY <2>1 DEF SearchData
  <2>3. Shape'
    BY <1>1, <2>2 DEF innerVars, Good, Shape, Calls, InnerHolders
  <2>4. \A i, j \in Worker : Scans(i)' /\ Scans(j)' => i = j
    <3>1. CASE marked
      BY <2>2, <3>1 DEF Good, Shape, ScansAlone, Scans
    <3>2. CASE ~marked
      BY <2>2, <3>2 DEF Good, Shape, ScansAlone, Scans
    <3> QED
      BY <3>1, <3>2
  <2>5. ScansAlone'
    BY <1>1, <2>2, <2>4 DEF innerVars, Good, Shape, InnerHolders, ScansAlone, Scans, Warranted
  <2> QED
    BY <1>2, <2>3, <2>5 DEF Good
<1> QED
  BY <1>3, <1>4, <1>5

\* The heart of it: a scan finds the inner lock free. Users hold it inside guards, which
\* the exclusive warrant excludes, and no other worker scans.
LEMMA LockFree ==
    ASSUME Inductive, Good, NEW k \in Worker, worker[k] = "scan", NEW write \in BOOLEAN
    PROVE  Available(write) /\ InnerHolders = {}
<1>1. Warranted
  BY DEF Good, ScansAlone, Scans
<1>2. \A r \in Reader : r \notin InnerHolders
  BY <1>1, WarrantedAlone DEF Good, HeldInGuards
<1>3. \A j \in Worker : j \notin InnerHolders
  BY DEF Good, ScansAlone, Scans
<1>4. InnerHolders = {}
  BY <1>2, <1>3 DEF Good, Shape, InnerHolders
<1> QED
  BY <1>4 DEF Available, InnerHolders

LEMMA ScanStep ==
    ASSUME Inductive, Good, NEW k \in Worker, NEW write \in BOOLEAN, ScanInner(k, write)
    PROVE  Good'
<1>1. Available(write) /\ InnerHolders = {}
  BY LockFree DEF ScanInner
<1>2. /\ worker[k] = "scan" /\ worker' = [worker EXCEPT ![k] = "unlock"]
      /\ Lock(k, write) /\ UNCHANGED <<pc, kind, call, poisoned, pass, marked, missed>>
  BY <1>1 DEF ScanInner, vars
<1>3. InnerHolders' = {k} /\ unique' \subseteq {k} /\ shared' \subseteq {k}
  BY <1>1, <1>2 DEF Lock, InnerHolders
<1>4. Shape' /\ ScanFindsLockFree'
  BY <1>2, <1>3 DEF Good, Shape, Calls, ScanFindsLockFree
<1>5. HeldInGuards'
  BY <1>2, <1>3 DEF Good, Shape, HeldInGuards
<1>6. \A j \in Worker : j # k => ~Scans(j) /\ worker'[j] = worker[j]
  BY <1>2 DEF Good, Shape, ScansAlone, Scans
<1>7. ScansAlone'
  BY <1>2, <1>3, <1>6 DEF Good, Shape, ScansAlone, Scans, Warranted
<1> QED
  BY <1>4, <1>5, <1>7 DEF Good

LEMMA EndScanStep ==
    ASSUME Inductive, Good, NEW k \in Worker, EndScanInner(k)
    PROVE  Good'
<1>1. /\ worker[k] = "unlock" /\ worker' = [worker EXCEPT ![k] = "done"]
      /\ shared' = shared \ {k} /\ unique' = unique \ {k}
      /\ UNCHANGED <<pc, kind, call, poisoned, pass, marked, missed>>
  BY DEF EndScanInner, Unlock, vars
<1>2. InnerHolders' = InnerHolders \ {k}
  BY <1>1 DEF InnerHolders
<1>3. \A t \in unique' : InnerHolders' = {t}
  BY <1>1, <1>2 DEF Good, Shape
<1>4. Shape' /\ ScanFindsLockFree'
  BY <1>1, <1>3 DEF Good, Shape, Calls, ScanFindsLockFree
<1>5. HeldInGuards'
  BY <1>1, <1>2 DEF Good, HeldInGuards
<1>6. ScansAlone'
  BY <1>1, <1>2 DEF Good, Shape, ScansAlone, Scans, Warranted
<1> QED
  BY <1>4, <1>5, <1>6 DEF Good

-----------------------------------------------------------------------------
LEMMA StepGood ==
    ASSUME Inductive, Good, [GuardedNext]_guardedVars
    PROVE  Good'
<1>1. ASSUME NEW r \in Reader,
             GcRef(r) \/ GcRefMut(r) \/ GcMutexGuard(r) \/ GcRwLockReadGuard(r)
               \/ GcRwLockWriteGuard(r)
      PROVE  Good'
  <2>1. LockInner(r) \/ FailInner(r)
    BY <1>1 DEF GcRef, GcRefMut, GcMutexGuard, GcRwLockReadGuard, GcRwLockWriteGuard, Wrapped
  <2> QED
    BY <2>1, BorrowStep
<1>2. ASSUME NEW r \in Reader, InGet(r) \/ UnlockInner(r) \/ DropGuard(r)
      PROVE  Good'
  BY <1>2, GetStep, UnlockStep, DropStep
<1>3. ASSUME NEW r \in Reader, NEW c \in Calls, Get(r, c)
      PROVE  Good'
  BY <1>3, StartStep
<1>4. ASSUME NEW w \in Writer, Collect(w) \/ DropWarrants(w)
      PROVE  Good'
  BY <1>4, CollectStep, DropExclusiveStep
<1>5. ASSUME NEW k \in Worker, ScanRefCell(k) \/ ScanMutex(k) \/ ScanRwLock(k)
      PROVE  Good'
  <2>1. ScanInner(k, TRUE) \/ ScanInner(k, FALSE)
    BY <1>5 DEF ScanRefCell, ScanMutex, ScanRwLock
  <2> QED
    BY <2>1, ScanStep
<1>6. CASE Scanning
  BY <1>5, <1>6, AssignStep, EndScanStep DEF Scanning
<1>7. CASE UNCHANGED guardedVars
  BY <1>7 DEF guardedVars, vars, innerVars, scanVars, Good, Shape, Calls, InnerHolders,
     HeldInGuards, ScansAlone, Scans, Warranted, ScanFindsLockFree
<1> QED
  BY <1>1, <1>2, <1>3, <1>4, <1>6, <1>7 DEF GuardedNext

LEMMA GuardedStepInductive ==
    GuardedInductive /\ [GuardedNext]_guardedVars => GuardedInductive'
<1> SUFFICES ASSUME GuardedInductive, [GuardedNext]_guardedVars PROVE GuardedInductive'
  OBVIOUS
<1>1. Inductive /\ Good
  BY InductiveIsGood
<1>2. Inductive'
  BY <1>1, StepOfLockout, StepInductive
<1>3. Good'
  BY <1>1, StepGood
<1> QED
  BY <1>2, <1>3 DEF Good, Shape, GuardedInductive, GuardedTypeOK, Inductive

LEMMA GuardedInitInductive == GuardedInit => GuardedInductive
<1> SUFFICES ASSUME GuardedInit PROVE GuardedInductive
  OBVIOUS
<1>1. Inductive
  BY InitInductive DEF GuardedInit
<1>2. Good
  BY GuardedAssumption DEF GuardedInit, Good, Shape, Kind, Calls, NoCall, InnerHolders,
     HeldInGuards, ScansAlone, Scans, ScanFindsLockFree, GuardedAssumption
<1> QED
  BY <1>1, <1>2, GoodIsInductive

\* The invariant holds for any number of users, collections and workers.
THEOREM GuardedIsInductive == GuardedSpec => []GuardedInductive
<1> QED
  BY GuardedInitInductive, GuardedStepInductive, PTL DEF GuardedSpec

\* Type correctness.
THEOREM GuardedTypes == GuardedSpec => []GuardedTypeOK
<1>1. GuardedInductive => GuardedTypeOK
  BY DEF GuardedInductive
<1> QED
  BY <1>1, GuardedIsInductive, PTL

\* wrap_types.rs: a scan never finds the inner RefCell, Mutex or RwLock in use, so it
\* reports the Gcs inside of all data the collection has a warrant of.
THEOREM GuardedScans == GuardedSpec => []ScanFindsLockFree
<1>1. GuardedInductive => ScanFindsLockFree
  BY DEF GuardedInductive
<1> QED
  BY <1>1, GuardedIsInductive, PTL

\* No borrow, lock, read or write through a Gc ever meets a scan.
THEOREM GuardedUnseen == GuardedSpec => []ScanUnseen
<1>1. GuardedInductive => ScanUnseen
  <2> SUFFICES ASSUME GuardedInductive, NEW r \in Reader, AtInnerLock(r),
                      NEW k \in Worker, k \in InnerHolders
               PROVE  FALSE
    BY DEF ScanUnseen
  <2>1. Inductive /\ Good
    BY InductiveIsGood
  <2>2. Warranted
    BY <2>1 DEF Good, ScansAlone, Scans
  <2> QED
    BY <2>1, <2>2, WarrantedAlone DEF AtInnerLock
<1> QED
  BY <1>1, GuardedIsInductive, PTL

\* The Lockout under the guards keeps its promises: the count is exact,
THEOREM GuardedCount == GuardedSpec => []CountIsHolders
<1> QED
  BY GuardedIsLockout, LockoutCount, PTL

\* no wake-up is lost,
THEOREM GuardedNoLostWakeup == GuardedSpec => []NoLostWakeup
<1> QED
  BY GuardedIsLockout, LockoutNoLostWakeup, PTL

\* no thread is stuck at it,
THEOREM GuardedNeverStuck == GuardedSpec => []NeverStuck
<1> QED
  BY GuardedIsLockout, LockoutNeverStuck, PTL

\* and users and collections see the abstract warrants.
THEOREM GuardedRefinement == GuardedSpec => ImplementsWarrants
<1> QED
  BY GuardedIsLockout, LockoutRefinement, PTL

=============================================================================
