--------------------------- MODULE AtomicGcProofs ----------------------------
(* Proofs about AtomicGc, for any number of threads, collections, AtomicGcs and data. *)
EXTENDS AtomicGc, AtomicProtectionProofs

\* Every step is one of the spinlock, or leaves the spinlock alone.
LEMMA StepOfSpinlock == [AtomicGcNext]_atomicVars => [Next]_vars
<1>1. CASE Unprotected
  BY <1>1 DEF Unprotected, DropGc, Allocate, DropCell, NewCell, lockVars, vars
<1>2. ASSUME NEW r \in Reader, InOperation(r) \/ \E o \in Operation : StartOperation(r, o)
      PROVE  [Next]_vars
  BY <1>2 DEF InOperation, StartOperation, GetCollectionBlocker, EndOperation, Load, Store,
     Swap, CompareExchange, lockVars, vars, Next, InCall
<1>3. ASSUME NEW w \in Writer, LockForCollection(w) \/ InCollection(w)
      PROVE  [Next]_vars
  BY <1>3 DEF LockForCollection, InCollection, BeginCollection, EndCollection, Next, InCollect
<1>4. CASE Collecting
  BY <1>4 DEF Collecting, VisitGcs, MarkData, VisitCell, EndRoots, Reclaim, lockVars, vars
<1>5. CASE UNCHANGED atomicVars
  BY <1>5 DEF atomicVars, lockVars, vars
<1> QED
  BY <1>1, <1>2, <1>3, <1>4, <1>5 DEF AtomicGcNext

LEMMA AtomicGcIsSpinlock == AtomicGcSpec => Spec
<1>1. AtomicGcInit => Init
  BY DEF AtomicGcInit
<1> QED
  BY <1>1, StepOfSpinlock, PTL DEF AtomicGcSpec, Spec

\* The variables this module adds to the spinlock's.
DataTypes ==
    /\ pointer \in [Cell -> Data \cup {Nothing}]
    /\ holders \in [Cell -> SUBSET (Stack \cup Data)]
    /\ \A c \in Cell : holders[c] = {} <=> pointer[c] = Nothing
    /\ entries \subseteq Cell
    /\ gcs \subseteq Data
    /\ op \in [Reader -> Operation \cup {NoOperation}]
    /\ tracked \subseteq Data /\ freed \subseteq Data
    /\ phase \in {"none", "roots", "mark", "done"}
    /\ during \subseteq {"new", "drop"}
    /\ stamped \subseteq Cell
    /\ slots \subseteq Cell \cup Data
    /\ queue \subseteq Data /\ marked \subseteq Data /\ garbage \subseteq Data

Good ==
    /\ DataTypes /\ ListsShape /\ OperationsShape
    /\ Searching => SearchFinds /\ GarbageUnreachable
    /\ garbage \subseteq tracked \cup freed
    /\ AtomicGcNeverDangles /\ AtomicGarbageReclaimed

Blocks == Searching => Exclusive # {}

LEMMA InductiveParts == AtomicGcInductive <=> Inductive /\ Good /\ Blocks
BY DEF AtomicGcInductive, AtomicGcTypeOK, DataTypes, Good, Blocks, Inductive

LEMMA OperationFields ==
    \A o \in Operation : /\ o # NoOperation
                         /\ o.cell \in Cell
                         /\ o.kind \in {"load", "store", "swap", "compare"}
                         /\ o.kind # "load" => o.new \in Data
BY DEF Operation, NoOperation

\* The pointers of AtomicGcs that exist are to data in the list.
LEMMA CellPoints ==
    ASSUME Good, NEW c \in Cell, holders[c] # {}
    PROVE  pointer[c] \in tracked /\ pointer[c] \in Data
BY DEF Good, DataTypes, ListsShape

\* While a collection searches, no operation has its collection blocker.
LEMMA NobodyInside ==
    ASSUME Inductive, Blocks, Searching
    PROVE  \A r \in Reader : pc[r] # "inside"
BY DEF Inductive, TrackerCounts, Inclusive, Blocks

-----------------------------------------------------------------------------
(* What threads do without the spinlock.                                   *)

LEMMA AllocateGood ==
    ASSUME Good, NEW d \in Data, NEW S \in SUBSET Cell, NEW P \in SUBSET Stack,
           Allocate(d, S, P)
    PROVE  Good'
<1>1. /\ d \notin tracked \cup freed
      /\ \A c \in S : holders[c] \cap P # {} /\ ~CellBorrowed(c)
      /\ gcs' = gcs \cup {d} /\ tracked' = tracked \cup {d}
      /\ holders' = [c \in Cell |-> IF c \in S THEN (holders[c] \ P) \cup {d} ELSE holders[c]]
      /\ UNCHANGED <<pointer, entries, freed, op, phase, during, stamped, slots, queue, garbage>>
      /\ Searching => marked' = marked \cup {d}
      /\ marked' \in {marked, marked \cup {d}}
  BY DEF Allocate, Searching
<1>2. \A c \in S : holders[c] # {} /\ holders[c] \subseteq P /\ holders'[c] = {d}
  BY <1>1 DEF Good, ListsShape
<1>3. \A c \in Cell : c \notin S => holders'[c] = holders[c] /\ d \notin holders[c]
  BY <1>1, AtomicGcAssumption DEF Good, ListsShape, AtomicGcAssumption
<1>4. DataTypes'
  BY <1>1, <1>2, <1>3 DEF Good, DataTypes
<1>5. ListsShape' /\ AtomicGcNeverDangles' /\ garbage' \subseteq (tracked \cup freed)'
  <2>1. ListsShape'
    BY <1>1, <1>2, <1>3 DEF Good, ListsShape
  <2> QED
    BY <1>1, <2>1 DEF Good, AtomicGcNeverDangles
<1>6. OperationsShape'
  <2> SUFFICES ASSUME NEW r \in Reader, op[r] # NoOperation
               PROVE  /\ Reaches(op[r].cell)'
                      /\ op[r].kind # "load" => op[r].new \in gcs'
    BY <1>1 DEF OperationsShape
  <2>1. CellBorrowed(op[r].cell)
    BY DEF CellBorrowed, Pending
  <2>2. op[r].cell \in Cell \ S
    BY <1>1, <2>1, OperationFields DEF Good, DataTypes
  <2> QED
    BY <1>1, <1>3, <2>2 DEF Good, OperationsShape, Reaches
<1>7. Searching' => SearchFinds' /\ GarbageUnreachable'
  <2> SUFFICES ASSUME Searching' PROVE SearchFinds' /\ GarbageUnreachable'
    OBVIOUS
  <2>1. Searching /\ SearchFinds /\ GarbageUnreachable /\ marked' = marked \cup {d}
    BY <1>1 DEF Searching, Good
  <2>2. d \notin garbage
    BY <1>1 DEF Good
  <2>3. \A c \in S : c \notin stamped
    BY <1>1, <1>2, <2>1, AtomicGcAssumption DEF SearchFinds, AtomicGcAssumption
  <2>4. SearchFinds'
    <3>1. \A c \in stamped : c \in Cell /\ holders'[c] = holders[c] /\ d \notin holders[c]
      BY <1>3, <2>3 DEF Good, DataTypes
    <3>2. /\ Found' = Found \cup {d}
          /\ UNCHANGED <<pointer, phase, during, stamped, slots>> /\ gcs' = gcs \cup {d}
      BY <1>1, <2>1 DEF Found
    <3>3. \A c \in stamped : /\ holders'[c] # {} /\ holders'[c] \subseteq Data
                             /\ holders'[c] \cap marked' # {} => pointer[c] \in Found'
      BY <2>1, <3>1, <3>2 DEF SearchFinds
    <3>4. \A c \in Cell \ stamped :
             \/ pointer[c] \in Found' \cup {Nothing}
             \/ phase = "roots" /\ c \in slots
             \/ phase = "roots" /\ "drop" \notin during /\ pointer[c] \in gcs'
      BY <2>1, <3>2 DEF SearchFinds
    <3>5. gcs' \subseteq Found' \cup slots /\ (slots # {} => phase = "roots")
      BY <2>1, <3>2 DEF SearchFinds
    <3>6. phase' = "roots" => during' \in Programs
      BY <2>1, <3>2 DEF SearchFinds
    <3> QED
      BY <3>2, <3>3, <3>4, <3>5, <3>6 DEF SearchFinds
  <2>5. Closed(Data \ garbage)'
    <3>1. \A c \in S : pointer[c] \in Data \ garbage
      BY <1>1, <1>2, <2>1 DEF GarbageUnreachable, Closed
    <3> QED
      BY <1>1, <1>3, <2>1, <2>2, <3>1 DEF GarbageUnreachable, Closed
  <2>6. GarbageUnreachable'
    BY <1>1, <1>2, <1>3, <2>1, <2>2, <2>5 DEF GarbageUnreachable, Found
  <2> QED
    BY <2>4, <2>6
<1>8. AtomicGarbageReclaimed'
  BY <1>1 DEF Good, AtomicGarbageReclaimed
<1> QED
  BY <1>4, <1>5, <1>6, <1>7, <1>8 DEF Good

LEMMA DropGcGood ==
    ASSUME Good, NEW d \in Data, DropGc(d)
    PROVE  Good'
<1>1. /\ phase = "roots" => "drop" \in during
      /\ d \in gcs /\ ~GcBorrowed(d) /\ gcs' = gcs \ {d}
      /\ UNCHANGED <<pointer, holders, entries, tracked, freed, op, scanVars>>
  BY DEF DropGc, Performs
<1>2. DataTypes' /\ ListsShape' /\ AtomicGcNeverDangles' /\ AtomicGarbageReclaimed'
      /\ garbage' \subseteq (tracked \cup freed)'
  BY <1>1 DEF scanVars, Good, DataTypes, ListsShape, AtomicGcNeverDangles,
     AtomicGarbageReclaimed
<1>3. OperationsShape'
  <2> SUFFICES ASSUME NEW r \in Reader, op[r] # NoOperation
               PROVE  /\ Reaches(op[r].cell)'
                      /\ op[r].kind # "load" => op[r].new \in gcs'
    BY <1>1 DEF OperationsShape
  <2>1. d \notin holders[op[r].cell] /\ (op[r].kind # "load" => d # op[r].new)
    BY <1>1 DEF GcBorrowed, Pending
  <2> QED
    BY <1>1, <2>1 DEF Good, OperationsShape, Reaches
<1>4. Searching' => SearchFinds' /\ GarbageUnreachable'
  BY <1>1 DEF Searching, scanVars, Good, SearchFinds, GarbageUnreachable, Closed, Found
<1> QED
  BY <1>1, <1>2, <1>3, <1>4 DEF scanVars, Good

LEMMA NewCellGood ==
    ASSUME NewOrDrop, Good, NEW c \in Cell, NEW d \in Data, NEW s \in Stack, NewCell(c, d, s)
    PROVE  Good'
<1>1. /\ phase = "roots" => "new" \in during
      /\ holders[c] = {} /\ d \in gcs
      /\ pointer' = [pointer EXCEPT ![c] = d] /\ holders' = [holders EXCEPT ![c] = {s}]
      /\ entries' = entries \cup {c}
      /\ UNCHANGED <<gcs, tracked, freed, op, scanVars>>
  BY DEF NewCell, Performs, Passed, AssertLive
<1>2. DataTypes'
  BY <1>1, AtomicGcAssumption DEF scanVars, Good, DataTypes, AtomicGcAssumption
<1>3. ListsShape' /\ AtomicGcNeverDangles' /\ AtomicGarbageReclaimed'
      /\ garbage' \subseteq (tracked \cup freed)'
  BY <1>1 DEF scanVars, Good, DataTypes, ListsShape, AtomicGcNeverDangles,
     AtomicGarbageReclaimed
<1>4. OperationsShape'
  <2> SUFFICES ASSUME NEW r \in Reader, op[r] # NoOperation
               PROVE  /\ Reaches(op[r].cell)'
                      /\ op[r].kind # "load" => op[r].new \in gcs'
    BY <1>1 DEF OperationsShape
  <2>1. op[r].cell # c /\ op[r].cell \in Cell
    BY <1>1, OperationFields DEF Good, DataTypes, OperationsShape, Reaches
  <2> QED
    BY <1>1, <2>1 DEF Good, DataTypes, OperationsShape, Reaches
<1>5. Searching' => SearchFinds' /\ GarbageUnreachable'
  <2> SUFFICES ASSUME Searching' PROVE SearchFinds' /\ GarbageUnreachable'
    OBVIOUS
  <2>1. Searching /\ SearchFinds /\ GarbageUnreachable
    BY <1>1 DEF Searching, scanVars, Good
  <2>2. c \notin stamped
    BY <1>1, <2>1 DEF SearchFinds
  <2>3. phase = "mark" => d \in Found
    BY <1>1, <2>1 DEF SearchFinds
  <2>4. d \notin garbage /\ s \notin garbage
    BY <1>1, <2>1, AtomicGcAssumption DEF GarbageUnreachable, Closed, AtomicGcAssumption, Good,
       DataTypes
  <2>5. \A x \in Cell : pointer'[x] = (IF x = c THEN d ELSE pointer[x])
                        /\ holders'[x] = (IF x = c THEN {s} ELSE holders[x])
    BY <1>1 DEF Good, DataTypes
  <2> phase = "roots" => "drop" \notin during
    <3>1. during \subseteq {"new", "drop"}
      BY DEF Good, DataTypes
    <3>2. phase = "roots" => during # {"new", "drop"}
      BY <2>1 DEF SearchFinds, NewOrDrop
    <3> QED
      BY <1>1, <3>1, <3>2
  <2>6. SearchFinds'
    BY <1>1, <2>1, <2>2, <2>3, <2>5 DEF scanVars, SearchFinds, Found, Searching, Good, DataTypes
  <2>7. GarbageUnreachable'
    BY <1>1, <2>1, <2>4, <2>5 DEF scanVars, GarbageUnreachable, Closed, Found
  <2> QED
    BY <2>6, <2>7
<1> QED
  BY <1>2, <1>3, <1>4, <1>5 DEF Good

LEMMA DropCellGood ==
    ASSUME Good, NEW c \in Cell, NEW s \in Stack, DropCell(c, s)
    PROVE  Good'
<1>1. /\ s \in holders[c] /\ ~CellBorrowed(c)
      /\ UNCHANGED <<gcs, tracked, freed, op, scanVars>>
      /\ entries' = entries \ {c}
  BY DEF DropCell, Invalidate
<1>2. holders[c] = {s}
  BY <1>1 DEF Good, ListsShape
<1>3. holders' = [x \in Cell |-> IF x = c THEN {} ELSE holders[x]]
  BY <1>2 DEF DropCell, Invalidate
<1>4. pointer' = [x \in Cell |-> IF x = c THEN Nothing ELSE pointer[x]]
  BY <1>3 DEF DropCell, Invalidate, Good, DataTypes
<1>5. DataTypes'
  BY <1>1, <1>3, <1>4 DEF scanVars, Good, DataTypes
<1>6. ListsShape' /\ AtomicGarbageReclaimed' /\ garbage' \subseteq (tracked \cup freed)'
  BY <1>1, <1>3, <1>4 DEF scanVars, Good, ListsShape, AtomicGarbageReclaimed
<1>7. AtomicGcNeverDangles'
  BY <1>1, <1>4, AtomicGcAssumption DEF Good, DataTypes, AtomicGcNeverDangles,
     AtomicGcAssumption
<1>8. OperationsShape'
  <2> SUFFICES ASSUME NEW r \in Reader, op[r] # NoOperation
               PROVE  /\ Reaches(op[r].cell)'
                      /\ op[r].kind # "load" => op[r].new \in gcs'
    BY <1>1 DEF OperationsShape
  <2>1. op[r].cell # c /\ op[r].cell \in Cell
    BY <1>1, OperationFields DEF Good, DataTypes, CellBorrowed, Pending
  <2> QED
    BY <1>1, <1>3, <2>1 DEF Good, OperationsShape, Reaches
<1>9. Searching' => SearchFinds' /\ GarbageUnreachable'
  <2> SUFFICES ASSUME Searching' PROVE SearchFinds' /\ GarbageUnreachable'
    OBVIOUS
  <2>1. Searching /\ SearchFinds /\ GarbageUnreachable
    BY <1>1 DEF Searching, scanVars, Good
  <2>2. c \notin stamped
    BY <1>2, <2>1, AtomicGcAssumption DEF SearchFinds, AtomicGcAssumption
  <2>3. SearchFinds'
    BY <1>1, <1>3, <1>4, <2>1, <2>2 DEF scanVars, SearchFinds, Found, Good, DataTypes
  <2>4. GarbageUnreachable'
    BY <1>1, <1>3, <1>4, <2>1 DEF scanVars, GarbageUnreachable, Closed, Found
  <2> QED
    BY <2>3, <2>4
<1> QED
  BY <1>5, <1>6, <1>7, <1>8, <1>9 DEF Good

-----------------------------------------------------------------------------
(* Operations.                                                             *)

LEMMA StartOperationGood ==
    ASSUME Good, NEW r \in Reader, NEW o \in Operation, StartOperation(r, o)
    PROVE  Good'
<1>1. /\ Reaches(o.cell) /\ (o.kind # "load" => o.new \in gcs)
      /\ op' = [op EXCEPT ![r] = o]
      /\ UNCHANGED <<dataVars, scanVars>>
  BY DEF StartOperation, Passed, AssertLive
<1>2. DataTypes' /\ ListsShape' /\ AtomicGcNeverDangles' /\ AtomicGarbageReclaimed'
      /\ garbage' \subseteq (tracked \cup freed)'
  BY <1>1 DEF dataVars, scanVars, Good, DataTypes, ListsShape, AtomicGcNeverDangles,
     AtomicGarbageReclaimed
<1>3. OperationsShape'
  BY <1>1 DEF dataVars, Good, DataTypes, OperationsShape, Reaches
<1>4. Searching' => SearchFinds' /\ GarbageUnreachable'
  BY <1>1 DEF dataVars, scanVars, Searching, Good, SearchFinds, GarbageUnreachable, Closed,
     Found
<1> QED
  BY <1>2, <1>3, <1>4 DEF Good

LEMMA UnchangedGood ==
    ASSUME Good, UNCHANGED <<dataVars, op, scanVars>>
    PROVE  Good'
<1>1. DataTypes' /\ ListsShape' /\ AtomicGcNeverDangles' /\ AtomicGarbageReclaimed'
      /\ garbage' \subseteq (tracked \cup freed)' /\ OperationsShape'
  BY DEF dataVars, scanVars, Good, DataTypes, ListsShape, AtomicGcNeverDangles,
     AtomicGarbageReclaimed, OperationsShape, Reaches
<1>2. Searching' => SearchFinds' /\ GarbageUnreachable'
  BY DEF dataVars, scanVars, Searching, Good, SearchFinds, GarbageUnreachable, Closed, Found
<1> QED
  BY <1>1, <1>2 DEF Good

\* What the four operations do has one shape: a cell that exists is set to data with a
\* Gc, and a Gc for what it pointed to may come into being.
LEMMA ExchangeGood ==
    ASSUME Good, ~Searching, NEW r \in Reader, op[r] # NoOperation, Finished(r),
           pointer' = pointer
             \/ (op[r].kind # "load" /\ pointer' = [pointer EXCEPT ![op[r].cell] = op[r].new]),
           gcs' \in {gcs, gcs \cup {pointer[op[r].cell]}},
           UNCHANGED <<holders, entries, tracked, freed, scanVars>>
    PROVE  Good'
<1>1. /\ op[r].cell \in Cell
      /\ holders[op[r].cell] # {}
      /\ op[r].kind # "load" => op[r].new \in gcs
  BY OperationFields DEF Good, DataTypes, OperationsShape, Reaches
<1>2. pointer[op[r].cell] \in tracked /\ pointer[op[r].cell] \in Data
      /\ pointer[op[r].cell] \notin freed
  BY <1>1, CellPoints DEF Good, AtomicGcNeverDangles
<1>3. gcs \subseteq gcs' /\ gcs' \subseteq tracked /\ gcs' \subseteq Data /\ gcs' \cap freed = {}
  BY <1>2 DEF Good, DataTypes, ListsShape, AtomicGcNeverDangles
<1>4. \A c \in Cell : pointer'[c] = pointer[c] \/ (holders[c] # {} /\ pointer'[c] \in gcs)
  BY <1>1 DEF Good, DataTypes
<1>5. pointer' \in [Cell -> Data \cup {Nothing}]
  BY <1>1 DEF Good, DataTypes
<1>6. DataTypes'
  BY <1>3, <1>4, <1>5, AtomicGcAssumption DEF Finished, scanVars, Good, DataTypes,
     AtomicGcAssumption
<1>7. ListsShape' /\ AtomicGcNeverDangles' /\ AtomicGarbageReclaimed'
      /\ garbage' \subseteq (tracked \cup freed)'
  BY <1>3, <1>4 DEF scanVars, Good, DataTypes, ListsShape, AtomicGcNeverDangles,
     AtomicGarbageReclaimed
<1>8. OperationsShape'
  BY <1>3 DEF Finished, Good, DataTypes, OperationsShape, Reaches
<1>9. ~Searching'
  BY DEF Searching, scanVars
<1> QED
  BY <1>6, <1>7, <1>8, <1>9 DEF Good

LEMMA OperationGood ==
    ASSUME Inductive, Good, Blocks, NEW r \in Reader, InOperation(r)
    PROVE  Good'
<1>1. CASE GetCollectionBlocker(r) \/ EndOperation(r)
  BY <1>1, UnchangedGood DEF GetCollectionBlocker, EndOperation
<1>2. ASSUME NEW kind \in {"load", "store", "swap", "compare"}, Blocking(r, kind)
      PROVE  ~Searching /\ op[r] # NoOperation /\ op[r].kind = kind
  BY <1>2, NobodyInside DEF Blocking, NoOperation
<1>3. CASE Load(r)
  BY <1>2, <1>3, ExchangeGood DEF Load, HandleFromData
<1>4. CASE Store(r)
  BY <1>2, <1>4, ExchangeGood DEF Store
<1>5. CASE Swap(r)
  BY <1>2, <1>5, ExchangeGood DEF Swap, HandleFromData
<1>6. CASE CompareExchange(r)
  <2>1. op[r].cell \in Cell /\ ~Searching /\ op[r] # NoOperation /\ op[r].kind = "compare"
    BY <1>2, <1>6, OperationFields DEF CompareExchange, Good, DataTypes
  <2>2. pointer' = pointer \/ pointer' = [pointer EXCEPT ![op[r].cell] = op[r].new]
    BY <1>6, <2>1 DEF CompareExchange, Good, DataTypes
  <2> QED
    BY <1>6, <2>1, <2>2, ExchangeGood DEF CompareExchange
<1> QED
  BY <1>1, <1>3, <1>4, <1>5, <1>6 DEF InOperation

-----------------------------------------------------------------------------
(* Collections.                                                            *)

\* What stacks reach is closed.
LEMMA ReachableClosed ==
    ASSUME Good
    PROVE  Closed(Reachable)
<1>1. gcs \subseteq Reachable
  BY DEF Reachable, Closed, Good, DataTypes
<1>2. ASSUME NEW c \in Cell, holders[c] \cap (Stack \cup Reachable) # {}
      PROVE  pointer[c] \in Reachable
  <2>1. pointer[c] \in Data
    BY <1>2, CellPoints
  <2>2. ASSUME NEW S \in SUBSET Data, Closed(S) PROVE pointer[c] \in S
    <3>1. Reachable \subseteq S
      BY <2>2 DEF Reachable
    <3> QED
      BY <1>2, <2>2, <3>1 DEF Closed
  <2> QED
    BY <2>1, <2>2 DEF Reachable
<1> QED
  BY <1>1, <1>2 DEF Closed

LEMMA BeginGood ==
    ASSUME Good, NEW w \in Writer, BeginCollection(w)
    PROVE  Good'
<1>1. CASE UNCHANGED scanVars
  BY <1>1, UnchangedGood DEF BeginCollection
<1>2. CASE /\ phase' = "roots" /\ during' \in Programs
           /\ stamped' = UNION {ScanCells(d) : d \in tracked}
           /\ slots' = Cell \cup Data
           /\ queue' = {} /\ marked' = {}
           /\ garbage' = tracked \ Reachable
  <2>1. UNCHANGED <<pointer, holders, entries, gcs, tracked, freed, op>>
    BY DEF BeginCollection, dataVars
  <2>2. \A c \in Cell : c \in stamped' <=> holders[c] \cap tracked # {}
    BY <1>2 DEF ScanCells
  <2>3. stamped' \subseteq Cell
    BY <1>2 DEF ScanCells
  <2>4. DataTypes'
    BY <1>2, <2>1, <2>3, AtomicGcAssumption DEF Good, DataTypes, AtomicGcAssumption
  <2>5. ListsShape' /\ AtomicGcNeverDangles' /\ AtomicGarbageReclaimed' /\ OperationsShape'
        /\ garbage' \subseteq (tracked \cup freed)'
    BY <1>2, <2>1 DEF Good, ListsShape, AtomicGcNeverDangles, AtomicGarbageReclaimed,
       OperationsShape, Reaches
  <2>6. SearchFinds'
    <3>1. \A c \in stamped' : holders[c] # {} /\ holders[c] \subseteq Data
      BY <2>2, <2>3 DEF Good, DataTypes, ListsShape
    <3> QED
      BY <1>2, <2>1, <3>1 DEF SearchFinds, Found, Good, DataTypes
  <2>7. Closed(Data \ garbage)'
    <3>1. Reachable \subseteq Data /\ Closed(Reachable)
      BY ReachableClosed DEF Reachable
    <3>2. gcs \subseteq Data \ garbage'
      BY <1>2, <3>1 DEF Closed
    <3>3. ASSUME NEW c \in Cell, holders[c] \cap (Stack \cup (Data \ garbage')) # {}
          PROVE  pointer[c] \in Data \ garbage'
      <4>1. holders[c] \cap (Stack \cup Reachable) # {}
        BY <1>2, <3>3 DEF Good, ListsShape
      <4> QED
        BY <1>2, <3>1, <4>1 DEF Closed
    <3> QED
      BY <2>1, <3>2, <3>3 DEF Closed
  <2>8. GarbageUnreachable'
    BY <1>2, <2>1, <2>2, <2>7 DEF GarbageUnreachable, Found
  <2> QED
    BY <2>4, <2>5, <2>6, <2>8 DEF Good
<1> QED
  BY <1>1, <1>2 DEF BeginCollection

\* A step of the search: only the search's own sets change, and what they hold grows.
LEMMA SearchGood ==
    ASSUME Good, Searching, Searching',
           UNCHANGED <<dataVars, op, stamped, garbage>>,
           during' \subseteq during, slots' \subseteq slots, queue' \subseteq Data, marked' \subseteq Data,
           SearchFinds', Found' \cap garbage = {}
    PROVE  Good'
<1>1. UNCHANGED <<pointer, holders, entries, gcs, tracked, freed, op>>
  BY DEF dataVars
<1>2. DataTypes'
  BY <1>1 DEF Searching, Good, DataTypes
<1>3. ListsShape' /\ AtomicGcNeverDangles' /\ OperationsShape' /\ AtomicGarbageReclaimed'
      /\ garbage' \subseteq (tracked \cup freed)'
  BY <1>1 DEF Searching, Good, ListsShape, AtomicGcNeverDangles, OperationsShape, Reaches,
     AtomicGarbageReclaimed
<1>4. GarbageUnreachable'
  BY <1>1 DEF Good, GarbageUnreachable, Closed, Found
<1> QED
  BY <1>2, <1>3, <1>4 DEF Good

LEMMA VisitGcsGood ==
    ASSUME Good, NEW d \in Data, VisitGcs(d)
    PROVE  Good'
<1>1. /\ phase = "roots" /\ d \in slots
      /\ slots' = slots \ {d} /\ queue' = queue \cup (gcs \cap {d})
      /\ UNCHANGED <<dataVars, op, phase, during, stamped, marked, garbage>>
  BY DEF VisitGcs
<1>2. SearchFinds /\ GarbageUnreachable /\ Searching /\ Searching'
  BY <1>1 DEF Searching, Good
<1>3. \A c \in Cell : c # d
  BY AtomicGcAssumption DEF AtomicGcAssumption
<1>4. SearchFinds'
  BY <1>1, <1>2, <1>3 DEF dataVars, SearchFinds, Found
<1>5. Found' \cap garbage = {}
  BY <1>1, <1>2 DEF GarbageUnreachable, Closed, Found
<1> QED
  BY <1>1, <1>2, <1>4, <1>5, SearchGood DEF Good, DataTypes

LEMMA VisitCellGood ==
    ASSUME Good, NEW c \in Cell, VisitCell(c)
    PROVE  Good'
<1>1. /\ phase = "roots" /\ c \in slots
      /\ slots' = slots \ {c}
      /\ queue' = IF c \in entries \ stamped THEN queue \cup WithData(c) ELSE queue
      /\ UNCHANGED <<dataVars, op, phase, during, stamped, marked, garbage>>
  BY DEF VisitCell
<1>2. SearchFinds /\ GarbageUnreachable /\ Searching /\ Searching'
  BY <1>1 DEF Searching, Good
<1>3. \A d \in Data : c # d
  BY AtomicGcAssumption DEF AtomicGcAssumption
<1>4. queue' \subseteq Data /\ queue \subseteq queue'
  BY <1>1 DEF WithData, Good, DataTypes
<1>5. c \notin stamped => pointer[c] \in Found' \cup {Nothing}
  BY <1>1 DEF WithData, Found, Good, DataTypes, ListsShape
<1>6. SearchFinds'
  BY <1>1, <1>2, <1>3, <1>4, <1>5 DEF dataVars, SearchFinds, Found, Good, DataTypes
<1>7. Found' \cap garbage = {}
  <2>1. CASE queue' = queue
    BY <1>1, <1>2, <2>1 DEF GarbageUnreachable, Found
  <2>2. CASE c \in entries \ stamped /\ pointer[c] # Nothing /\ queue' = queue \cup {pointer[c]}
    <3>1. holders[c] # {} /\ holders[c] \subseteq Stack \cup (Data \ garbage)
      BY <1>2, <2>2 DEF Good, DataTypes, GarbageUnreachable
    <3>2. pointer[c] \notin garbage
      BY <1>2, <3>1 DEF GarbageUnreachable, Closed
    <3> QED
      BY <1>1, <1>2, <2>2, <3>2 DEF GarbageUnreachable, Found
  <2> QED
    BY <1>1, <2>1, <2>2 DEF WithData
<1> QED
  BY <1>1, <1>2, <1>4, <1>6, <1>7, SearchGood DEF Good, DataTypes

LEMMA EndRootsGood ==
    ASSUME Good, EndRoots
    PROVE  Good'
<1>1. /\ phase = "roots" /\ slots = {} /\ phase' = "mark" /\ during' = {}
      /\ UNCHANGED <<dataVars, op, stamped, slots, queue, marked, garbage>>
  BY DEF EndRoots
<1>2. SearchFinds /\ GarbageUnreachable /\ Searching /\ Searching'
  BY <1>1 DEF Searching, Good
<1>3. SearchFinds'
  BY <1>1, <1>2 DEF dataVars, SearchFinds, Found
<1>4. Found' \cap garbage = {}
  BY <1>1, <1>2 DEF GarbageUnreachable, Found
<1> QED
  BY <1>1, <1>2, <1>3, <1>4, SearchGood DEF Good, DataTypes

LEMMA MarkDataGood ==
    ASSUME Good, NEW d \in Data, MarkData(d)
    PROVE  Good'
<1>1. /\ phase = "mark" /\ d \in queue /\ marked' = marked \cup {d}
      /\ queue' = (queue \ {d}) \cup
                  (IF d \in marked THEN {}
                   ELSE (UNION {WithData(c) : c \in ScanCells(d)}) \ marked')
      /\ UNCHANGED <<dataVars, op, phase, during, stamped, slots, garbage>>
  BY DEF MarkData
<1>2. SearchFinds /\ GarbageUnreachable /\ Searching /\ Searching'
  BY <1>1 DEF Searching, Good
<1>3. \A c \in ScanCells(d) : c \in Cell /\ d \in holders[c] /\ pointer[c] \in Data
  BY CellPoints DEF ScanCells
<1>4. queue' \subseteq Data /\ Found \subseteq Found'
  BY <1>1, <1>3 DEF WithData, Found, Good, DataTypes
<1>5. \A c \in Cell : d \in holders[c] /\ d \notin marked => pointer[c] \in Found'
  <2> SUFFICES ASSUME NEW c \in Cell, d \in holders[c], d \notin marked,
                      pointer[c] \notin marked'
               PROVE  pointer[c] \in queue'
    BY DEF Found
  <2>1. c \in ScanCells(d) /\ pointer[c] \in WithData(c)
    BY <1>3, AtomicGcAssumption DEF ScanCells, WithData, AtomicGcAssumption
  <2>2. pointer[c] \in UNION {WithData(x) : x \in ScanCells(d)}
    BY <2>1
  <2>3. queue' = (queue \ {d}) \cup ((UNION {WithData(x) : x \in ScanCells(d)}) \ marked')
    BY <1>1
  <2> QED
    BY <2>2, <2>3
<1>6. SearchFinds'
  <2>1. \A c \in stamped : /\ holders[c] # {} /\ holders[c] \subseteq Data
                           /\ holders[c] \cap marked' # {} => pointer[c] \in Found'
    BY <1>1, <1>2, <1>4, <1>5 DEF SearchFinds, Good, DataTypes
  <2> QED
    BY <1>1, <1>2, <1>4, <2>1 DEF dataVars, SearchFinds
<1>7. Found' \cap garbage = {}
  <2>1. d \notin garbage
    BY <1>1, <1>2 DEF GarbageUnreachable, Found
  <2>2. \A c \in ScanCells(d) : pointer[c] \notin garbage
    BY <1>2, <1>3, <2>1 DEF GarbageUnreachable, Closed
  <2> QED
    BY <1>1, <1>2, <2>1, <2>2 DEF GarbageUnreachable, Found, WithData
<1> QED
  BY <1>1, <1>2, <1>4, <1>6, <1>7, SearchGood DEF Good, DataTypes

\* The search is over: what it did not mark, nothing that stays points to.
LEMMA ReclaimGood ==
    ASSUME Good, Reclaim
    PROVE  Good'
<1> DEFINE dead == tracked \ marked
           cells == UNION {ScanCells(d) : d \in dead}
<1>1. /\ phase = "mark" /\ queue = {} /\ phase' = "done"
      /\ tracked' = tracked \cap marked /\ freed' = freed \cup dead
      /\ Invalidate(cells, dead)
      /\ UNCHANGED <<gcs, op, during, stamped, slots, queue, marked, garbage>>
  BY DEF Reclaim
<1>2. SearchFinds /\ GarbageUnreachable /\ slots = {}
  BY <1>1 DEF Searching, Good, SearchFinds
<1>3. cells \subseteq Cell /\ \A c \in Cell : c \in cells <=> holders[c] \cap dead # {}
  BY DEF ScanCells
<1>4. holders' = [c \in Cell |-> IF c \in cells THEN {} ELSE holders[c]]
  <2>1. \A c \in cells : holders[c] \ dead = {}
    BY <1>3 DEF Good, ListsShape
  <2> QED
    BY <1>1, <1>3, <2>1 DEF Invalidate
<1>5. pointer' = [c \in Cell |-> IF c \in cells THEN Nothing ELSE pointer[c]]
      /\ entries' = entries \ cells
  BY <1>1, <1>4 DEF Invalidate, Good, DataTypes
<1>6. gcs \subseteq marked
  BY <1>1, <1>2 DEF SearchFinds, Found
<1>7. \A c \in Cell : pointer'[c] \in marked \cup {Nothing}
  <2> SUFFICES ASSUME NEW c \in Cell, c \notin cells, pointer[c] # Nothing
               PROVE  pointer[c] \in marked
    BY <1>5
  <2>1. CASE c \notin stamped
    BY <1>1, <1>2, <2>1 DEF SearchFinds, Found
  <2>2. CASE c \in stamped
    <3>1. holders[c] \cap marked # {}
      BY <1>2, <1>3, <2>2, AtomicGcAssumption DEF SearchFinds, Good, ListsShape,
         AtomicGcAssumption
    <3> QED
      BY <1>1, <1>2, <2>2, <3>1 DEF SearchFinds, Found
  <2> QED
    BY <2>1, <2>2
<1>8. DataTypes'
  BY <1>1, <1>3, <1>4, <1>5 DEF Good, DataTypes
<1>9. \A c \in Cell : pointer'[c] \in tracked' \cup {Nothing} /\ pointer'[c] \notin freed'
  BY <1>1, <1>5, <1>7, AtomicGcAssumption DEF Good, DataTypes, ListsShape,
     AtomicGcNeverDangles, AtomicGcAssumption
<1>10. ListsShape'
  <2>1. \A c \in Cell : holders'[c] \subseteq Stack \cup tracked'
    BY <1>1, <1>3, <1>4 DEF Good, ListsShape
  <2>2. \A c \in Cell : /\ holders'[c] # {} => c \in entries'
                        /\ \A x, y \in holders'[c] : x = y
    BY <1>4, <1>5 DEF Good, ListsShape
  <2>3. gcs' \subseteq tracked' /\ tracked' \cap freed' = {}
    BY <1>1, <1>6 DEF Good, ListsShape
  <2> QED
    BY <1>9, <2>1, <2>2, <2>3 DEF ListsShape
<1>11. AtomicGcNeverDangles' /\ AtomicGarbageReclaimed'
       /\ garbage' \subseteq (tracked \cup freed)'
  BY <1>1, <1>2, <1>6, <1>9 DEF Good, AtomicGcNeverDangles, AtomicGarbageReclaimed,
     GarbageUnreachable, Found
<1>12. OperationsShape'
  <2> SUFFICES ASSUME NEW r \in Reader, op[r] # NoOperation
               PROVE  /\ Reaches(op[r].cell)'
                      /\ op[r].kind # "load" => op[r].new \in gcs'
    BY <1>1 DEF OperationsShape
  <2>1. op[r].cell \in Cell /\ holders[op[r].cell] \cap (Stack \cup gcs) # {}
        /\ (op[r].kind # "load" => op[r].new \in gcs)
    BY OperationFields DEF Good, DataTypes, OperationsShape, Reaches
  <2>2. op[r].cell \notin cells
    BY <1>3, <1>6, <2>1, AtomicGcAssumption DEF Good, DataTypes, ListsShape,
       AtomicGcAssumption
  <2> QED
    BY <1>1, <1>4, <2>1, <2>2 DEF Reaches
<1>13. ~Searching'
  BY <1>1 DEF Searching
<1> QED
  BY <1>8, <1>10, <1>11, <1>12, <1>13 DEF Good

LEMMA EndCollectionGood ==
    ASSUME Good, NEW w \in Writer, EndCollection(w)
    PROVE  Good'
<1>1. /\ phase' = "none" /\ stamped' = {} /\ marked' = {} /\ garbage' = {}
      /\ UNCHANGED <<dataVars, op, during, slots, queue>>
  BY DEF EndCollection
<1> QED
  BY <1>1 DEF dataVars, Good, DataTypes, ListsShape, OperationsShape, Reaches, Searching,
     AtomicGcNeverDangles, AtomicGarbageReclaimed

-----------------------------------------------------------------------------
LEMMA StepGood ==
    ASSUME NewOrDrop, Inductive, Good, Blocks, [AtomicGcNext]_atomicVars
    PROVE  Good'
<1>1. CASE Unprotected
  BY <1>1, AllocateGood, DropGcGood, NewCellGood, DropCellGood DEF Unprotected
<1>2. ASSUME NEW r \in Reader, InOperation(r) \/ \E o \in Operation : StartOperation(r, o)
      PROVE  Good'
  BY <1>2, OperationGood, StartOperationGood
<1>3. ASSUME NEW w \in Writer, LockForCollection(w) \/ InCollection(w)
      PROVE  Good'
  BY <1>3, UnchangedGood, BeginGood, EndCollectionGood DEF LockForCollection, InCollection
<1>4. CASE Collecting
  BY <1>4, VisitGcsGood, VisitCellGood, EndRootsGood, MarkDataGood, ReclaimGood
     DEF Collecting
<1>5. CASE UNCHANGED atomicVars
  BY <1>5, UnchangedGood DEF atomicVars
<1> QED
  BY <1>1, <1>2, <1>3, <1>4, <1>5 DEF AtomicGcNext

\* A collection has the exclusive guard for as long as it searches.
LEMMA StepBlocks ==
    ASSUME Inductive, Blocks, [AtomicGcNext]_atomicVars
    PROVE  Blocks'
<1>1. /\ pc \in [Thread -> ReaderPc \cup WriterPc]
      /\ \A r \in Reader : r \in Thread /\ r \notin Writer
      /\ \A w \in Writer : w \in Thread
  BY SpinlockAssumption DEF Inductive, TypeOK, Thread, SpinlockAssumption
<1>2. CASE Unprotected
  BY <1>2 DEF Unprotected, Allocate, DropGc, NewCell, DropCell, lockVars, scanVars, Blocks,
     Searching, Exclusive
<1>3. ASSUME NEW r \in Reader, InOperation(r) \/ \E o \in Operation : StartOperation(r, o)
      PROVE  Blocks'
  <2>1. UNCHANGED scanVars
    BY <1>3 DEF InOperation, StartOperation, GetCollectionBlocker, EndOperation, Load, Store,
       Swap, CompareExchange
  <2>2. \A w \in Writer : pc'[w] = pc[w]
    BY <1>1, <1>3 DEF InOperation, StartOperation, GetCollectionBlocker, EndOperation, Load,
       Store, Swap, CompareExchange, lockVars, Call, LockInclusive, BlockOnCollector, Unblock,
       DropInclusive, Goto
  <2> QED
    BY <2>1, <2>2 DEF scanVars, Blocks, Searching, Exclusive
<1>4. ASSUME NEW w \in Writer, LockGc(w) \/ SpinLoad(w), UNCHANGED scanVars
      PROVE  Blocks'
  BY <1>1, <1>4 DEF LockGc, SpinLoad, Goto, scanVars, Blocks, Searching, Exclusive
<1>5. ASSUME NEW w \in Writer, BeginCollection(w)
      PROVE  Blocks'
  <2>1. CASE pc'[w] = "collecting"
    BY <2>1 DEF Blocks, Exclusive
  <2>2. CASE pc'[w] # "collecting"
    BY <1>1, <1>5, <2>2 DEF BeginCollection, SwapSentinel, Goto, scanVars, Blocks, Searching,
       Exclusive
  <2> QED
    BY <2>1, <2>2
<1>6. ASSUME NEW w \in Writer, EndCollection(w)
      PROVE  Blocks'
  BY <1>6 DEF EndCollection, Blocks, Searching
<1>7. CASE Collecting
  BY <1>7 DEF Collecting, VisitGcs, MarkData, VisitCell, EndRoots, Reclaim, lockVars, Blocks,
     Searching, Exclusive
<1>8. CASE UNCHANGED atomicVars
  BY <1>8 DEF atomicVars, lockVars, scanVars, Blocks, Searching, Exclusive
<1> QED
  BY <1>2, <1>3, <1>4, <1>5, <1>6, <1>7, <1>8 DEF AtomicGcNext, LockForCollection,
     InCollection

LEMMA AtomicGcInitInductive == AtomicGcInit => AtomicGcInductive
<1> SUFFICES ASSUME AtomicGcInit PROVE Inductive /\ Good /\ Blocks
  BY InductiveParts
<1>1. Inductive
  BY InitInductive DEF AtomicGcInit
<1>2. DataTypes
  BY DEF AtomicGcInit, DataTypes
<1>3. ListsShape /\ OperationsShape /\ ~Searching
  BY DEF AtomicGcInit, ListsShape, OperationsShape, Searching
<1>4. AtomicGcNeverDangles /\ AtomicGarbageReclaimed /\ garbage = {}
  BY DEF AtomicGcInit, AtomicGcNeverDangles, AtomicGarbageReclaimed
<1> QED
  BY <1>1, <1>2, <1>3, <1>4 DEF Good, Blocks

LEMMA AtomicGcStepInductive ==
    ASSUME NewOrDrop
    PROVE  AtomicGcInductive /\ [AtomicGcNext]_atomicVars => AtomicGcInductive'
<1> SUFFICES ASSUME AtomicGcInductive, [AtomicGcNext]_atomicVars
             PROVE  AtomicGcInductive'
  OBVIOUS
<1>1. Inductive /\ Good /\ Blocks
  BY InductiveParts
<1>2. Inductive'
  BY <1>1, StepOfSpinlock, StepInductive
<1>3. Good' /\ Blocks'
  BY <1>1, StepGood, StepBlocks
<1> QED
  BY <1>2, <1>3 DEF AtomicGcInductive, AtomicGcTypeOK, DataTypes, Good, Blocks, Inductive

\* The invariant holds for any number of threads, collections, AtomicGcs and data, if no
\* program makes handles out of its Gcs and drops Gcs in one root enumeration.
THEOREM AtomicGcIsInductive == ASSUME NewOrDrop PROVE AtomicGcSpec => []AtomicGcInductive
<1> QED
  BY AtomicGcInitInductive, AtomicGcStepInductive, PTL DEF AtomicGcSpec

\* Type correctness, under NewOrDrop.
THEOREM AtomicGcTypes == ASSUME NewOrDrop PROVE AtomicGcSpec => []AtomicGcTypeOK
<1>1. AtomicGcInductive => AtomicGcTypeOK
  BY DEF AtomicGcInductive
<1> QED
  BY <1>1, AtomicGcIsInductive, PTL

\* An AtomicGc that is never cloned does not dangle, whatever operations and collections
\* run, neither do the Gcs loaded from it: provided that no program makes AtomicGcs or Gcs
\* out of its Gcs and drops Gcs too while one collection looks for roots (NewOrDrop).  The
\* code enforces no such thing, and without it the property is false.
THEOREM AtomicGcSafety == ASSUME NewOrDrop PROVE AtomicGcSpec => []AtomicGcNeverDangles
<1>1. AtomicGcInductive => AtomicGcNeverDangles
  BY DEF AtomicGcInductive
<1> QED
  BY <1>1, AtomicGcIsInductive, PTL

\* A collection reclaims all data that only AtomicGcs in garbage point to, under NewOrDrop.
THEOREM AtomicGcReclaims == ASSUME NewOrDrop PROVE AtomicGcSpec => []AtomicGarbageReclaimed
<1>1. AtomicGcInductive => AtomicGarbageReclaimed
  BY DEF AtomicGcInductive
<1> QED
  BY <1>1, AtomicGcIsInductive, PTL

\* The spinlock's count is exact also under the operations of AtomicGcs,
THEOREM AtomicGcCounts == AtomicGcSpec => []TrackerCounts
<1> QED
  BY AtomicGcIsSpinlock, SpinlockCounts, PTL

\* operations and collections see the abstract warrants,
THEOREM AtomicGcRefinement == AtomicGcSpec => ImplementsWarrants
<1> QED
  BY AtomicGcIsSpinlock, SpinlockRefinement, PTL

\* operations and collections do not deadlock over gc_lock and the spinlock,
THEOREM AtomicGcNeverStuck == AtomicGcSpec => []NeverStuck
<1> QED
  BY AtomicGcIsSpinlock, SpinlockNeverStuck, PTL

\* and, under NewOrDrop, no pointer changes while a collection has the exclusive guard.
THEOREM AtomicGcFrozen == ASSUME NewOrDrop PROVE AtomicGcSpec => AtomicPointersFrozen
<1>1. ASSUME AtomicGcInductive, [AtomicGcNext]_atomicVars, Exclusive # {}, NEW c \in Cell
      PROVE  pointer[c] \in {Nothing, pointer'[c]} \/ pointer'[c] = Nothing
  <2>1. Inductive /\ Good
    BY <1>1, InductiveParts
  <2>2. \A r \in Reader : pc[r] # "inside"
    BY <1>1, <2>1 DEF Inductive, TrackerCounts, Inclusive
  <2>3. CASE Unprotected
    BY <2>1, <2>3 DEF Unprotected, Allocate, DropGc, NewCell, DropCell, Invalidate, Good,
       DataTypes
  <2>4. ASSUME NEW r \in Reader, InOperation(r) \/ \E o \in Operation : StartOperation(r, o)
        PROVE  pointer' = pointer
    BY <2>2, <2>4 DEF InOperation, StartOperation, GetCollectionBlocker, EndOperation, Load,
       Store, Swap, CompareExchange, Blocking, dataVars
  <2>5. ASSUME NEW w \in Writer, LockForCollection(w) \/ InCollection(w)
        PROVE  pointer' = pointer
    BY <2>5 DEF LockForCollection, InCollection, BeginCollection, EndCollection, dataVars
  <2>6. CASE Collecting
    BY <2>1, <2>6 DEF Collecting, VisitGcs, MarkData, VisitCell, EndRoots, Reclaim, Invalidate,
       dataVars, Good, DataTypes
  <2>7. CASE UNCHANGED atomicVars
    BY <2>7 DEF atomicVars, dataVars
  <2> QED
    BY <1>1, <2>3, <2>4, <2>5, <2>6, <2>7 DEF AtomicGcNext
<1>2. AtomicGcInductive /\ [AtomicGcNext]_atomicVars =>
        [Exclusive # {} =>
            \A c \in Cell : pointer[c] \in {Nothing, pointer'[c]} \/ pointer'[c] = Nothing]_atomicVars
  BY <1>1
<1> QED
  BY <1>2, AtomicGcIsInductive, PTL DEF AtomicGcSpec, AtomicPointersFrozen

=============================================================================
