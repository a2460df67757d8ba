--------------------------- MODULE CollectorProofs ---------------------------
(* Proofs about Collector, for every set of data and handles, whatever the  *)
(* programs do during collections and whatever destructors do.              *)
EXTENDS Collector, DropperProofs, FiniteSetTheorems

LEMMA InitInductive == Init => Inductive
<1> SUFFICES ASSUME Init PROVE Inductive
  OBVIOUS
<1> USE ConstantsAssumption DEF ConstantsAssumption
<1>1. TypeOK
  BY DEF Init, DropperInit, TypeOK, DropperTypeOK, DropMessage, Access, Constructing, Phase
<1>2. DropperShape /\ SyncShape /\ DataShape
  BY DEF Init, DropperInit, DropperShape, SyncShape, DataShape
<1>3. HandleShape /\ StampShape
  BY DEF Init, HandleShape, StampShape, Exists, Constructing
<1>4. WarrantsExclude /\ ScannedGraphFrozen
  BY DEF Init, WarrantsExclude, ScannedGraphFrozen
<1> QED
  BY <1>1, <1>2, <1>3, <1>4 DEF Inductive

-----------------------------------------------------------------------------
(* Type correctness, by the three kinds of step.                           *)

LEMMA MutatorType == ASSUME Inductive, Mutator PROVE TypeOK'
<1>1. TypeOK /\ HandleShape
  BY DEF Inductive
<1> USE ConstantsAssumption DEF ConstantsAssumption
<1>2. ASSUME NEW h \in Handle, NEW d \in Data, NEW S \in SUBSET Handle, SetupGcReference(h, d, S)
      PROVE  TypeOK'
  BY <1>1, <1>2 DEF SetupGcReference, TypeOK, DropperTypeOK, NewHandle, collectorVars,
     dropperVars, Access, Constructing
<1>3. ASSUME NEW h \in Handle, NEW g \in Handle, NEW d \in Data, BeginCyclic(h, g, d)
      PROVE  TypeOK'
  BY <1>1, <1>3 DEF BeginCyclic, TypeOK, DropperTypeOK, collectorVars, Access, Constructing
<1>4. ASSUME NEW h \in Handle, NEW S \in SUBSET Handle, ClosureReturns(h, S)
      PROVE  TypeOK'
  BY <1>1, <1>4 DEF ClosureReturns, TypeOK, DropperTypeOK, HandleShape, Exists,
     collectorVars, Access, Constructing
<1>5. ASSUME NEW h \in Handle, NEW g \in Handle, Clone(h, g)
      PROVE  TypeOK'
  BY <1>1, <1>5 DEF Clone, TypeOK, DropperTypeOK, NewHandle, collectorVars, dropperVars
<1>6. ASSUME NEW h \in Handle, NEW g \in Handle, MoveIn(h, g) \/ MoveOut(h, g)
      PROVE  TypeOK'
  BY <1>1, <1>6 DEF MoveIn, MoveOut, TypeOK, DropperTypeOK, HandleShape, Exists,
     collectorVars, dropperVars
<1>7. ASSUME NEW h \in Handle, TrackFromToken(h) \/ WriteValue(h)
      PROVE  TypeOK'
  BY <1>1, <1>7 DEF TrackFromToken, WriteValue, TypeOK, DropperTypeOK, HandleShape, Exists,
     collectorVars, dropperVars, Access, Constructing
<1>8. ASSUME NEW h \in Handle, DropHandle(h)
      PROVE  TypeOK'
  BY <1>1, <1>8 DEF DropHandle, TypeOK, DropperTypeOK, collectorVars, dropperVars
<1>9. ASSUME NEW h \in Handle, CheckDeallocated(h) \/ GetWarrant(h) \/ ReleaseGuard(h)
      PROVE  TypeOK'
  BY <1>1, <1>9 DEF CheckDeallocated, GetWarrant, ReleaseGuard, TypeOK, DropperTypeOK,
     collectorVars, dropperVars, Access, Constructing
<1> QED
  BY <1>2, <1>3, <1>4, <1>5, <1>6, <1>7, <1>8, <1>9 DEF Mutator

LEMMA DestructionType == ASSUME Inductive, Destruction PROVE TypeOK'
<1>1. TypeOK /\ DropperShape
  BY DEF Inductive
<1> USE ConstantsAssumption DEF ConstantsAssumption
<1>2. CASE DropThread /\ UNCHANGED <<mutatorVars, stamp, tracked, mark, collectorVars>>
  <2>1. CASE ReceiveData
    <3>1. Head(channel) \in DropMessage /\ Tail(channel) \in Seq(DropMessage)
      BY <1>1, <2>1 DEF ReceiveData, TypeOK, DropperTypeOK
    <3>2. Head(channel).items \subseteq Data
      BY <2>1, <3>1 DEF ReceiveData, DropMessage
    <3> QED
      BY <1>1, <1>2, <2>1, <3>1, <3>2 DEF ReceiveData, TypeOK, DropperTypeOK, DropperShape,
         mutatorVars, collectorVars
  <2>2. CASE AnswerSync
    <3>1. Head(channel) \in DropMessage /\ Tail(channel) \in Seq(DropMessage)
      BY <1>1, <2>2 DEF AnswerSync, TypeOK, DropperTypeOK
    <3>2. Head(channel).from \in Client
      BY <2>2, <3>1 DEF AnswerSync, DropMessage
    <3> QED
      BY <1>1, <1>2, <2>2, <3>1, <3>2 DEF AnswerSync, TypeOK, DropperTypeOK, mutatorVars,
         collectorVars
  <2>3. CASE StartDrops \/ EndBatch \/ \E d \in Data : FlagDeallocated(d) \/ StartDeallocate(d)
    BY <1>1, <1>2, <2>3 DEF StartDrops, EndBatch, FlagDeallocated, StartDeallocate, TypeOK,
       DropperTypeOK, mutatorVars, collectorVars
  <2> QED
    BY <1>2, <2>1, <2>2, <2>3 DEF DropThread
<1>3. ASSUME NEW d \in Data, NEW panicked \in BOOLEAN, Deallocate(d, panicked)
      PROVE  TypeOK'
  BY <1>1, <1>3 DEF Deallocate, EndDeallocate, TypeOK, DropperTypeOK, collectorVars
<1>4. ASSUME NEW h \in Handle, NEW g \in Handle, DestructorClone(h, g)
      PROVE  TypeOK'
  BY <1>1, <1>4 DEF DestructorClone, NewHandle, TypeOK, DropperTypeOK, collectorVars, dropperVars
<1> QED
  BY <1>2, <1>3, <1>4 DEF Destruction

LEMMA CollectionType == ASSUME Inductive, Collection PROVE TypeOK'
<1>1. TypeOK /\ DataShape /\ HandleShape
  BY DEF Inductive
<1> USE ConstantsAssumption DEF ConstantsAssumption
<1>2. CASE BeginCollection
  <2>1. Append(channel, SyncUp(GcThread)) \in Seq(DropMessage)
    BY <1>1 DEF SyncUp, DropMessage, TypeOK, DropperTypeOK
  <2> QED
    BY <1>1, <1>2, <2>1 DEF BeginCollection, SendSync, TypeOK, DropperTypeOK, mutatorVars, Phase
<1>3. CASE EndScan \/ EndRoots \/ EndMark
  BY <1>1, <1>3 DEF EndScan, EndRoots, EndMark, TypeOK, DropperTypeOK, mutatorVars,
     dropperVars, Phase
<1>4. CASE FinishCollection
  <2>1. Append(channel, DataToDrop(condemned)) \in Seq(DropMessage)
    BY <1>1 DEF DataToDrop, DropMessage, TypeOK, DropperTypeOK
  <2>2. Cardinality(tracked) \in Nat
    BY <1>1, FS_Subset, FS_CardinalityType DEF TypeOK
  <2> QED
    BY <1>1, <1>4, <2>1, <2>2 DEF FinishCollection, SendData, TypeOK, DropperTypeOK,
       mutatorVars, Phase
<1>5. ASSUME NEW d \in Data, ScanSlot(d)
      PROVE  TypeOK'
  <2>1. mark' \in [Data -> Nat] /\ stamp' \in [Handle -> Nat] /\ excl' \subseteq tracked
    BY <1>1, <1>5 DEF ScanSlot, ScanData, TypeOK
  <2> QED
    BY <1>1, <1>5, <2>1 DEF ScanSlot, TypeOK, DropperTypeOK, mutatorVars, dropperVars
<1>6. ASSUME NEW d \in Data, MarkData(d)
      PROVE  TypeOK'
  <2>1. mark' \in [Data -> Nat]
    BY <1>1, <1>6 DEF MarkData, TypeOK
  <2>2. queue' \subseteq queue \cup {points[h] : h \in Inside(d)}
    BY <1>6 DEF MarkData
  <2>3. \A h \in Inside(d) : points[h] \in used
    BY <1>1 DEF Inside, HandleShape, Exists
  <2>4. queue' \subseteq used
    BY <1>1, <2>2, <2>3 DEF TypeOK
  <2>5. UNCHANGED <<mutatorVars, stamp, tracked, phase, dataSlots, handleSlots, condemned,
                    excl, number, baseline, garbage, dropperVars>>
    BY <1>6 DEF MarkData
  <2> QED
    BY <1>1, <2>1, <2>4, <2>5 DEF TypeOK, DropperTypeOK, mutatorVars, dropperVars
<1>7. ASSUME NEW d \in Data, RetainSlot(d)
      PROVE  TypeOK'
  <2>1. /\ mark' \in [Data -> Nat]
        /\ tracked' \subseteq tracked /\ condemned' \subseteq used
    BY <1>1, <1>7 DEF RetainSlot, RetainData, TypeOK
  <2>2. excl' = {}
    BY <1>1, <1>7 DEF RetainSlot, DataShape
  <2> QED
    BY <1>1, <1>7, <2>1, <2>2 DEF RetainSlot, TypeOK, DropperTypeOK, mutatorVars,
       dropperVars
<1>8. ASSUME NEW h \in Handle, VisitHandleSlot(h)
      PROVE  TypeOK'
  BY <1>1, <1>8 DEF VisitHandleSlot, TypeOK, DropperTypeOK, HandleShape, mutatorVars,
     dropperVars
<1>9. CASE BeginScan
  BY <1>1, <1>9 DEF BeginScan, SyncReturns, TypeOK, DropperTypeOK, mutatorVars, Phase
<1> QED
  BY <1>2, <1>3, <1>4, <1>5, <1>6, <1>7, <1>8, <1>9 DEF Collection

-----------------------------------------------------------------------------
(* The channel and the drop thread.                                        *)

channelVars == <<channel, stage, batch, pending, running, destroyed, sync, sent>>
Collecting  == {"scan", "roots", "mark", "retain"}

\* Most steps leave the channel and the drop thread alone.
LEMMA ChannelFrame ==
    ASSUME DropperShape, SyncShape, UNCHANGED channelVars,
           phase' = phase \/ (phase \in Collecting /\ phase' \in Collecting)
    PROVE  DropperShape' /\ SyncShape'
BY DEF channelVars, Collecting, DropperShape, SyncShape, Quiet, InChannel, IsData

LEMMA DropThreadShape ==
    ASSUME Inductive, DropThread, UNCHANGED phase
    PROVE  DropperShape' /\ SyncShape'
<1>1. DropperTypeOK /\ DropperShape /\ SyncShape
  BY DEF Inductive, TypeOK
<1>2. CASE ReceiveData
  <2>1. /\ channel \in Seq(DropMessage) /\ channel # <<>>
        /\ Head(channel) = channel[1] /\ channel[1].kind = "data"
        /\ Len(channel') = Len(channel) - 1
        /\ DOMAIN channel = 1 .. Len(channel) /\ DOMAIN channel' = 1 .. Len(channel')
        /\ \A i \in 1 .. Len(channel') : channel'[i] = channel[i + 1]
        /\ Len(channel) \in Nat \ {0}
    BY <1>1, <1>2 DEF ReceiveData, DropperTypeOK
  <2>2. \A d : InChannel(d) => d \in channel[1].items \/ InChannel(d)'
    <3> SUFFICES ASSUME NEW d, NEW i \in 1 .. Len(channel), i # 1,
                        channel[i].kind = "data", d \in channel[i].items
                 PROVE  InChannel(d)'
      BY <2>1 DEF InChannel, IsData
    <3>1. i - 1 \in 1 .. Len(channel') /\ channel'[i - 1] = channel[i]
      BY <2>1
    <3> QED
      BY <2>1, <3>1 DEF InChannel, IsData
  <2>3. DropperShape'
    BY <1>1, <1>2, <2>1, <2>2 DEF ReceiveData, DropperShape
  <2>4. SyncShape'
    BY <1>1, <1>2, <2>1 DEF ReceiveData, SyncShape, Quiet
  <2> QED
    BY <2>3, <2>4
<1>3. CASE AnswerSync
  <2>1. /\ channel \in Seq(DropMessage) /\ channel # <<>>
        /\ Head(channel) = channel[1] /\ channel[1].kind = "sync"
        /\ DOMAIN channel = 1 .. Len(channel) /\ Len(channel) \in Nat \ {0}
    BY <1>1, <1>3 DEF AnswerSync, DropperTypeOK
  <2>2. Len(channel) = 1 /\ channel[1].from = GcThread /\ sync[GcThread] = "waiting"
    BY <1>1, <2>1 DEF SyncShape
  <2>3. channel' = <<>>
    BY <1>3, <2>1, <2>2 DEF AnswerSync
  <2>4. \A d : ~InChannel(d)
    BY <2>1, <2>2 DEF InChannel, IsData
  <2>5. sent \subseteq destroyed
    BY <1>1, <1>3, <2>4 DEF AnswerSync, DropperShape
  <2>6. Quiet'
    BY <1>1, <1>3, <2>3, <2>5 DEF AnswerSync, Quiet, DropperShape, DropperTypeOK
  <2>7. DropperShape'
    BY <2>6 DEF DropperShape, Quiet
  <2>8. phase' = "sync" /\ sync'[GcThread] = "answered"
    BY <1>1, <1>3, <2>1, <2>2, ConstantsAssumption
       DEF SyncShape, AnswerSync, DropperTypeOK, ConstantsAssumption
  <2> QED
    BY <2>3, <2>6, <2>7, <2>8 DEF SyncShape
<1>4. CASE StartDrops \/ EndBatch \/ \E d \in Data : FlagDeallocated(d) \/ StartDeallocate(d)
  <2>1. channel' = channel /\ sent' = sent /\ sync' = sync /\ destroyed' = destroyed
    BY <1>4 DEF StartDrops, EndBatch, FlagDeallocated, StartDeallocate
  <2>2. \A d : InChannel(d)' <=> InChannel(d)
    BY <2>1 DEF InChannel, IsData
  <2>3. DropperShape'
    BY <1>1, <1>4, <2>1, <2>2 DEF StartDrops, EndBatch, FlagDeallocated, StartDeallocate,
       DropperShape, DropperTypeOK
  <2>4. ~Quiet
    BY <1>1, <1>4 DEF StartDrops, EndBatch, FlagDeallocated, StartDeallocate, Quiet
  <2>5. SyncShape'
    BY <1>1, <2>1, <2>4 DEF SyncShape
  <2> QED
    BY <2>3, <2>5
<1> QED
  BY <1>2, <1>3, <1>4 DEF DropThread

LEMMA StepShape ==
    ASSUME Inductive, Next
    PROVE  DropperShape' /\ SyncShape'
<1>1. DropperTypeOK /\ DropperShape /\ SyncShape
  BY DEF Inductive, TypeOK
<1>2. CASE Mutator
  <2>1. UNCHANGED channelVars /\ phase' = phase
    BY <1>2 DEF Mutator, SetupGcReference, TrackFromToken, BeginCyclic, ClosureReturns,
       WriteValue, Clone, DropHandle, CheckDeallocated, GetWarrant, ReleaseGuard, MoveIn,
       MoveOut, channelVars, collectorVars, dropperVars
  <2> QED
    BY <1>1, <2>1, ChannelFrame
<1>3. CASE DropThread /\ UNCHANGED <<mutatorVars, stamp, tracked, mark, collectorVars>>
  BY <1>3, DropThreadShape DEF collectorVars
<1>4. ASSUME NEW d \in Data, NEW panicked \in BOOLEAN, Deallocate(d, panicked)
      PROVE  DropperShape' /\ SyncShape'
  <2>1. /\ channel' = channel /\ sent' = sent /\ sync' = sync /\ stage' = stage
        /\ batch' = batch /\ pending' = pending /\ phase' = phase
        /\ running' = running \ {d} /\ destroyed' = destroyed \cup {d} /\ d \in running
    BY <1>4 DEF Deallocate, EndDeallocate, collectorVars
  <2>2. \A e : InChannel(e)' <=> InChannel(e)
    BY <2>1 DEF InChannel, IsData
  <2>3. DropperShape'
    BY <1>1, <2>1, <2>2 DEF DropperShape
  <2>4. SyncShape'
    BY <1>1, <2>1 DEF SyncShape, Quiet
  <2> QED
    BY <2>3, <2>4
<1>5. CASE \E h, g \in Handle : DestructorClone(h, g)
  <2>1. UNCHANGED channelVars /\ phase' = phase
    BY <1>5 DEF DestructorClone, channelVars, collectorVars, dropperVars
  <2> QED
    BY <1>1, <2>1, ChannelFrame
<1>6. CASE BeginCollection
  <2>1. /\ channel \in Seq(DropMessage) /\ Len(channel') = Len(channel) + 1
        /\ DOMAIN channel = 1 .. Len(channel) /\ DOMAIN channel' = 1 .. Len(channel')
        /\ \A i \in 1 .. Len(channel) : channel'[i] = channel[i]
        /\ channel'[Len(channel')] = SyncUp(GcThread) /\ Len(channel) \in Nat
    BY <1>1, <1>6 DEF BeginCollection, SendSync, DropperTypeOK
  <2>2. \A d : InChannel(d) => InChannel(d)'
    BY <2>1 DEF InChannel, IsData
  <2>3. DropperShape'
    BY <1>1, <1>6, <2>2 DEF BeginCollection, SendSync, DropperShape
  <2>4. /\ phase' = "sync" /\ sync[GcThread] = "none" /\ sync' \in [Client -> {"none", "waiting", "answered"}]
        /\ sync'[GcThread] = "waiting"
    BY <1>1, <1>6, ConstantsAssumption DEF BeginCollection, SendSync, DropperTypeOK, ConstantsAssumption
  <2>5. SyncShape'
    BY <1>1, <2>1, <2>4 DEF SyncShape, SyncUp
  <2> QED
    BY <2>3, <2>5
<1>7. CASE BeginScan
  <2>1. /\ UNCHANGED <<channel, stage, batch, pending, running, destroyed, sent>>
        /\ sync[GcThread] = "answered" /\ sync'[GcThread] = "none" /\ phase' = "scan"
    BY <1>1, <1>7, ConstantsAssumption DEF BeginScan, SyncReturns, DropperTypeOK,
       ConstantsAssumption
  <2> QED
    BY <1>1, <2>1 DEF DropperShape, SyncShape, Quiet, InChannel, IsData
<1>8. CASE \/ EndScan \/ EndRoots \/ EndMark
           \/ \E d \in Data : ScanSlot(d) \/ MarkData(d) \/ RetainSlot(d)
           \/ \E h \in Handle : VisitHandleSlot(h)
  <2>1. /\ UNCHANGED channelVars
        /\ phase' = phase \/ (phase \in Collecting /\ phase' \in Collecting)
    BY <1>8 DEF EndScan, EndRoots, EndMark, ScanSlot, MarkData, RetainSlot,
       VisitHandleSlot, channelVars, dropperVars, Collecting
  <2> QED
    BY <1>1, <2>1, ChannelFrame
<1>9. CASE FinishCollection
  <2>1. /\ channel \in Seq(DropMessage) /\ Len(channel') = Len(channel) + 1
        /\ DOMAIN channel = 1 .. Len(channel) /\ DOMAIN channel' = 1 .. Len(channel')
        /\ \A i \in 1 .. Len(channel) : channel'[i] = channel[i]
        /\ channel'[Len(channel')] = DataToDrop(condemned) /\ Len(channel) \in Nat
    BY <1>1, <1>9 DEF FinishCollection, SendData, DropperTypeOK
  <2>2. \A d : InChannel(d) \/ d \in condemned => InChannel(d)'
    BY <2>1 DEF InChannel, IsData, DataToDrop
  <2>3. DropperShape'
    BY <1>1, <1>9, <2>2 DEF FinishCollection, SendData, DropperShape
  <2>4. /\ phase' = "idle" /\ sync' = sync /\ sync[GcThread] = "none"
    BY <1>1, <1>9, ConstantsAssumption DEF FinishCollection, SendData, SyncShape,
       DropperTypeOK, ConstantsAssumption
  <2>5. SyncShape'
    BY <1>1, <2>1, <2>4 DEF SyncShape, DataToDrop
  <2> QED
    BY <2>3, <2>5
<1> QED
  BY <1>2, <1>3, <1>4, <1>5, <1>6, <1>7, <1>8, <1>9 DEF Next, Destruction, Collection

-----------------------------------------------------------------------------
(* Data and handles.                                                       *)

LEMMA StepData ==
    ASSUME Inductive, Next
    PROVE  DataShape'
<1>1. TypeOK /\ DataShape /\ HandleShape
  BY DEF Inductive
<1>2. CASE Mutator
  <2>1. /\ UNCHANGED <<excl, condemned, sent, phase>> /\ used \subseteq used'
        /\ \/ tracked' = tracked
           \/ \E h \in Handle : access[h] = "written" /\ tracked' = tracked \cup {points[h]}
    BY <1>2 DEF Mutator, SetupGcReference, TrackFromToken, BeginCyclic, ClosureReturns,
       WriteValue, Clone, DropHandle, CheckDeallocated, GetWarrant, ReleaseGuard, MoveIn,
       MoveOut, collectorVars, dropperVars
  <2> QED
    BY <1>1, <2>1 DEF DataShape, HandleShape, Constructing
<1>3. CASE Destruction
  <2>1. UNCHANGED <<excl, condemned, sent, phase, tracked, used>>
    BY <1>3 DEF Destruction, DropThread, ReceiveData, FlagDeallocated, StartDrops,
       StartDeallocate, EndBatch, AnswerSync, Deallocate, EndDeallocate, DestructorClone,
       mutatorVars, collectorVars, dropperVars
  <2> QED
    BY <1>1, <2>1 DEF DataShape
<1>4. CASE Collection
  <2>1. CASE FinishCollection
    BY <1>1, <2>1 DEF FinishCollection, SendData, DataShape, TypeOK, mutatorVars
  <2>2. ASSUME NEW d \in Data, RetainSlot(d)
        PROVE  DataShape'
    BY <1>1, <2>2 DEF RetainSlot, RetainData, DataShape, mutatorVars, dropperVars
  <2>3. ASSUME NEW d \in Data, ScanSlot(d)
        PROVE  DataShape'
    BY <1>1, <2>3 DEF ScanSlot, DataShape, mutatorVars, dropperVars
  <2>4. CASE BeginCollection \/ BeginScan
    BY <1>1, <2>4 DEF BeginCollection, BeginScan, SendSync, SyncReturns, DataShape, mutatorVars
  <2>5. CASE \/ EndScan \/ EndRoots \/ EndMark \/ \E d \in Data : MarkData(d)
             \/ \E h \in Handle : VisitHandleSlot(h)
    BY <1>1, <2>5 DEF EndScan, EndRoots, EndMark, MarkData, VisitHandleSlot, DataShape,
       mutatorVars, dropperVars
  <2> QED
    BY <1>4, <2>1, <2>2, <2>3, <2>4, <2>5 DEF Collection
<1> QED
  BY <1>2, <1>3, <1>4 DEF Next

\* A collection moves data from one of these sets to another and touches no handle.
LEMMA CollectionHandles ==
    ASSUME Collection
    PROVE  /\ UNCHANGED <<holder, points, access, used>>
           /\ (tracked \cup condemned \cup sent)' = tracked \cup condemned \cup sent
<1>1. CASE FinishCollection
  BY <1>1 DEF FinishCollection, SendData, mutatorVars
<1>2. ASSUME NEW d \in Data, RetainSlot(d)
      PROVE  /\ UNCHANGED <<holder, points, access, used>>
             /\ (tracked \cup condemned \cup sent)' = tracked \cup condemned \cup sent
  BY <1>2 DEF RetainSlot, RetainData, mutatorVars, dropperVars
<1>3. CASE \/ BeginCollection \/ BeginScan \/ EndScan \/ EndRoots \/ EndMark
           \/ \E d \in Data : ScanSlot(d) \/ MarkData(d)
           \/ \E h \in Handle : VisitHandleSlot(h)
  BY <1>3 DEF BeginCollection, BeginScan, EndScan, EndRoots, EndMark, ScanSlot, MarkData,
     VisitHandleSlot, SendSync, SyncReturns, mutatorVars, dropperVars
<1> QED
  BY <1>1, <1>2, <1>3 DEF Collection

LEMMA DestructionFrame ==
    ASSUME Destruction
    PROVE  UNCHANGED <<access, used, tracked, mark, condemned, sent, excl, phase, number>>
BY DEF Destruction, DropThread, ReceiveData, FlagDeallocated, StartDrops,
   StartDeallocate, EndBatch, AnswerSync, Deallocate, EndDeallocate, DestructorClone,
   mutatorVars, collectorVars, dropperVars

LEMMA StepHandle ==
    ASSUME Inductive, Next
    PROVE  HandleShape'
<1>1. TypeOK /\ DataShape /\ HandleShape
  BY DEF Inductive
<1> USE ConstantsAssumption DEF ConstantsAssumption
<1>2. CASE Mutator
  <2>1. ASSUME NEW h \in Handle, NEW d \in Data, NEW S \in SUBSET Handle, SetupGcReference(h, d, S)
        PROVE  HandleShape'
    BY <1>1, <2>1 DEF SetupGcReference, NewHandle, Unborrowed,
       HandleShape, DataShape, TypeOK, Exists, Constructing, collectorVars, dropperVars
  <2>2. ASSUME NEW h \in Handle, NEW g \in Handle, NEW d \in Data, BeginCyclic(h, g, d)
        PROVE  HandleShape'
    BY <1>1, <2>2 DEF BeginCyclic,
       HandleShape, DataShape, TypeOK, Exists, Constructing, collectorVars, dropperVars
  <2>3. ASSUME NEW h \in Handle, NEW S \in SUBSET Handle, ClosureReturns(h, S)
        PROVE  HandleShape'
    BY <1>1, <2>3 DEF ClosureReturns, Unborrowed,
       HandleShape, DataShape, TypeOK, Exists, Constructing, collectorVars, dropperVars
  <2>4. ASSUME NEW h \in Handle, NEW g \in Handle, Clone(h, g)
        PROVE  HandleShape'
    BY <1>1, <2>4 DEF Clone, NewHandle, Visible,
       HandleShape, DataShape, TypeOK, Exists, Constructing, collectorVars, dropperVars
  <2>5. ASSUME NEW h \in Handle, NEW g \in Handle, MoveIn(h, g) \/ MoveOut(h, g)
        PROVE  HandleShape'
    BY <1>1, <2>5 DEF MoveIn, MoveOut, Unborrowed,
       HandleShape, DataShape, TypeOK, Exists, Constructing, collectorVars, dropperVars
  <2>6. ASSUME NEW h \in Handle, TrackFromToken(h)
        PROVE  HandleShape'
    BY <1>1, <2>6 DEF TrackFromToken,
       HandleShape, DataShape, TypeOK, Exists, Constructing, collectorVars, dropperVars
  <2>7. ASSUME NEW h \in Handle, DropHandle(h)
        PROVE  HandleShape'
    BY <1>1, <2>7 DEF DropHandle, Unborrowed,
       HandleShape, DataShape, TypeOK, Exists, Constructing, collectorVars, dropperVars
  <2>8. ASSUME NEW h \in Handle, WriteValue(h)
        PROVE  HandleShape'
    BY <1>1, <2>8 DEF WriteValue,
       HandleShape, TypeOK, Exists, Constructing, collectorVars, dropperVars
  <2>9. ASSUME NEW h \in Handle, CheckDeallocated(h) \/ GetWarrant(h) \/ ReleaseGuard(h)
        PROVE  HandleShape'
    <3>1. UNCHANGED <<holder, points, used, tracked, condemned, sent>>
      BY <2>9 DEF CheckDeallocated, GetWarrant, ReleaseGuard, collectorVars, dropperVars
    <3>2. access' = [access EXCEPT ![h] = access'[h]] /\ access'[h] \notin Constructing
      BY <1>1, <2>9 DEF CheckDeallocated, GetWarrant, ReleaseGuard, TypeOK, Constructing
    <3>3. access'[h] # "none" => Exists(h)
      <4>1. Unborrowed(h) \/ holder[h] \in running => Exists(h)
        BY <1>1 DEF Unborrowed, Exists, TypeOK, DropperTypeOK
      <4>2. access[h] # "none" => Exists(h)
        BY <1>1 DEF HandleShape
      <4> QED
        BY <1>1, <2>9, <4>1, <4>2 DEF CheckDeallocated, GetWarrant, ReleaseGuard, TypeOK
    <3> QED
      BY <1>1, <3>1, <3>2, <3>3 DEF HandleShape, Exists, TypeOK
  <2> QED
    BY <1>2, <2>1, <2>2, <2>3, <2>4, <2>5, <2>6, <2>7, <2>8, <2>9 DEF Mutator
<1>3. CASE Destruction
  <2>1. UNCHANGED <<access, used, tracked, condemned, sent>>
    BY <1>3, DestructionFrame
  <2>2. CASE DropThread /\ UNCHANGED <<mutatorVars, stamp, tracked, mark, collectorVars>>
    BY <1>1, <2>1, <2>2 DEF HandleShape, Exists, mutatorVars
  <2>3. ASSUME NEW d \in Data, NEW panicked \in BOOLEAN, Deallocate(d, panicked)
        PROVE  HandleShape'
    BY <1>1, <2>1, <2>3 DEF Deallocate, HandleShape, Exists, Inside, Constructing, TypeOK
  <2>4. ASSUME NEW h \in Handle, NEW g \in Handle, DestructorClone(h, g)
        PROVE  HandleShape'
    BY <1>1, <2>1, <2>4 DEF DestructorClone, NewHandle, HandleShape, Exists, Constructing,
       TypeOK, DropperTypeOK
  <2> QED
    BY <1>3, <2>2, <2>3, <2>4 DEF Destruction
<1>4. CASE Collection
  BY <1>1, <1>4, CollectionHandles DEF HandleShape, Exists
<1> QED
  BY <1>2, <1>3, <1>4 DEF Next

-----------------------------------------------------------------------------
(* Stamps, warrants and the frozen graph.                                  *)

\* How the stamps, warrants and locations that matter to the collector change when
\* a mutator takes a step: only the collector stamps and takes warrants, and no Gc
\* moves into or out of warranted data.
LEMMA MutatorFrame ==
    ASSUME Inductive, Mutator
    PROVE  /\ UNCHANGED <<excl, phase, number>>
           /\ \A h \in Handle : \/ stamp'[h] = stamp[h]
                                \/ stamp'[h] = 0 /\ holder'[h] \notin Data
           /\ \A h \in Handle : \/ holder'[h] = holder[h]
                                \/ holder[h] \notin excl /\ holder'[h] \notin excl
           /\ \A h \in Handle : access'[h] = "guard" => points'[h] \notin excl
<1> DEFINE Frame ==
           /\ UNCHANGED <<excl, phase, number>>
           /\ \A h \in Handle : \/ stamp'[h] = stamp[h]
                                \/ stamp'[h] = 0 /\ holder'[h] \notin Data
           /\ \A h \in Handle : \/ holder'[h] = holder[h]
                                \/ holder[h] \notin excl /\ holder'[h] \notin excl
           /\ \A h \in Handle : access'[h] = "guard" => points'[h] \notin excl
<1>1. TypeOK /\ DataShape /\ HandleShape /\ WarrantsExclude
  BY DEF Inductive
<1>2. /\ excl \subseteq tracked /\ tracked \subseteq used /\ used \subseteq Data
      /\ Stack \notin excl /\ Gone \notin excl
      /\ Stack \notin Data /\ Gone \notin Data
  BY <1>1, ConstantsAssumption DEF ConstantsAssumption, TypeOK
<1>3. /\ holder \in [Handle -> Data \cup {Stack, Gone}]
      /\ points \in [Handle -> Data \cup {Nothing}]
      /\ access \in [Handle -> Access]
      /\ stamp \in [Handle -> Nat]
  BY <1>1 DEF TypeOK
<1>4. ASSUME NEW h \in Handle, NEW d \in Data, NEW S \in SUBSET Handle, SetupGcReference(h, d, S)
      PROVE  Frame
  BY <1>1, <1>2, <1>3, <1>4 DEF SetupGcReference, NewHandle, Unborrowed, Exists, HandleShape,
     WarrantsExclude, collectorVars
<1>5. ASSUME NEW h \in Handle, NEW g \in Handle, NEW d \in Data, BeginCyclic(h, g, d)
      PROVE  Frame
  BY <1>1, <1>2, <1>3, <1>5 DEF BeginCyclic, Exists, HandleShape, WarrantsExclude, collectorVars
<1>6. ASSUME NEW h \in Handle, NEW S \in SUBSET Handle, ClosureReturns(h, S)
      PROVE  Frame
  <2>1. points[h] \notin excl
    BY <1>1, <1>2, <1>6 DEF ClosureReturns, HandleShape, Constructing
  <2> QED
    BY <1>1, <1>2, <1>3, <1>6, <2>1 DEF ClosureReturns, Unborrowed, WarrantsExclude, collectorVars
<1>7. ASSUME NEW h \in Handle, NEW g \in Handle, Clone(h, g)
      PROVE  Frame
  BY <1>1, <1>2, <1>3, <1>7 DEF Clone, NewHandle, Exists, HandleShape, WarrantsExclude,
     collectorVars
<1>8. ASSUME NEW h \in Handle, NEW g \in Handle, MoveIn(h, g) \/ MoveOut(h, g)
      PROVE  Frame
  BY <1>1, <1>2, <1>3, <1>8 DEF MoveIn, MoveOut, Unborrowed, WarrantsExclude, collectorVars
<1>9. ASSUME NEW h \in Handle, DropHandle(h)
      PROVE  Frame
  BY <1>1, <1>2, <1>3, <1>9 DEF DropHandle, Unborrowed, WarrantsExclude, collectorVars
<1>10. ASSUME NEW h \in Handle,
              \/ TrackFromToken(h) \/ WriteValue(h) \/ CheckDeallocated(h)
              \/ GetWarrant(h) \/ ReleaseGuard(h)
       PROVE  Frame
  BY <1>1, <1>3, <1>10 DEF TrackFromToken, WriteValue, CheckDeallocated, GetWarrant,
     ReleaseGuard, WarrantsExclude, collectorVars
<1> QED
  BY <1>4, <1>5, <1>6, <1>7, <1>8, <1>9, <1>10 DEF Mutator

LEMMA StepStamp ==
    ASSUME Inductive, Next
    PROVE  StampShape'
<1>1. TypeOK /\ StampShape
  BY DEF Inductive
<1>2. /\ stamp \in [Handle -> Nat] /\ number \in Nat /\ number >= 2
      /\ \A h \in Handle : stamp[h] <= number
      /\ phase \in {"idle", "sync"} => \A h \in Handle : stamp[h] < number
  BY <1>1 DEF TypeOK, StampShape
<1>3. CASE Mutator
  <2>1. /\ phase' = phase /\ number' = number
        /\ \A h \in Handle : stamp'[h] = stamp[h] \/ stamp'[h] = 0
    BY <1>3, MutatorFrame
  <2> QED
    BY <1>2, <2>1 DEF StampShape
<1>4. CASE Destruction
  <2>1. phase' = phase /\ number' = number
    BY <1>4, DestructionFrame
  <2>2. \A h \in Handle : stamp'[h] \in {0, stamp[h]}
    BY <1>2, <1>4 DEF Destruction, Deallocate, DestructorClone, NewHandle
  <2> QED
    BY <1>2, <2>1, <2>2 DEF StampShape
<1>5. CASE Collection
  <2>1. ASSUME NEW d \in Data, ScanSlot(d)
        PROVE  StampShape'
    BY <1>2, <2>1 DEF ScanSlot, ScanData, StampShape
  <2>2. CASE FinishCollection
    BY <1>2, <2>2 DEF FinishCollection, StampShape
  <2>3. CASE BeginCollection \/ BeginScan \/ EndScan \/ EndRoots \/ EndMark
    BY <1>2, <2>3 DEF BeginCollection, BeginScan, EndScan, EndRoots, EndMark, StampShape
  <2>4. CASE \/ \E d \in Data : MarkData(d) \/ RetainSlot(d)
             \/ \E h \in Handle : VisitHandleSlot(h)
    BY <1>2, <2>4 DEF MarkData, RetainSlot, VisitHandleSlot, StampShape
  <2> QED
    BY <1>5, <2>1, <2>2, <2>3, <2>4 DEF Collection
<1> QED
  BY <1>3, <1>4, <1>5 DEF Next

\* A warrant is taken of data nobody guards only, and a guard is taken of data that
\* is not warranted only.
LEMMA StepWarrants ==
    ASSUME Inductive, Next
    PROVE  WarrantsExclude'
<1>1. TypeOK /\ HandleShape /\ WarrantsExclude
  BY DEF Inductive
<1>2. CASE Mutator
  BY <1>2, MutatorFrame DEF WarrantsExclude
<1>3. CASE Destruction
  <2>1. excl' = excl /\ access' = access
    BY <1>3, DestructionFrame
  <2>2. \A h \in Handle : access[h] = "guard" => points'[h] = points[h]
    BY <1>1, <1>3 DEF Destruction, Deallocate, DestructorClone, NewHandle, Inside, Exists,
       HandleShape, TypeOK, mutatorVars
  <2> QED
    BY <1>1, <2>1, <2>2 DEF WarrantsExclude
<1>4. CASE Collection
  <2>1. points' = points /\ access' = access
    BY <1>4, CollectionHandles
  <2>2. ASSUME NEW d \in Data, ScanSlot(d)
        PROVE  WarrantsExclude'
    BY <1>1, <2>1, <2>2 DEF ScanSlot, ScanData, Guarded, WarrantsExclude
  <2>3. excl' \in {excl, {}} \/ \E d \in Data : ScanSlot(d)
    BY <1>4 DEF Collection, BeginCollection, BeginScan, EndScan, EndRoots, EndMark,
       FinishCollection, MarkData, RetainSlot, VisitHandleSlot
  <2> QED
    BY <1>1, <2>1, <2>2, <2>3 DEF WarrantsExclude
<1> QED
  BY <1>2, <1>3, <1>4 DEF Next

\* The Gcs the scan stamps are those inside the data it warrants, and they stay there:
\* mutators are kept out by the warrants, destructors by the synchronization.
LEMMA StepFrozen ==
    ASSUME Inductive, Next
    PROVE  ScannedGraphFrozen'
<1>1. TypeOK /\ SyncShape /\ DataShape /\ StampShape /\ ScannedGraphFrozen
  BY DEF Inductive
<1>2. /\ excl \subseteq Data /\ Stack \notin Data /\ Gone \notin Data
      /\ stamp \in [Handle -> Nat] /\ holder \in [Handle -> Data \cup {Stack, Gone}]
      /\ number \in Nat /\ number >= 2
  BY <1>1, ConstantsAssumption DEF ConstantsAssumption, TypeOK
<1>3. CASE Mutator
  <2>1. /\ UNCHANGED <<excl, phase, number>>
        /\ \A h \in Handle : \/ stamp'[h] = stamp[h]
                             \/ stamp'[h] = 0 /\ holder'[h] \notin Data
        /\ \A h \in Handle : \/ holder'[h] = holder[h]
                             \/ holder[h] \notin excl /\ holder'[h] \notin excl
    BY <1>3, MutatorFrame
  <2> SUFFICES ASSUME phase \in {"scan", "roots", "mark"}, NEW h \in Handle
               PROVE  stamp'[h] = number <=> holder'[h] \in excl
    BY <2>1 DEF ScannedGraphFrozen
  <2>2. stamp[h] = number <=> holder[h] \in excl
    BY <1>1 DEF ScannedGraphFrozen
  <2>3. stamp[h] = number => holder'[h] = holder[h] /\ stamp'[h] = stamp[h]
    BY <1>2, <2>1, <2>2
  <2>4. holder'[h] \in excl => holder'[h] = holder[h] /\ stamp'[h] = stamp[h]
    BY <1>2, <2>1
  <2> QED
    BY <1>2, <2>1, <2>2, <2>3, <2>4
<1>4. CASE Destruction
  <2>1. UNCHANGED <<excl, phase, number>>
    BY <1>4, DestructionFrame
  <2> SUFFICES ASSUME phase \in {"scan", "roots", "mark"}
               PROVE  holder' = holder /\ stamp' = stamp
    BY <1>1, <2>1 DEF ScannedGraphFrozen
  <2>2. running = {}
    BY <1>1 DEF SyncShape, Quiet
  <2> QED
    BY <1>4, <2>2 DEF Destruction, Deallocate, EndDeallocate, DestructorClone, mutatorVars
<1>5. CASE Collection
  <2>1. holder' = holder
    BY <1>5, CollectionHandles
  <2>2. ASSUME NEW d \in Data, ScanSlot(d)
        PROVE  ScannedGraphFrozen'
    BY <1>1, <1>2, <2>1, <2>2 DEF ScanSlot, ScanData, ScannedGraphFrozen
  <2>3. CASE BeginScan
    <3>1. excl = {} /\ excl' = excl /\ stamp' = stamp /\ number' = number
      BY <1>1, <2>3 DEF BeginScan, DataShape
    <3>2. \A h \in Handle : stamp[h] < number
      BY <1>1, <2>3 DEF BeginScan, StampShape
    <3> QED
      BY <1>2, <3>1, <3>2 DEF ScannedGraphFrozen
  <2>4. CASE \/ EndScan \/ EndRoots \/ \E d \in Data : MarkData(d)
             \/ \E h \in Handle : VisitHandleSlot(h)
    BY <1>1, <2>1, <2>4 DEF EndScan, EndRoots, MarkData, VisitHandleSlot, ScannedGraphFrozen
  <2>5. CASE BeginCollection \/ EndMark \/ FinishCollection \/ \E d \in Data : RetainSlot(d)
    BY <2>5 DEF BeginCollection, EndMark, FinishCollection, RetainSlot, ScannedGraphFrozen
  <2> QED
    BY <1>5, <2>2, <2>3, <2>4, <2>5 DEF Collection
<1> QED
  BY <1>3, <1>4, <1>5 DEF Next

-----------------------------------------------------------------------------
LEMMA StutterInductive ==
    ASSUME Inductive, UNCHANGED vars
    PROVE  Inductive'
BY DEF Inductive, vars, mutatorVars, collectorVars, dropperVars, TypeOK, DropperTypeOK,
   DropperShape, SyncShape, DataShape, HandleShape, StampShape, WarrantsExclude,
   ScannedGraphFrozen, Quiet, InChannel, IsData, Exists

\* The strengthening is an inductive invariant of the collector.
THEOREM CollectorInductive == Spec => []Inductive
<1>1. Inductive /\ [Next]_vars => Inductive'
  <2>1. ASSUME Inductive, Next
        PROVE  Inductive'
    <3>1. TypeOK'
      BY <2>1, MutatorType, DestructionType, CollectionType DEF Next
    <3>2. DropperShape' /\ SyncShape'
      BY <2>1, StepShape
    <3>3. DataShape' /\ HandleShape' /\ StampShape'
      BY <2>1, StepData, StepHandle, StepStamp
    <3>4. WarrantsExclude' /\ ScannedGraphFrozen'
      BY <2>1, StepWarrants, StepFrozen
    <3> QED
      BY <3>1, <3>2, <3>3, <3>4 DEF Inductive
  <2> QED
    BY <2>1, StutterInductive
<1> QED
  BY InitInductive, <1>1, PTL DEF Spec

\* Type correctness of the collector, its mutators and the drop thread.
THEOREM CollectorTypes == Spec => []TypeOK
<1>1. Inductive => TypeOK
  BY DEF Inductive
<1> QED
  BY CollectorInductive, <1>1, PTL

\* The collector's exclusive warrants and the mutators' guards exclude each other
\* (get_data_warrant against the scan of do_collect).
THEOREM CollectorWarrants == Spec => []WarrantsExclude
<1>1. Inductive => WarrantsExclude
  BY DEF Inductive
<1> QED
  BY CollectorInductive, <1>1, PTL

\* The graph that do_collect's search walks does not move under it, whatever
\* mutators and destructors do meanwhile.
THEOREM CollectorFrozenGraph == Spec => []ScannedGraphFrozen
<1>1. Inductive => ScannedGraphFrozen
  BY DEF Inductive
<1> QED
  BY CollectorInductive, <1>1, PTL

\* The synchronization at the start of do_collect keeps destructors out of the whole
\* collection.
THEOREM CollectorSynchronized == Spec => []DestructorsSynchronized
<1>1. Inductive => DestructorsSynchronized
  BY DEF Inductive, SyncShape, Quiet, DestructorsSynchronized
<1> QED
  BY CollectorInductive, <1>1, PTL

\* No piece of data is sent to the drop thread twice.
THEOREM CollectorCondemnsOnce == Spec => []CondemnedOnce
<1>1. Inductive => CondemnedOnce
  BY DEF Inductive, DataShape, CondemnedOnce
<1> QED
  BY CollectorInductive, <1>1, PTL

-----------------------------------------------------------------------------
(* The drop thread below the collector.                                    *)

\* The collector sends no data twice, and the data whose flag a new_cyclic clears is not
\* sent, so the drop thread's own invariant holds.
LEMMA StepDropper ==
    ASSUME Inductive, DropperInductive, [Next]_vars
    PROVE  DropperInductive'
<1>1. CASE Mutator
  <2>1. CASE \E h \in Handle, d \in Data, S \in SUBSET Handle : SetupGcReference(h, d, S)
    BY <2>1, DropperUnchanged DEF SetupGcReference
  <2>2. CASE \E h, g \in Handle : Clone(h, g) \/ MoveIn(h, g) \/ MoveOut(h, g)
    BY <2>2, DropperUnchanged DEF Clone, MoveIn, MoveOut
  <2>3. CASE \E h \in Handle : \/ TrackFromToken(h) \/ WriteValue(h) \/ DropHandle(h)
                              \/ CheckDeallocated(h) \/ GetWarrant(h) \/ ReleaseGuard(h)
    BY <2>3, DropperUnchanged DEF TrackFromToken, WriteValue, DropHandle, CheckDeallocated,
       GetWarrant, ReleaseGuard
  <2>4. CASE \/ \E h, g \in Handle, d \in Data : BeginCyclic(h, g, d)
             \/ \E h \in Handle, S \in SUBSET Handle : ClosureReturns(h, S)
    <3> DEFINE Kept ==
          /\ UNCHANGED <<channel, stage, batch, pending, running, destroyed, sync, sent>>
          /\ deallocated' \subseteq Data /\ sent \cap deallocated \subseteq deallocated'
    <3>1. Kept
      <4>1. ASSUME NEW h \in Handle, NEW g \in Handle, NEW d \in Data, BeginCyclic(h, g, d)
            PROVE  Kept
        BY <4>1 DEF BeginCyclic, DropperInductive, DropperTypeOK
      <4>2. ASSUME NEW h \in Handle, NEW S \in SUBSET Handle, ClosureReturns(h, S)
            PROVE  Kept
        BY <4>2 DEF ClosureReturns, Inductive, HandleShape, Constructing, DropperInductive,
           DropperTypeOK
      <4> HIDE DEF Kept
      <4> QED
        BY <2>4, <4>1, <4>2
    <3>2. \A i \in DOMAIN channel : IsData(i)' = IsData(i) /\ IsSync(i)' = IsSync(i)
      BY <3>1 DEF IsData, IsSync
    <3>3. destroyed' = destroyed /\ \A d : InChannel(d)' = InChannel(d)
      BY <3>1 DEF InChannel, IsData
    <3>4. DropperTypeOK' /\ DropperShape' /\ SyncsOnce'
      BY <3>1, <3>2, <3>3 DEF DropperInductive, DropperTypeOK, DropperShape, SyncsOnce, Requested
    <3>5. DropperOnce'
      BY <3>1, <3>2, <3>3 DEF DropperInductive, DropperTypeOK, DropperOnce
    <3> QED
      BY <3>4, <3>5 DEF DropperInductive
  <2> QED
    BY <1>1, <2>1, <2>2, <2>3, <2>4 DEF Mutator
<1>2. CASE Destruction
  <2>1. CASE \E h, g \in Handle : DestructorClone(h, g)
    BY <2>1, DropperUnchanged DEF DestructorClone
  <2> QED
    BY <1>2, <2>1, DropThreadInductive, EndDeallocateInductive DEF Destruction, Deallocate
<1>3. CASE Collection
  <2>1. CASE BeginCollection \/ BeginScan
    BY <2>1, SendSyncInductive, SyncReturnsInductive, ConstantsAssumption
       DEF BeginCollection, BeginScan, ConstantsAssumption
  <2>2. CASE FinishCollection
    <3>1. condemned \in SUBSET Data /\ condemned \cap sent = {}
      BY DEF Inductive, TypeOK, DataShape
    <3> QED
      BY <2>2, <3>1, SendDataInductive DEF FinishCollection
  <2>3. CASE \/ EndScan \/ EndRoots \/ EndMark
             \/ \E d \in Data : ScanSlot(d) \/ MarkData(d) \/ RetainSlot(d)
             \/ \E h \in Handle : VisitHandleSlot(h)
    BY <2>3, DropperUnchanged DEF EndScan, EndRoots, EndMark, ScanSlot, MarkData, RetainSlot,
       VisitHandleSlot
  <2> QED
    BY <1>3, <2>1, <2>2, <2>3 DEF Collection
<1>4. CASE UNCHANGED vars
  BY <1>4, DropperUnchanged DEF vars
<1> QED
  BY <1>1, <1>2, <1>3, <1>4 DEF Next

\* Under the collector, too, data of a batch is flagged before its destructors begin and
\* no destructor runs twice.
THEOREM CollectorDropper == Spec => [](FlagsBeforeDrops /\ DestroyedOnce)
<1>1. Init => DropperInductive
  BY DropperInitInductive DEF Init
<1>2. DropperInductive => FlagsBeforeDrops /\ DestroyedOnce
  BY DropperPromises
<1> QED
  BY CollectorInductive, StepDropper, <1>1, <1>2, PTL DEF Spec

\* The collection and the destructors it waits for never wait for each other.
THEOREM CollectorNeverStuck == Spec => []NeverStuck
<1>1. ASSUME Inductive, DropperInductive
      PROVE  NeverStuck
  <2>1. ASSUME phase = "sync", sync[GcThread] # "answered"
        PROVE  channel # <<>>
    <3>1. GcThread \in Client /\ sync[GcThread] = "waiting"
      BY <1>1, <2>1, ConstantsAssumption
         DEF ConstantsAssumption, Inductive, SyncShape, DropperInductive, DropperTypeOK
    <3>2. PICK i \in DOMAIN channel : IsSync(i) /\ channel[i].from = GcThread
      BY <1>1, <3>1 DEF DropperInductive, SyncsOnce, Requested
    <3> QED
      BY <3>2
  <2>2. running # {} => excl = {}
    BY <1>1 DEF Inductive, SyncShape, Quiet, DataShape
  <2> QED
    BY <2>1, <2>2 DEF NeverStuck
<1>2. Init => DropperInductive
  BY DropperInitInductive DEF Init
<1>3. Inductive /\ DropperInductive /\ [Next]_vars => DropperInductive'
  BY StepDropper
<1> QED
  BY CollectorInductive, <1>1, <1>2, <1>3, PTL DEF Spec

-----------------------------------------------------------------------------
(* What mutators can reach is neither doomed nor warranted nor garbage.    *)

\* A Gc a mutator can lay its hands on, and the places where it can put one.
Loose(h) == Exists(h) /\ (holder[h] = Stack \/ Guarded(holder[h]))
Open(x)  == \/ x = Stack
            \/ x \in Data /\ (Guarded(x) \/ x \notin used \/ InSetup(x))

\* Destructors run between collections only, and all that was ever sent is flagged then.
LEMMA RunningFacts ==
    ASSUME SafeInductive, running # {}
    PROVE  /\ phase \in {"idle", "sync"} /\ condemned = {} /\ garbage = {}
           /\ sent \subseteq deallocated /\ Doom = sent
<1>1. stage = "drop" /\ phase \in {"idle", "sync"}
  BY DEF SafeInductive, Inductive, TypeOK, DropperShape, SyncShape, Quiet, Phase, DropperTypeOK
<1>2. \A d : ~InChannel(d)
  BY <1>1 DEF SafeInductive, PipelineShape, InChannel
<1>3. sent \subseteq deallocated
  BY <1>1, <1>2 DEF SafeInductive, DropperInductive, DropperShape, DropperOnce, PipelineShape
<1>4. condemned = {} /\ garbage = {}
  BY <1>1 DEF SafeInductive, Inductive, DataShape, GarbageShape
<1> QED
  BY <1>1, <1>3, <1>4 DEF Doom, Dead

\* Borrowed Gcs point to data that is neither doomed nor garbage.
LEMMA BorrowedFacts ==
    ASSUME SafeInductive, NEW h \in Handle, access[h] \in {"checked", "guard"}
    PROVE  points[h] \notin Doom \cup garbage
<1>1. Exists(h) /\ holder[h] \in {Stack} \cup running /\ points[h] \notin Doom
  BY DEF SafeInductive, Inductive, HandleShape, GuardShape
<1>2. CASE holder[h] = Stack
  <2>1. Stack \notin garbage
    BY ConstantsAssumption DEF ConstantsAssumption, SafeInductive, Inductive, TypeOK
  <2> QED
    BY <1>1, <1>2, <2>1 DEF SafeInductive, GarbageShape
<1>3. CASE holder[h] \in running
  BY <1>1, <1>3, RunningFacts
<1> QED
  BY <1>1, <1>2, <1>3

LEMMA OpenFacts ==
    ASSUME SafeInductive, NEW x, Open(x)
    PROVE  x \notin excl /\ x \notin Doom /\ x \notin garbage /\ x \notin destroyed
<1>1. /\ excl \subseteq tracked /\ tracked \subseteq used /\ used \subseteq Data /\ condemned \subseteq used
      /\ sent \subseteq used /\ destroyed \subseteq sent /\ garbage \subseteq tracked \cup condemned
      /\ White \subseteq tracked
  BY DEF SafeInductive, Inductive, TypeOK, DataShape, DropperInductive, DropperOnce, GarbageShape,
     White
<1>2. CASE x = Stack \/ x \notin used
  BY <1>1, <1>2, ConstantsAssumption DEF ConstantsAssumption, Doom, Dead
<1>3. CASE Guarded(x)
  <2>1. PICK h \in Handle : access[h] = "guard" /\ points[h] = x
    BY <1>3 DEF Guarded
  <2>2. x \notin Doom \cup garbage
    BY <2>1, BorrowedFacts
  <2>3. x \notin excl
    BY <2>1 DEF SafeInductive, Inductive, WarrantsExclude
  <2> QED
    BY <1>1, <2>2, <2>3 DEF Doom, Dead
<1>4. CASE InSetup(x)
  BY <1>1, <1>4 DEF InSetup, SafeInductive, Inductive, HandleShape, Doom, Dead
<1> QED
  BY <1>2, <1>3, <1>4 DEF Open

LEMMA LooseFacts ==
    ASSUME SafeInductive, NEW h \in Handle, Loose(h)
    PROVE  /\ holder[h] \notin excl
           /\ points[h] \in Doom => Stray(points[h])
           /\ points[h] \notin garbage
           /\ phase = "mark" => Safe(points[h])
<1>1. Exists(h) /\ holder[h] \in Data \cup {Stack}
  BY DEF Loose, Exists, SafeInductive, Inductive, TypeOK
<1>2. Open(holder[h])
  BY <1>1 DEF Loose, Open
<1>3. holder[h] \notin excl /\ holder[h] \notin Doom /\ holder[h] \notin garbage
  BY <1>2, OpenFacts
<1> QED
  BY <1>1, <1>3 DEF SafeInductive, GraphSafe, GarbageShape, Searched

\* Data not yet allocated has no part in the collection.
LEMMA FreshFacts ==
    ASSUME SafeInductive, NEW d \in Data \ used
    PROVE  /\ d \notin Doom /\ d \notin garbage /\ Safe(d)
           /\ \A h \in Handle : points[h] # d \/ ~Exists(h)
<1>1. /\ tracked \subseteq used /\ condemned \subseteq used
      /\ sent \subseteq used /\ garbage \subseteq tracked \cup condemned
      /\ White \subseteq tracked
  BY DEF SafeInductive, Inductive, TypeOK, DataShape, GarbageShape, White
<1>2. mark[d] = 0
  BY <1>1 DEF SafeInductive, HeapShape, Dead
<1> QED
  BY <1>1, <1>2 DEF Doom, Dead, Safe, SafeInductive, Inductive, HandleShape

-----------------------------------------------------------------------------
(* What a step of a mutator does to the graph.                             *)

\* A mutator touches neither the marks nor the collection nor the channel.
LEMMA MutatorUnchanged ==
    ASSUME Mutator
    PROVE  UNCHANGED <<mark, collectorVars, channel, stage, batch, pending, running, destroyed, sync, sent>>
BY DEF Mutator, SetupGcReference, TrackFromToken, BeginCyclic, ClosureReturns,
   WriteValue, Clone, DropHandle, CheckDeallocated, GetWarrant, ReleaseGuard, MoveIn,
   MoveOut, dropperVars

\* Each Gc there is after a mutator's step was there and stayed, or was loose and moved
\* to an open place, or is the first of new data, or is the copy of a loose one.
Stayed(g) == Exists(g) /\ points'[g] = points[g] /\ holder'[g] = holder[g]
Moved(g)  == /\ Loose(g) /\ points'[g] = points[g]
             /\ Open(holder'[g]) /\ holder'[g] \in used' \cup {Stack}
Newborn(g) == ~Exists(g) /\ holder'[g] = Stack /\ points'[g] \in Data \ used
Copied(g) == /\ ~Exists(g) /\ holder'[g] = Stack /\ Performs("clone")
             /\ \E h \in Handle : Loose(h) /\ points'[g] = points[h]

LEMMA MutatorGraph ==
    ASSUME SafeInductive, Mutator, NEW g \in Handle, Exists(g)'
    PROVE  Stayed(g) \/ Moved(g) \/ Newborn(g) \/ Copied(g)
<1> DEFINE Goal == Stayed(g) \/ Moved(g) \/ Newborn(g) \/ Copied(g)
<1>1. TypeOK /\ HandleShape
  BY DEF SafeInductive, Inductive
<1>2. \A h \in Handle : Unborrowed(h) => Loose(h)
  BY <1>1, ConstantsAssumption DEF ConstantsAssumption, Unborrowed, Loose, Exists
<1>3. \A h \in Handle : access[h] = "guard" => Open(points[h]) /\ points[h] \in used
  BY <1>1 DEF Open, Guarded, HandleShape, TypeOK
<1> USE ConstantsAssumption DEF ConstantsAssumption
<1>4. ASSUME NEW h \in Handle, NEW d \in Data, NEW S \in SUBSET Handle, SetupGcReference(h, d, S)
      PROVE  Goal
  BY <1>1, <1>2, <1>4 DEF SetupGcReference, NewHandle, Stayed, Moved, Newborn, Exists, Open,
     TypeOK, Loose, Unborrowed
<1>5. ASSUME NEW h \in Handle, NEW k \in Handle, NEW d \in Data, BeginCyclic(h, k, d)
      PROVE  Goal
  BY <1>1, <1>5 DEF BeginCyclic, Stayed, Newborn, Exists, TypeOK
<1>6. ASSUME NEW h \in Handle, NEW S \in SUBSET Handle, ClosureReturns(h, S)
      PROVE  Goal
  <2>1. InSetup(points[h]) /\ points[h] \in used
    BY <1>1, <1>6 DEF ClosureReturns, InSetup, Constructing, HandleShape, TypeOK
  <2> QED
    BY <1>1, <1>2, <1>6, <2>1 DEF ClosureReturns, Stayed, Moved, Exists, Open, TypeOK
<1>7. ASSUME NEW h \in Handle, NEW k \in Handle, Clone(h, k)
      PROVE  Goal
  <2>1. Loose(h)
    BY <1>1, <1>7 DEF Clone, Visible, Loose, Exists
  <2> QED
    BY <1>1, <1>7, <2>1 DEF Clone, NewHandle, Stayed, Copied, Exists, TypeOK
<1>8. ASSUME NEW h \in Handle, NEW k \in Handle, MoveIn(h, k) \/ MoveOut(h, k)
      PROVE  Goal
  <2>1. Loose(h) /\ Open(Stack) /\ Open(points[k]) /\ points[k] \in used
    BY <1>1, <1>2, <1>3, <1>8 DEF MoveIn, MoveOut, Loose, Open, Exists, Guarded, HandleShape, TypeOK
  <2> QED
    BY <1>1, <1>8, <2>1 DEF MoveIn, mutatorVars, MoveOut, Stayed, Moved, Exists, TypeOK
<1>9. ASSUME NEW h \in Handle,
             \/ TrackFromToken(h) \/ WriteValue(h) \/ DropHandle(h)
             \/ CheckDeallocated(h) \/ GetWarrant(h) \/ ReleaseGuard(h)
      PROVE  Goal
  BY <1>1, <1>9 DEF TrackFromToken, WriteValue, DropHandle, CheckDeallocated, GetWarrant,
     ReleaseGuard, Stayed, Exists, TypeOK
<1> HIDE DEF Goal
<1> QED
  BY <1>4, <1>5, <1>6, <1>7, <1>8, <1>9 DEF Mutator, Goal

\* Only a drop ends a Gc.
LEMMA MutatorKeeps ==
    ASSUME SafeInductive, Mutator, NEW g \in Handle, Exists(g)
    PROVE  Exists(g)' \/ (Performs("drop") /\ holder[g] = Stack)
<1>1. TypeOK /\ HandleShape
  BY DEF SafeInductive, Inductive
<1> QED
  BY <1>1, ConstantsAssumption DEF ConstantsAssumption, Mutator, SetupGcReference, TrackFromToken, BeginCyclic,
     ClosureReturns, WriteValue, Clone, DropHandle, CheckDeallocated, GetWarrant, ReleaseGuard,
     MoveIn, MoveOut, NewHandle, Unborrowed, Exists, TypeOK, HandleShape, Constructing

\* Data a mutator adds to the list is new, and was under construction.
LEMMA MutatorTracks ==
    ASSUME SafeInductive, Mutator
    PROVE  /\ used \subseteq used' /\ tracked \subseteq tracked'
           /\ \A d \in tracked' \ tracked : d \in used /\ d \notin Dead /\ mark[d] = 0
           /\ sent \cap deallocated \subseteq deallocated'
<1>1. TypeOK /\ HandleShape /\ DataShape
  BY DEF SafeInductive, Inductive
<1>2. /\ used \subseteq used'
      /\ \/ tracked' = tracked
         \/ \E h \in Handle : access[h] = "written" /\ tracked' = tracked \cup {points[h]}
      /\ \/ deallocated \subseteq deallocated'
         \/ \E h \in Handle : access[h] = "closure" /\ deallocated' = deallocated \ {points[h]}
  BY DEF Mutator, SetupGcReference, TrackFromToken, BeginCyclic, ClosureReturns,
     WriteValue, Clone, DropHandle, CheckDeallocated, GetWarrant, ReleaseGuard, MoveIn,
     MoveOut, dropperVars
<1>3. \A h \in Handle : access[h] \in Constructing =>
          points[h] \in used /\ points[h] \notin tracked \cup Dead /\ mark[points[h]] = 0
  BY <1>1 DEF HandleShape, Exists, Dead, SafeInductive, HeapShape, Constructing, TypeOK
<1> QED
  BY <1>2, <1>3 DEF Constructing, Dead

\* A Gc that is borrowed after the step was so before, or begins to be, and stays where it is.
LEMMA MutatorBorrows ==
    ASSUME SafeInductive, Mutator, NEW h \in Handle, access'[h] \in {"checked", "guard"}
    PROVE  /\ holder'[h] = holder[h] /\ points'[h] = points[h]
           /\ \/ access[h] \in {"checked", "guard"}
              \/ holder[h] \in {Stack} \cup running /\ points[h] \notin deallocated
<1>1. TypeOK /\ HandleShape
  BY DEF SafeInductive, Inductive
<1>2. CASE \E g \in Handle, d \in Data, S \in SUBSET Handle : SetupGcReference(g, d, S)
  BY <1>1, <1>2 DEF SetupGcReference, NewHandle, Unborrowed, HandleShape, TypeOK
<1>3. CASE \E g, k \in Handle, d \in Data : BeginCyclic(g, k, d)
  BY <1>1, <1>3 DEF BeginCyclic, HandleShape, TypeOK
<1>4. CASE \E g \in Handle, S \in SUBSET Handle : ClosureReturns(g, S)
  BY <1>1, <1>4 DEF ClosureReturns, Unborrowed, TypeOK
<1>5. CASE \E g, k \in Handle : Clone(g, k) \/ MoveIn(g, k) \/ MoveOut(g, k)
  BY <1>1, <1>5 DEF Clone, MoveIn, MoveOut, NewHandle, Unborrowed, HandleShape, TypeOK
<1>6. CASE \E g \in Handle : \/ TrackFromToken(g) \/ WriteValue(g) \/ DropHandle(g)
                             \/ CheckDeallocated(g) \/ GetWarrant(g) \/ ReleaseGuard(g)
  BY <1>1, <1>6 DEF TrackFromToken, WriteValue, DropHandle, CheckDeallocated, GetWarrant,
     ReleaseGuard, Unborrowed, TypeOK
<1> QED
  BY <1>2, <1>3, <1>4, <1>5, <1>6 DEF Mutator

\* Construction ends in the data list.
LEMMA MutatorSetup ==
    ASSUME SafeInductive, Mutator
    PROVE  used' \subseteq used \cup {d \in Data : InSetup(d)'}
           /\ \A d \in Data : InSetup(d) => InSetup(d)' \/ d \in tracked'
<1>1. TypeOK /\ HandleShape
  BY DEF SafeInductive, Inductive
<1>2. CASE \E h \in Handle, d \in Data, S \in SUBSET Handle : SetupGcReference(h, d, S)
  BY <1>1, <1>2 DEF SetupGcReference, NewHandle, HandleShape, TypeOK, InSetup, Constructing
<1>3. CASE \E h, g \in Handle, d \in Data : BeginCyclic(h, g, d)
  BY <1>1, <1>3 DEF BeginCyclic, HandleShape, TypeOK, InSetup, Constructing
<1>4. CASE \E h \in Handle, S \in SUBSET Handle : ClosureReturns(h, S)
  BY <1>1, <1>4 DEF ClosureReturns, TypeOK, InSetup, Constructing
<1>5. CASE \E h, g \in Handle : Clone(h, g) \/ MoveIn(h, g) \/ MoveOut(h, g)
  BY <1>1, <1>5 DEF Clone, MoveIn, MoveOut, NewHandle, HandleShape, TypeOK, InSetup, Constructing
<1>6. CASE \E h \in Handle : \/ TrackFromToken(h) \/ WriteValue(h) \/ DropHandle(h)
                             \/ CheckDeallocated(h) \/ GetWarrant(h) \/ ReleaseGuard(h)
  BY <1>1, <1>6 DEF TrackFromToken, WriteValue, DropHandle, CheckDeallocated, GetWarrant,
     ReleaseGuard, Unborrowed, HandleShape, TypeOK, InSetup, Constructing
<1> QED
  BY <1>2, <1>3, <1>4, <1>5, <1>6 DEF Mutator

LEMMA MutatorShapes ==
    ASSUME SafeInductive, Mutator
    PROVE  PipelineShape' /\ HeapShape' /\ MarkShape' /\ GuardShape' /\ QueueShape' /\ Doom' = Doom
<1>1. /\ UNCHANGED <<mark, phase, number, excl, dataSlots, queue, condemned, sent>>
      /\ UNCHANGED <<channel, stage, running, destroyed>>
  BY MutatorUnchanged DEF collectorVars
<1>2. /\ used \subseteq used' /\ tracked \subseteq tracked'
      /\ \A d \in tracked' \ tracked : d \in used /\ d \notin Dead /\ mark[d] = 0
      /\ sent \cap deallocated \subseteq deallocated'
  BY MutatorTracks
<1>3. destroyed' = destroyed /\ destroyed \subseteq sent
  BY <1>1 DEF SafeInductive, DropperInductive, DropperOnce
<1>4. PipelineShape'
  BY <1>1, <1>2, <1>3 DEF SafeInductive, PipelineShape, IsData
<1>5. Dead' = Dead /\ White' = White /\ Doom' = Doom
  BY <1>1, <1>2 DEF Dead, White, Doom
<1>6. HeapShape'
  <2>1. used' \subseteq tracked' \cup Dead \cup {d \in Data : InSetup(d)'}
    <3>1. \A d \in used : d \in tracked \cup Dead \/ (d \in Data /\ InSetup(d))
      BY DEF SafeInductive, HeapShape
    <3> QED
      BY <3>1, <1>2, MutatorSetup
  <2>2. ASSUME NEW h \in Handle, holder'[h] \in Data
        PROVE  holder'[h] \in used' \ destroyed
    <3>1. Exists(h)'
      BY <2>2, ConstantsAssumption DEF Exists, ConstantsAssumption
    <3>2. Stack \notin Data
      BY ConstantsAssumption DEF ConstantsAssumption
    <3>3. CASE Stayed(h)
      BY <3>3, <2>2, <1>2 DEF Stayed, SafeInductive, HeapShape
    <3>4. CASE Moved(h)
      BY <3>2, <3>4, <2>2, OpenFacts DEF Moved
    <3> QED
      BY <3>1, <3>2, <3>3, <3>4, <2>2, MutatorGraph DEF Newborn, Copied
  <2> QED
    BY <1>1, <1>2, <1>3, <1>5, <2>1, <2>2 DEF SafeInductive, HeapShape
<1>7. MarkShape'
  BY <1>1, <1>2, <1>5 DEF SafeInductive, MarkShape
<1>8. GuardShape'
  <2> SUFFICES ASSUME NEW h \in Handle, access'[h] \in {"checked", "guard"}
               PROVE  holder'[h] \in {Stack} \cup running /\ points'[h] \notin Doom
    BY <1>1, <1>5 DEF GuardShape
  <2>1. /\ holder'[h] = holder[h] /\ points'[h] = points[h]
        /\ \/ access[h] \in {"checked", "guard"}
           \/ holder[h] \in {Stack} \cup running /\ points[h] \notin deallocated
    BY MutatorBorrows
  <2>2. CASE holder[h] = Stack /\ points[h] \notin deallocated
    <3>1. Exists(h) /\ Stack \notin Doom
      BY <2>2, OpenFacts, ConstantsAssumption DEF Open, Exists, ConstantsAssumption
    <3> QED
      BY <2>1, <2>2, <3>1 DEF SafeInductive, GraphSafe, Stray
  <2> QED
    BY <2>1, <2>2, RunningFacts DEF SafeInductive, GuardShape
<1>9. QueueShape'
  BY <1>1, <1>2, <1>5 DEF SafeInductive, QueueShape, Stray
<1> QED
  BY <1>4, <1>5, <1>6, <1>7, <1>8, <1>9

\* A program that clones during a collection does not drop, so that a root lost is lost with
\* what it pointed to.
LEMMA MutatorGraphShapes ==
    ASSUME SafeInductive, ClonesOrDrops, Mutator
    PROVE  GraphSafe' /\ RootsFound' /\ Searched' /\ GarbageShape'
<1>1. /\ UNCHANGED <<mark, phase, number, excl, dataSlots, handleSlots, queue, condemned, sent>>
      /\ UNCHANGED garbage
  BY MutatorUnchanged DEF collectorVars
<1>2. Doom' = Doom
  BY MutatorShapes
<1>3. Stack \notin Doom \cup garbage \cup excl
  <2>1. Open(Stack)
    BY DEF Open
  <2> QED
    BY <2>1, OpenFacts
<1>4. ASSUME NEW g \in Handle, Exists(g)'
      PROVE  Stayed(g) \/ Moved(g) \/ Newborn(g) \/ Copied(g)
  BY <1>4, MutatorGraph
<1>5. GraphSafe'
  <2>1. ASSUME NEW g \in Handle, Exists(g)', holder'[g] \notin Doom, points'[g] \in Doom
        PROVE  Stray(points'[g])
    <3>1. CASE Stayed(g)
      BY <2>1, <3>1 DEF Stayed, SafeInductive, GraphSafe
    <3> QED
      BY <1>4, <2>1, <3>1, LooseFacts, FreshFacts DEF Moved, Newborn, Copied
  <2>2. sent \cap deallocated \subseteq deallocated'
    BY MutatorTracks
  <2> QED
    BY <1>1, <1>2, <2>1, <2>2 DEF GraphSafe, Stray
<1>6. GarbageShape'
  <2>1. ASSUME NEW g \in Handle, Exists(g)', points'[g] \in garbage
        PROVE  holder'[g] \in garbage
    <3>1. CASE Stayed(g)
      BY <2>1, <3>1 DEF Stayed, SafeInductive, GarbageShape
    <3> QED
      BY <1>4, <2>1, <3>1, LooseFacts, FreshFacts DEF Moved, Newborn, Copied
  <2>2. /\ tracked \subseteq tracked'
        /\ \A d \in tracked' \ tracked : d \notin condemned
    BY MutatorTracks DEF Dead
  <2>3. garbage \subseteq tracked' \cup condemned /\ garbage \cap tracked' = garbage \cap tracked
    BY <2>2 DEF SafeInductive, GarbageShape
  <2> QED
    BY <1>1, <2>1, <2>3 DEF SafeInductive, GarbageShape
<1>7. Searched'
  <2> SUFFICES ASSUME phase = "mark", NEW g \in Handle, Exists(g)',
                      holder'[g] \in excl => mark[holder'[g]] = number
               PROVE  Safe(points'[g])
    BY <1>1 DEF Searched, Safe
  <2>1. CASE Stayed(g)
    BY <2>1 DEF Stayed, SafeInductive, Searched
  <2> QED
    BY <1>4, <2>1, LooseFacts, FreshFacts DEF Moved, Newborn, Copied
<1>8. RootsFound'
  <2> DEFINE Witness(x) == /\ "drop" \notin During[number]
                           /\ \E k \in handleSlots : Exists(k) /\ holder[k] \notin excl /\ points[k] = x
             Witness2(x) == /\ "drop" \notin During[number]
                            /\ \E k \in handleSlots : Exists(k)' /\ holder'[k] \notin excl /\ points'[k] = x
  <2> SUFFICES ASSUME phase = "roots", NEW g \in Handle, Exists(g)', holder'[g] \notin excl
               PROVE  Safe(points'[g]) \/ g \in handleSlots \/ Witness2(points'[g])
    BY <1>1 DEF RootsFound, Safe
  <2>1. ASSUME NEW h \in Handle, Exists(h), holder[h] \notin excl
        PROVE  Safe(points[h]) \/ h \in handleSlots \/ Witness(points[h])
    BY <2>1 DEF SafeInductive, RootsFound
  <2>2. ASSUME NEW x, Witness(x)
        PROVE  Witness2(x)
    <3>1. PICK k \in handleSlots : Exists(k) /\ holder[k] \notin excl /\ points[k] = x
      BY <2>2
    <3>2. k \in Handle
      BY DEF SafeInductive, Inductive, TypeOK
    <3>3. Exists(k)'
      BY <2>2, <3>1, <3>2, MutatorKeeps DEF Performs
    <3>4. Stayed(k) \/ Moved(k)
      BY <1>4, <3>1, <3>2, <3>3 DEF Newborn, Copied
    <3>5. holder'[k] \notin excl /\ points'[k] = x
      BY <3>1, <3>4, OpenFacts DEF Stayed, Moved
    <3> QED
      BY <2>2, <3>1, <3>3, <3>5
  <2> HIDE DEF Witness
  <2>3. CASE Stayed(g)
    BY <2>1, <2>2, <2>3 DEF Stayed
  <2>4. CASE Moved(g)
    BY <2>1, <2>2, <2>4, LooseFacts DEF Moved, Loose
  <2>5. CASE Newborn(g)
    BY <2>5, FreshFacts DEF Newborn
  <2>6. CASE Copied(g)
    <3>1. PICK h \in Handle : Loose(h) /\ points'[g] = points[h]
      BY <2>6 DEF Copied
    <3>2. Safe(points[h]) \/ h \in handleSlots \/ Witness(points[h])
      BY <2>1, <3>1, LooseFacts DEF Loose
    <3>3. "drop" \notin During[number]
      <4>1. "clone" \in During[number] /\ number \in DOMAIN During
        BY <2>6, ConstantsAssumption DEF Copied, Performs, ConstantsAssumption, SafeInductive,
           HeapShape, Inductive, TypeOK
      <4> QED
        BY <4>1 DEF ClonesOrDrops
    <3>4. h \in handleSlots => Witness(points[h])
      BY <3>1, <3>3, LooseFacts DEF Loose, Witness
    <3> QED
      BY <2>2, <3>1, <3>2, <3>4
  <2> QED
    BY <1>4, <2>3, <2>4, <2>5, <2>6
<1> QED
  BY <1>5, <1>6, <1>7, <1>8

-----------------------------------------------------------------------------
(* Steps of the drop thread and of destructors.                            *)

LEMMA DestructionPipeline ==
    ASSUME SafeInductive, Destruction
    PROVE  PipelineShape'
<1>1. PipelineShape /\ DropperTypeOK /\ DropperOnce
  BY DEF SafeInductive, DropperInductive
<1>2. ASSUME NEW d \in Data, NEW panicked \in BOOLEAN, Deallocate(d, panicked)
      PROVE  PipelineShape'
  <2>1. /\ UNCHANGED <<channel, stage, deallocated>> /\ destroyed' = destroyed \cup {d} /\ d \in running
    BY <1>2 DEF Deallocate, EndDeallocate
  <2>2. d \in deallocated
    BY <2>1, RunningFacts DEF SafeInductive, DropperInductive, DropperOnce, DropperTypeOK
  <2> QED
    BY <1>1, <2>1, <2>2 DEF PipelineShape, IsData
<1>3. CASE \E h, g \in Handle : DestructorClone(h, g)
  BY <1>1, <1>3 DEF DestructorClone, dropperVars, PipelineShape, IsData
<1>4. CASE ReceiveData \/ AnswerSync
  <2>1. channel \in Seq(DropMessage) /\ channel # <<>> /\ channel' = Tail(channel)
    BY <1>1, <1>4 DEF ReceiveData, AnswerSync, DropperTypeOK
  <2>2. /\ Head(channel) = channel[1] /\ Len(channel) \in Nat /\ Len(channel') = Len(channel) - 1
        /\ DOMAIN channel = 1 .. Len(channel) /\ DOMAIN channel' = 1 .. Len(channel')
        /\ \A i \in DOMAIN channel' : i + 1 \in DOMAIN channel /\ channel'[i] = channel[i + 1]
    BY <2>1, ChannelTail
  <2>3. \A i, j \in DOMAIN channel' : IsData(i)' /\ IsData(j)' => i = j
    BY <1>1, <2>2 DEF PipelineShape, IsData
  <2>4. \A i \in DOMAIN channel' : IsData(i)' => stage' = "recv"
    <3>1. CASE AnswerSync
      BY <1>1, <2>2, <3>1 DEF AnswerSync, PipelineShape, IsData
    <3>2. CASE ReceiveData
      <4>1. IsData(1) /\ 1 \in DOMAIN channel
        BY <2>1, <2>2, <3>2 DEF ReceiveData, IsData
      <4> QED
        BY <1>1, <2>2, <4>1 DEF PipelineShape, IsData
    <3> QED
      BY <1>4, <3>1, <3>2
  <2>5. UNCHANGED <<destroyed, deallocated>>
    BY <1>4 DEF ReceiveData, AnswerSync
  <2> QED
    BY <1>1, <2>3, <2>4, <2>5 DEF PipelineShape
<1>5. CASE StartDrops \/ EndBatch \/ \E d \in Data : FlagDeallocated(d) \/ StartDeallocate(d)
  <2>1. UNCHANGED <<channel, destroyed>> /\ deallocated \subseteq deallocated'
        /\ (stage = "recv" => stage' = "recv")
    BY <1>5 DEF StartDrops, EndBatch, FlagDeallocated, StartDeallocate
  <2> QED
    BY <1>1, <2>1 DEF PipelineShape, IsData
<1> QED
  BY <1>2, <1>3, <1>4, <1>5 DEF Destruction, DropThread

LEMMA DestructionSafe ==
    ASSUME SafeInductive, Destruction
    PROVE  /\ HeapShape' /\ MarkShape' /\ GuardShape' /\ GraphSafe' /\ QueueShape'
           /\ RootsFound' /\ Searched' /\ GarbageShape'
<1>1. /\ UNCHANGED <<access, used, tracked, mark, condemned, sent, excl, phase, number>>
      /\ UNCHANGED <<dataSlots, handleSlots, queue, garbage>>
  BY DestructionFrame DEF Destruction, Deallocate, DestructorClone, collectorVars
<1>2. Dead' = Dead /\ White' = White /\ Doom' = Doom
  BY <1>1 DEF Dead, White, Doom
<1>3. MarkShape' /\ QueueShape'
  <2>1. deallocated \subseteq deallocated'
    BY DEF Destruction, DropThread, ReceiveData, FlagDeallocated, StartDrops, StartDeallocate,
       EndBatch, AnswerSync, Deallocate, EndDeallocate, DestructorClone, dropperVars
  <2> QED
    BY <1>1, <1>2, <2>1 DEF SafeInductive, MarkShape, QueueShape, Stray
<1>4. CASE DropThread /\ UNCHANGED <<mutatorVars, stamp, tracked, mark, collectorVars>>
  <2>1. /\ UNCHANGED <<holder, points, destroyed>> /\ running \subseteq running'
        /\ deallocated \subseteq deallocated'
    BY <1>4 DEF mutatorVars, DropThread, ReceiveData, FlagDeallocated, StartDrops,
       StartDeallocate, EndBatch, AnswerSync
  <2>2. HeapShape'
    BY <1>1, <1>2, <2>1 DEF SafeInductive, HeapShape, InSetup
  <2>3. GuardShape' /\ GraphSafe'
    BY <1>1, <1>2, <2>1 DEF SafeInductive, GuardShape, GraphSafe, Stray, Exists
  <2>4. RootsFound' /\ Searched'
    BY <1>1, <2>1 DEF SafeInductive, RootsFound, Searched, Exists, Safe
  <2>5. GarbageShape'
    BY <1>1, <2>1 DEF SafeInductive, GarbageShape, Exists
  <2> QED
    BY <1>3, <2>2, <2>3, <2>4, <2>5
<1>5. ASSUME NEW d \in Data, NEW panicked \in BOOLEAN, Deallocate(d, panicked)
      PROVE  /\ HeapShape' /\ MarkShape' /\ GuardShape' /\ GraphSafe' /\ QueueShape'
             /\ RootsFound' /\ Searched' /\ GarbageShape'
  <2>1. /\ d \in running /\ running' = running \ {d} /\ destroyed' = destroyed \cup {d}
        /\ deallocated' = deallocated
        /\ \A h \in Inside(d) : access[h] = "none"
        /\ \A h \in Handle : holder[h] = d => holder'[h] = Gone
        /\ \A h \in Handle : holder[h] # d => holder'[h] = holder[h] /\ points'[h] = points[h]
    BY <1>5 DEF Deallocate, EndDeallocate, SafeInductive, Inductive, TypeOK
  <2>2. phase \in {"idle", "sync"} /\ garbage = {}
    BY <2>1, RunningFacts
  <2>3. \A h \in Handle : Exists(h)' => /\ Exists(h) /\ holder[h] # d
                                        /\ holder'[h] = holder[h] /\ points'[h] = points[h]
    BY <2>1 DEF Exists
  <2>4. HeapShape'
    <3>1. \A h \in Handle : access[h] \in Constructing => points'[h] = points[h]
      BY <2>1, ConstantsAssumption DEF SafeInductive, Inductive, HandleShape, ConstantsAssumption
    <3>2. \A e \in Data : InSetup(e) => InSetup(e)'
      BY <1>1, <3>1 DEF InSetup
    <3>3. \A h \in Handle : holder'[h] \in Data => holder'[h] \in used \ (destroyed \cup {d})
      BY <2>1, ConstantsAssumption DEF SafeInductive, HeapShape, ConstantsAssumption
    <3> QED
      BY <1>1, <1>2, <2>1, <3>2, <3>3 DEF SafeInductive, HeapShape
  <2>5. GuardShape'
    BY <1>1, <1>2, <2>1 DEF SafeInductive, GuardShape, Inside
  <2>6. GraphSafe'
    BY <1>1, <1>2, <2>1, <2>3 DEF SafeInductive, GraphSafe, Stray
  <2> QED
    BY <1>1, <1>3, <2>2, <2>4, <2>5, <2>6 DEF RootsFound, Searched, GarbageShape
<1>6. ASSUME NEW h \in Handle, NEW g \in Handle, DestructorClone(h, g)
      PROVE  /\ HeapShape' /\ MarkShape' /\ GuardShape' /\ GraphSafe' /\ QueueShape'
             /\ RootsFound' /\ Searched' /\ GarbageShape'
  <2>1. /\ holder[h] \in running /\ ~Exists(g) /\ UNCHANGED <<running, destroyed, deallocated>>
        /\ holder'[g] = Stack /\ points'[g] = points[h]
        /\ \A k \in Handle : k # g => holder'[k] = holder[k] /\ points'[k] = points[k]
        /\ points[h] \notin deallocated \/ ~NoDeadClones
    BY <1>6 DEF DestructorClone, NewHandle, dropperVars, SafeInductive, Inductive, TypeOK, NoDeadClones
  <2>2. phase \in {"idle", "sync"} /\ garbage = {} /\ sent \subseteq deallocated /\ Doom = sent
    BY <2>1, RunningFacts
  <2>3. \A k \in Handle : access[k] # "none" => k # g
    BY <2>1 DEF SafeInductive, Inductive, HandleShape
  <2>4. HeapShape'
    <3>1. \A e \in Data : InSetup(e) => InSetup(e)'
      BY <1>1, <2>1, <2>3 DEF InSetup, Constructing
    <3>2. \A k \in Handle : holder'[k] \in Data => holder'[k] \in used \ destroyed
      BY <2>1, ConstantsAssumption DEF SafeInductive, HeapShape, ConstantsAssumption
    <3> QED
      BY <1>1, <1>2, <2>1, <3>1, <3>2 DEF SafeInductive, HeapShape
  <2>5. GuardShape'
    BY <1>1, <1>2, <2>1, <2>3 DEF SafeInductive, GuardShape
  <2>6. GraphSafe'
    BY <1>1, <1>2, <2>1, <2>2 DEF SafeInductive, GraphSafe, Stray, Exists
  <2> QED
    BY <1>1, <1>3, <2>2, <2>4, <2>5, <2>6 DEF RootsFound, Searched, GarbageShape
<1> QED
  BY <1>4, <1>5, <1>6 DEF Destruction

-----------------------------------------------------------------------------
(* Steps of the collection.                                                *)

\* What the wait for the drop thread is for: while data is scanned, roots are looked for and
\* the graph is searched, every Gc is outside condemned data.
LEMMA QuietFacts ==
    ASSUME SafeInductive, sync[GcThread] = "answered" \/ phase \in {"scan", "roots", "mark", "retain"}
    PROVE  /\ channel = <<>> /\ stage = "recv" /\ running = {} /\ sent = destroyed
           /\ \A h \in Handle : holder[h] \notin sent
           /\ \A h \in Handle : access[h] \in {"checked", "guard"} => holder[h] = Stack
<1>1. channel = <<>> /\ stage = "recv" /\ running = {} /\ sent \subseteq destroyed
  BY DEF SafeInductive, Inductive, SyncShape, Quiet
<1>2. sent = destroyed /\ sent \subseteq Data
  BY <1>1 DEF SafeInductive, DropperInductive, DropperOnce, DropperTypeOK
<1> QED
  BY <1>1, <1>2 DEF SafeInductive, HeapShape, GuardShape

\* What is doomed is decided when the search ends.
LEMMA DoomDecided ==
    ASSUME SafeInductive, Collection, ~EndMark
    PROVE  Doom' = Doom
<1>1. CASE \/ BeginCollection \/ BeginScan \/ EndScan \/ EndRoots
           \/ \E d \in Data : ScanSlot(d) \/ MarkData(d)
           \/ \E h \in Handle : VisitHandleSlot(h)
  BY <1>1 DEF BeginCollection, BeginScan, EndScan, EndRoots, ScanSlot, MarkData, VisitHandleSlot,
     SendSync, SyncReturns, dropperVars, Doom, Dead
<1>2. ASSUME NEW d \in Data, RetainSlot(d)
      PROVE  Doom' = Doom
  <2>1. phase = "retain" /\ UNCHANGED <<phase, sent, number>>
    BY <1>2 DEF RetainSlot, dropperVars
  <2>2. CASE d \notin tracked /\ UNCHANGED <<mark, tracked, condemned>>
    BY <2>1, <2>2 DEF Doom, Dead, White
  <2>3. CASE RetainData(d)
    <3>1. /\ d \in tracked /\ number \in Nat \ {0}
          /\ mark'[d] = IF mark[d] = 0 THEN number ELSE mark[d]
          /\ \A e \in Data : e # d => mark'[e] = mark[e]
          /\ mark'[d] # number => tracked' = tracked \ {d} /\ condemned' = condemned \cup {d}
          /\ mark'[d] = number => tracked' = tracked /\ condemned' = condemned
      BY <2>3 DEF RetainData, SafeInductive, Inductive, TypeOK
    <3>2. /\ d \in White => White' = White \ {d} /\ Dead' = Dead \cup {d}
          /\ d \notin White => White' = White /\ Dead' = Dead
      BY <2>1, <3>1 DEF White, Dead, SafeInductive, Inductive, TypeOK
    <3> QED
      BY <2>1, <3>2 DEF Doom
  <2> QED
    BY <1>2, <2>2, <2>3 DEF RetainSlot
<1>3. CASE FinishCollection
  <2>1. White = {}
    BY <1>3 DEF FinishCollection, SafeInductive, MarkShape
  <2> QED
    BY <1>3, <2>1 DEF FinishCollection, SendData, Doom, Dead
<1> QED
  BY <1>1, <1>2, <1>3 DEF Collection

\* It spares what is borrowed.
LEMMA CollectionGuards ==
    ASSUME SafeInductive, Collection
    PROVE  GuardShape'
<1>1. UNCHANGED <<holder, points, access, running>>
  BY CollectionHandles DEF Collection, BeginCollection, BeginScan, EndScan, EndRoots, EndMark,
     ScanSlot, MarkData, RetainSlot, VisitHandleSlot, FinishCollection, SendSync, SyncReturns,
     SendData, dropperVars
<1>2. CASE EndMark
  <2>1. /\ phase = "mark" /\ queue = {} /\ phase' = "retain"
        /\ UNCHANGED <<mark, tracked, number, condemned, sent>>
    BY <1>2 DEF EndMark, dropperVars
  <2>2. Doom = Dead /\ Doom' = Dead \cup White
    BY <2>1 DEF Doom, Dead, White
  <2> SUFFICES ASSUME NEW h \in Handle, access[h] \in {"checked", "guard"}
               PROVE  holder[h] \in {Stack} \cup running /\ points[h] \notin Dead \cup White
    BY <1>1, <2>2 DEF GuardShape
  <2>3. /\ holder[h] \in {Stack} \cup running /\ points[h] \notin Dead /\ Exists(h)
        /\ holder[h] = Stack
    BY <2>1, <2>2, QuietFacts DEF SafeInductive, GuardShape, Inductive, HandleShape
  <2>4. holder[h] \notin excl
    BY <2>3, ConstantsAssumption DEF ConstantsAssumption, SafeInductive, Inductive, TypeOK
  <2>5. mark[points[h]] \in {0, number}
    BY <2>1, <2>3, <2>4 DEF SafeInductive, Searched, Safe
  <2> QED
    BY <2>3, <2>5 DEF White
<1>3. CASE ~EndMark
  BY <1>1, <1>3, DoomDecided DEF SafeInductive, GuardShape
<1> QED
  BY <1>2, <1>3

\* Nor does it matter to the graph what the collection does.
LEMMA CollectionHeap ==
    ASSUME SafeInductive, Collection
    PROVE  PipelineShape' /\ HeapShape'
<1>1. /\ UNCHANGED <<holder, points, access, used>>
      /\ (tracked \cup condemned \cup sent)' = tracked \cup condemned \cup sent
  BY CollectionHandles
<1>2. \A d \in Data : InSetup(d)' = InSetup(d)
  BY <1>1 DEF InSetup
<1>3. CASE \/ EndScan \/ EndRoots \/ EndMark
           \/ \E d \in Data : ScanSlot(d) \/ MarkData(d) \/ RetainSlot(d)
           \/ \E h \in Handle : VisitHandleSlot(h)
  <2>1. UNCHANGED dropperVars /\ number' = number /\ phase \in Phase \ {"idle"}
    BY <1>3 DEF EndScan, EndRoots, EndMark, ScanSlot, MarkData, RetainSlot, VisitHandleSlot, Phase
  <2>2. ASSUME NEW e \in Data, e \notin tracked \cup Dead
        PROVE  mark'[e] = 0
    <3>1. mark[e] = 0
      BY <2>2 DEF SafeInductive, HeapShape
    <3>2. mark'[e] = mark[e]
      <4>1. ASSUME NEW d \in Data, ScanSlot(d) \/ RetainSlot(d)
            PROVE  mark'[e] = mark[e]
        BY <2>2, <4>1 DEF ScanSlot, ScanData, RetainSlot, RetainData, SafeInductive, Inductive, TypeOK
      <4>2. ASSUME NEW d \in Data, MarkData(d)
            PROVE  mark'[e] = mark[e]
        BY <3>1, <4>2 DEF MarkData, SafeInductive, Inductive, TypeOK
      <4> QED
        BY <1>3, <4>1, <4>2 DEF EndScan, EndRoots, EndMark, VisitHandleSlot
    <3> QED
      BY <3>1, <3>2
  <2>3. tracked' \cup Dead' = tracked \cup Dead
    BY <1>1 DEF Dead
  <2>4. HeapShape'
    BY <1>1, <1>2, <2>1, <2>2, <2>3 DEF SafeInductive, HeapShape, dropperVars
  <2>5. PipelineShape'
    BY <1>1, <2>1 DEF SafeInductive, PipelineShape, IsData, dropperVars
  <2> QED
    BY <2>4, <2>5
<1>4. CASE BeginCollection \/ BeginScan \/ FinishCollection
  <2>1. /\ UNCHANGED <<mark, running, deallocated, destroyed, stage>>
        /\ number' \in {number, number + 1}
        /\ phase' # "idle" => number' < 2 + MaxCollections
    BY <1>4 DEF BeginCollection, BeginScan, FinishCollection, SendSync, SyncReturns, SendData,
       SafeInductive, HeapShape
  <2>2. HeapShape'
    <3>1. tracked' \cup Dead' = tracked \cup Dead /\ number' >= 2
      BY <1>1, <2>1 DEF Dead, SafeInductive, HeapShape, Inductive, TypeOK
    <3> QED
      BY <1>1, <1>2, <2>1, <3>1 DEF SafeInductive, HeapShape
  <2>3. PipelineShape'
    <3>1. CASE BeginScan
      BY <1>1, <2>1, <3>1 DEF BeginScan, SyncReturns, SafeInductive, PipelineShape, IsData
    <3>2. CASE BeginCollection
      <4>1. /\ channel \in Seq(DropMessage) /\ channel' = Append(channel, SyncUp(GcThread))
            /\ SyncUp(GcThread) \in DropMessage /\ SyncUp(GcThread).kind = "sync" /\ sent' = sent
        BY <3>2, Messages, ConstantsAssumption DEF BeginCollection, SendSync, SafeInductive,
           DropperInductive, DropperTypeOK, ConstantsAssumption
      <4>2. /\ \A i \in DOMAIN channel : i \in DOMAIN channel' /\ channel'[i] = channel[i]
            /\ \A i \in DOMAIN channel' : i \notin DOMAIN channel => i = Len(channel')
            /\ channel'[Len(channel')] = SyncUp(GcThread)
        BY <4>1, ChannelAppend
      <4>3. \A i \in DOMAIN channel' : IsData(i)' => i \in DOMAIN channel /\ IsData(i)
        BY <4>1, <4>2 DEF IsData
      <4> QED
        BY <1>1, <2>1, <4>1, <4>3 DEF SafeInductive, PipelineShape
    <3>3. CASE FinishCollection
      <4>1. channel = <<>> /\ stage = "recv" /\ channel' = Append(channel, DataToDrop(condemned))
        BY <3>3, QuietFacts DEF FinishCollection, SendData
      <4>2. DOMAIN channel' = {1}
        BY <4>1
      <4> QED
        BY <1>1, <2>1, <4>1, <4>2 DEF SafeInductive, PipelineShape
    <3> QED
      BY <1>4, <3>1, <3>2, <3>3
  <2> QED
    BY <2>2, <2>3
<1> QED
  BY <1>3, <1>4 DEF Collection

\* The marks, the queue and the graph: what each step of the collection has to preserve.
Graph == MarkShape /\ GraphSafe /\ QueueShape /\ RootsFound /\ Searched /\ GarbageShape

\* Warrants, marks and the queue are about data.
LEMMA Sorts ==
    ASSUME SafeInductive
    PROVE  /\ excl \subseteq tracked /\ tracked \subseteq used /\ used \subseteq Data /\ queue \subseteq used
           /\ garbage \subseteq Data /\ White \subseteq tracked /\ Stack \notin Data /\ Gone \notin Data
           /\ number \in Nat /\ number >= 2 /\ mark \in [Data -> Nat]
           /\ \A h \in Handle : Exists(h) => holder[h] \in Data \cup {Stack} /\ points[h] \in used
BY ConstantsAssumption DEF ConstantsAssumption, SafeInductive, Inductive, TypeOK, HandleShape, Exists, White

LEMMA BeginGraph ==
    ASSUME SafeInductive, BeginCollection \/ BeginScan
    PROVE  Graph'
<1>1. /\ UNCHANGED <<holder, points, tracked, mark, excl, number, queue, condemned, sent, deallocated>>
      /\ phase \in {"idle", "sync"} /\ phase' \in {"sync", "scan"}
  BY DEF BeginCollection, BeginScan, SendSync, SyncReturns, mutatorVars
<1>2. Doom' = Doom /\ Dead' = Dead
  BY <1>1 DEF Doom, Dead
<1>3. excl = {} /\ condemned = {} /\ queue = {} /\ garbage = {}
  BY <1>1 DEF SafeInductive, Inductive, DataShape, QueueShape, GarbageShape
<1>4. GraphSafe' /\ QueueShape' /\ RootsFound' /\ Searched'
  BY <1>1, <1>2, <1>3 DEF SafeInductive, GraphSafe, Stray, Exists, QueueShape, RootsFound, Searched
<1>5. CASE BeginCollection
  BY <1>1, <1>3, <1>4, <1>5 DEF Graph, BeginCollection, SafeInductive, MarkShape, GarbageShape
<1>6. CASE BeginScan
  <2>1. phase' = "scan" /\ dataSlots' = Data /\ garbage' = tracked \ Reachable /\ sync[GcThread] = "answered"
    BY <1>6 DEF BeginScan, SyncReturns
  <2>2. MarkShape'
    BY <1>1, <1>3, <2>1, Sorts DEF SafeInductive, MarkShape
  <2>3. \A h \in Handle : Exists(h) /\ holder[h] \in Reachable \cup {Stack} => points[h] \in Reachable
    BY Sorts DEF Reachable, Closed
  <2>4. ASSUME NEW h \in Handle, Exists(h), points[h] \in garbage'
        PROVE  holder[h] \in garbage'
    <3>1. holder[h] \in Data /\ holder[h] \notin Reachable
      BY <2>1, <2>3, <2>4, Sorts
    <3>2. holder[h] \in used /\ holder[h] \notin sent
      BY <2>1, <3>1, QuietFacts DEF SafeInductive, HeapShape
    <3>3. ~InSetup(holder[h])
      BY <2>3, <3>1, ConstantsAssumption DEF InSetup, SafeInductive, Inductive, HandleShape, Exists,
         Constructing, ConstantsAssumption
    <3> QED
      BY <1>3, <2>1, <3>1, <3>2, <3>3 DEF SafeInductive, HeapShape, Dead
  <2>5. GarbageShape'
    BY <1>1, <1>3, <2>1, <2>4, Sorts DEF GarbageShape, Exists
  <2> QED
    BY <1>4, <2>2, <2>5 DEF Graph
<1> QED
  BY <1>5, <1>6

LEMMA ScanGraph ==
    ASSUME SafeInductive, NEW d \in Data, ScanSlot(d)
    PROVE  Graph'
<1>1. /\ UNCHANGED <<holder, points, tracked, number, queue, condemned, sent, garbage, phase, deallocated>>
      /\ phase = "scan" /\ d \in dataSlots /\ dataSlots' = dataSlots \ {d}
      /\ \/ ScanData(d)
         \/ d \notin tracked /\ UNCHANGED <<mark, excl>>
  BY DEF ScanSlot, mutatorVars, dropperVars
<1>2. Doom' = Doom /\ Dead' = Dead
  BY <1>1 DEF Doom, Dead
<1>3. GraphSafe' /\ QueueShape' /\ RootsFound' /\ Searched'
  BY <1>1, <1>2 DEF SafeInductive, GraphSafe, Stray, Exists, QueueShape, RootsFound, Searched
<1>4. mark[d] \in Nat /\ mark[d] < number
  BY <1>1, Sorts DEF SafeInductive, MarkShape
<1>5. CASE d \notin tracked /\ UNCHANGED <<mark, excl>>
  BY <1>1, <1>3, <1>5 DEF Graph, SafeInductive, MarkShape, GarbageShape, Exists
<1>6. CASE ScanData(d) /\ Guarded(d)
  <2>1. mark' = [mark EXCEPT ![d] = number] /\ excl' = excl
    BY <1>6 DEF ScanData
  <2>2. MarkShape'
    BY <1>1, <1>4, <2>1, Sorts DEF SafeInductive, MarkShape
  <2>3. d \notin garbage
    BY <1>6, BorrowedFacts DEF Guarded
  <2>4. GarbageShape'
    BY <1>1, <2>1, <2>3, Sorts DEF SafeInductive, GarbageShape, Exists
  <2> QED
    BY <1>3, <2>2, <2>4 DEF Graph
<1>7. CASE ScanData(d) /\ ~Guarded(d)
  <2>1. /\ mark' = [mark EXCEPT ![d] = IF @ = 0 THEN number - 1 ELSE @]
        /\ excl' = excl \cup {d}
    BY <1>7 DEF ScanData
  <2>2. /\ mark'[d] \in Nat \ {0, number} /\ mark'[d] < number
        /\ \A e \in Data : e # d => mark'[e] = mark[e]
    BY <1>4, <2>1, Sorts
  <2>3. MarkShape'
    BY <1>1, <2>1, <2>2, Sorts DEF SafeInductive, MarkShape
  <2>4. GarbageShape'
    BY <1>1, <2>1, <2>2, Sorts DEF SafeInductive, GarbageShape, Exists
  <2> QED
    BY <1>3, <2>3, <2>4 DEF Graph
<1> QED
  BY <1>1, <1>5, <1>6, <1>7

LEMMA RootsGraph ==
    ASSUME SafeInductive, EndScan \/ EndRoots \/ \E h \in Handle : VisitHandleSlot(h)
    PROVE  Graph'
<1>1. UNCHANGED <<holder, points, tracked, number, mark, excl, dataSlots, condemned, sent, garbage,
                  deallocated>>
  BY DEF EndScan, EndRoots, VisitHandleSlot, mutatorVars, dropperVars
<1>2. phase \in {"scan", "roots"} /\ phase' \in {"roots", "mark"}
  BY DEF EndScan, EndRoots, VisitHandleSlot
<1>3. Doom' = Doom /\ Dead' = Dead /\ GraphSafe'
  BY <1>1, <1>2 DEF Doom, Dead, SafeInductive, GraphSafe, Stray, Exists
<1>4. CASE EndScan
  <2>1. phase = "scan" /\ dataSlots = {} /\ phase' = "roots" /\ handleSlots' = Handle /\ queue' = queue
    BY <1>4 DEF EndScan
  <2>2. MarkShape'
    BY <1>1, <2>1 DEF SafeInductive, MarkShape
  <2>3. QueueShape' /\ RootsFound' /\ Searched' /\ GarbageShape'
    BY <1>1, <1>3, <2>1 DEF SafeInductive, QueueShape, Stray, RootsFound, Searched, GarbageShape,
       Exists
  <2> QED
    BY <1>3, <2>2, <2>3 DEF Graph
<1>5. CASE EndRoots
  <2>1. phase = "roots" /\ handleSlots = {} /\ phase' = "mark" /\ queue' = queue
    BY <1>5 DEF EndRoots
  <2>2. MarkShape'
    BY <1>1, <2>1 DEF SafeInductive, MarkShape
  <2>3. \A h \in Handle : Exists(h) /\ (holder[h] \in excl => mark[holder[h]] = number) => Safe(points[h])
    <3>1. \A e \in excl : mark[e] # number
      BY <2>1, Sorts DEF SafeInductive, MarkShape
    <3> QED
      BY <2>1, <3>1 DEF SafeInductive, RootsFound
  <2>4. QueueShape' /\ RootsFound' /\ Searched' /\ GarbageShape'
    BY <1>1, <1>3, <2>1, <2>3 DEF SafeInductive, QueueShape, Stray, RootsFound, Searched,
       GarbageShape, Exists, Safe
  <2> QED
    BY <1>3, <2>2, <2>4 DEF Graph
<1>6. ASSUME NEW h \in Handle, VisitHandleSlot(h)
      PROVE  Graph'
  <2>1. /\ phase = "roots" /\ phase' = phase /\ handleSlots' = handleSlots \ {h}
        /\ \/ queue' = queue /\ ~(Exists(h) /\ stamp[h] # number)
           \/ queue' = queue \cup {points[h]} /\ Exists(h) /\ stamp[h] # number
    BY <1>6 DEF VisitHandleSlot
  <2>2. stamp[h] = number <=> holder[h] \in excl
    BY <2>1 DEF SafeInductive, Inductive, ScannedGraphFrozen
  <2>3. MarkShape'
    BY <1>1, <2>1 DEF SafeInductive, MarkShape
  <2>4. Exists(h) /\ points[h] \in Dead => Stray(points[h])
    BY <2>1, QuietFacts, Sorts DEF SafeInductive, GraphSafe, Doom, Dead, Inductive, DataShape
  <2>5. QueueShape'
    BY <1>1, <1>3, <2>1, <2>4 DEF SafeInductive, QueueShape, Stray
  <2>6. RootsFound'
    BY <1>1, <2>1, <2>2 DEF SafeInductive, RootsFound, Safe, Exists
  <2>7. Searched'
    BY <2>1 DEF Searched
  <2>8. Exists(h) /\ holder[h] \notin excl => points[h] \notin garbage
    BY <2>1 DEF SafeInductive, GarbageShape, Inductive, DataShape
  <2>9. GarbageShape'
    BY <1>1, <2>1, <2>2, <2>8 DEF SafeInductive, GarbageShape, Exists
  <2> QED
    BY <1>3, <2>3, <2>5, <2>6, <2>7, <2>9 DEF Graph
<1> QED
  BY <1>4, <1>5, <1>6

LEMMA MarkGraph ==
    ASSUME SafeInductive, NEW d \in Data, MarkData(d)
    PROVE  Graph'
<1>1. /\ UNCHANGED <<holder, points, tracked, number, excl, dataSlots, condemned, sent, garbage, phase>>
      /\ UNCHANGED deallocated
      /\ phase = "mark" /\ d \in queue
  BY DEF MarkData, mutatorVars, dropperVars
<1>2. Doom' = Doom /\ Dead' = Dead
  BY <1>1 DEF Doom, Dead
<1>3. GraphSafe' /\ RootsFound'
  BY <1>1, <1>2 DEF SafeInductive, GraphSafe, Stray, Exists, RootsFound
<1>4. CASE mark[d] \in {0, number}
  <2>1. queue' = queue \ {d} /\ mark' = mark
    BY <1>4 DEF MarkData
  <2>2. MarkShape' /\ QueueShape' /\ GarbageShape'
    BY <1>1, <1>2, <2>1 DEF SafeInductive, MarkShape, QueueShape, Stray, GarbageShape, Exists
  <2>3. Searched'
    BY <1>1, <1>4, <2>1 DEF SafeInductive, Searched, Safe, Exists
  <2> QED
    BY <1>3, <2>2, <2>3 DEF Graph
<1>5. CASE mark[d] \notin {0, number}
  <2>1. /\ mark' = [mark EXCEPT ![d] = number]
        /\ queue' = (queue \ {d}) \cup {e \in {points[h] : h \in Inside(d)} : mark'[e] # number}
    BY <1>5 DEF MarkData
  <2>2. mark'[d] = number /\ \A e \in Data : e # d => mark'[e] = mark[e]
    BY <2>1, Sorts
  <2>3. MarkShape'
    BY <1>1, <2>2, Sorts DEF SafeInductive, MarkShape
  <2>4. \A h \in Inside(d) : /\ points[h] \in used /\ points[h] \notin garbage
                             /\ points[h] \in Dead => Stray(points[h])
    <3> SUFFICES ASSUME NEW h \in Handle, holder[h] = d
                 PROVE  /\ points[h] \in used /\ points[h] \notin garbage
                        /\ points[h] \in Dead => Stray(points[h])
      BY DEF Inside
    <3>1. Exists(h) /\ d \notin garbage /\ d \notin sent
      BY <1>1, Sorts, QuietFacts DEF Exists, SafeInductive, QueueShape, GarbageShape
    <3>2. d \notin Doom /\ Doom = Dead
      BY <1>1, <3>1 DEF SafeInductive, QueueShape, Stray, Doom
    <3> QED
      BY <3>1, <3>2, Sorts DEF SafeInductive, GraphSafe, GarbageShape
  <2>5. QueueShape'
    BY <1>1, <1>2, <2>1, <2>4 DEF SafeInductive, QueueShape, Stray
  <2>6. Searched'
    <3> SUFFICES ASSUME NEW h \in Handle, Exists(h), holder[h] \in excl => mark'[holder[h]] = number
                 PROVE  mark'[points[h]] \in {0, number} \/ points[h] \in queue'
      BY <1>1 DEF Searched, Exists, Safe
    <3>1. CASE holder[h] = d
      BY <2>1, <3>1 DEF Inside
    <3>2. CASE holder[h] # d
      <4>1. Safe(points[h])
        BY <1>1, <2>2, <3>2, Sorts DEF SafeInductive, Searched
      <4> QED
        BY <2>1, <2>2, <4>1, Sorts DEF Safe
    <3> QED
      BY <3>1, <3>2
  <2>7. GarbageShape'
    <3>1. d \notin garbage /\ garbage \cap queue' = {}
      BY <1>1, <2>1, <2>4 DEF SafeInductive, GarbageShape
    <3> QED
      BY <1>1, <2>2, <3>1, Sorts DEF SafeInductive, GarbageShape, Exists
  <2> QED
    BY <1>3, <2>3, <2>5, <2>6, <2>7 DEF Graph
<1> QED
  BY <1>4, <1>5

LEMMA EndMarkGraph ==
    ASSUME SafeInductive, EndMark
    PROVE  Graph'
<1>1. /\ UNCHANGED <<holder, points, tracked, number, mark, queue, condemned, sent, garbage, deallocated>>
      /\ phase = "mark" /\ queue = {} /\ phase' = "retain" /\ excl' = {} /\ dataSlots' = Data
  BY DEF EndMark, mutatorVars, dropperVars
<1>2. Dead' = Dead /\ White' = White /\ Doom = Dead /\ Doom' = Dead \cup White
  BY <1>1 DEF Doom, Dead, White
<1>3. MarkShape'
  BY <1>1, <1>2, Sorts DEF SafeInductive, MarkShape
<1>4. ASSUME NEW h \in Handle, Exists(h), holder[h] \notin Dead \cup White
      PROVE  points[h] \in Dead \cup White => Stray(points[h])
  <2>1. points[h] \in Dead => Stray(points[h])
    BY <1>2, <1>4 DEF SafeInductive, GraphSafe
  <2>2. holder[h] \in excl => mark[holder[h]] = number
    BY <1>4, Sorts DEF White, SafeInductive, MarkShape
  <2>3. mark[points[h]] \in {0, number}
    BY <1>1, <1>4, <2>2 DEF SafeInductive, Searched, Safe
  <2> QED
    BY <2>1, <2>3 DEF White
<1>5. GraphSafe'
  BY <1>1, <1>2, <1>4 DEF GraphSafe, Stray, Exists
<1>6. QueueShape' /\ RootsFound' /\ Searched' /\ GarbageShape'
  BY <1>1, <1>2, Sorts DEF SafeInductive, QueueShape, RootsFound, Searched, GarbageShape, Exists
<1> QED
  BY <1>3, <1>5, <1>6 DEF Graph

LEMMA RetainGraph ==
    ASSUME SafeInductive, NEW d \in Data, RetainSlot(d)
    PROVE  Graph'
<1>1. /\ UNCHANGED <<holder, points, number, excl, queue, sent, garbage, phase, deallocated>>
      /\ phase = "retain" /\ d \in dataSlots /\ dataSlots' = dataSlots \ {d}
      /\ \/ RetainData(d)
         \/ d \notin tracked /\ UNCHANGED <<mark, tracked, condemned>>
  BY DEF RetainSlot, mutatorVars, dropperVars
<1>2. excl = {} /\ queue = {}
  BY <1>1 DEF SafeInductive, Inductive, DataShape, QueueShape
<1>3. Doom' = Doom
  BY <1>1, DoomDecided DEF Collection, EndMark
<1>4. CASE d \notin tracked /\ UNCHANGED <<mark, tracked, condemned>>
  <2>1. Dead' = Dead /\ White' = White
    BY <1>1, <1>4 DEF Dead, White
  <2>2. MarkShape'
    BY <1>1, <1>2, <1>4, <2>1, Sorts DEF SafeInductive, MarkShape
  <2> QED
    BY <1>1, <1>2, <1>3, <1>4, <2>1, <2>2, Sorts DEF Graph, SafeInductive, GraphSafe, Stray,
       QueueShape, RootsFound, Searched, GarbageShape, Exists
<1>5. CASE RetainData(d)
  <2>1. /\ d \in tracked
        /\ mark'[d] = IF mark[d] = 0 THEN number ELSE mark[d]
        /\ \A e \in Data : e # d => mark'[e] = mark[e]
        /\ mark'[d] # number => tracked' = tracked \ {d} /\ condemned' = condemned \cup {d}
        /\ mark'[d] = number => tracked' = tracked /\ condemned' = condemned
    BY <1>5, Sorts DEF RetainData
  <2>2. /\ d \in White => White' = White \ {d} /\ Dead' = Dead \cup {d}
        /\ d \notin White => White' = White /\ Dead' = Dead
    BY <1>1, <2>1, Sorts DEF White, Dead
  <2>3. MarkShape'
    BY <1>1, <1>2, <2>1, <2>2, Sorts DEF SafeInductive, MarkShape
  <2>4. GraphSafe' /\ QueueShape' /\ RootsFound' /\ Searched'
    BY <1>1, <1>2, <1>3 DEF SafeInductive, GraphSafe, Stray, QueueShape, RootsFound, Searched, Exists
  <2>5. GarbageShape'
    BY <1>1, <1>2, <2>1, Sorts DEF SafeInductive, GarbageShape, Exists
  <2> QED
    BY <2>3, <2>4, <2>5 DEF Graph
<1> QED
  BY <1>1, <1>4, <1>5

LEMMA FinishGraph ==
    ASSUME SafeInductive, FinishCollection
    PROVE  Graph'
<1>1. /\ UNCHANGED <<holder, points, tracked, mark, excl, queue, deallocated>>
      /\ phase = "retain" /\ dataSlots = {} /\ phase' = "idle" /\ number' = number + 1
      /\ sent' = sent \cup condemned /\ condemned' = {} /\ garbage' = {}
  BY DEF FinishCollection, SendData, mutatorVars
<1>2. White = {} /\ excl = {} /\ queue = {}
  BY <1>1 DEF SafeInductive, MarkShape, Inductive, DataShape, QueueShape
<1>3. Dead' = Dead /\ Doom' = Doom
  BY <1>1, <1>2 DEF Doom, Dead
<1>4. MarkShape'
  BY <1>1, <1>2, Sorts DEF SafeInductive, MarkShape
<1> QED
  BY <1>1, <1>2, <1>3, <1>4 DEF Graph, SafeInductive, GraphSafe, Stray, QueueShape, RootsFound,
     Searched, GarbageShape, Exists

-----------------------------------------------------------------------------
(* The theorems.                                                           *)

LEMMA InitSafe == Init => SafeInductive
<1> SUFFICES ASSUME Init PROVE SafeInductive
  OBVIOUS
<1> USE ConstantsAssumption DEF ConstantsAssumption
<1>1. Inductive /\ DropperInductive
  BY InitInductive, DropperInitInductive DEF Init
<1>2. PipelineShape /\ HeapShape /\ GuardShape
  BY DEF Init, DropperInit, PipelineShape, HeapShape, GuardShape
<1>3. MarkShape /\ GraphSafe /\ QueueShape
  BY DEF Init, MarkShape, GraphSafe, QueueShape, Exists
<1>4. RootsFound /\ Searched /\ GarbageShape
  BY DEF Init, RootsFound, Searched, GarbageShape, Exists
<1> QED
  BY <1>1, <1>2, <1>3, <1>4 DEF SafeInductive

LEMMA StepSafe ==
    ASSUME SafeInductive, ClonesOrDrops, [Next]_vars, Inductive'
    PROVE  SafeInductive'
<1>1. DropperInductive'
  BY StepDropper DEF SafeInductive
<1>2. CASE Mutator
  BY <1>1, <1>2, MutatorShapes, MutatorGraphShapes DEF SafeInductive
<1>3. CASE Destruction
  BY <1>1, <1>3, DestructionPipeline, DestructionSafe DEF SafeInductive
<1>4. CASE Collection
  <2>1. Graph'
    BY <1>4, BeginGraph, ScanGraph, RootsGraph, MarkGraph, EndMarkGraph, RetainGraph, FinishGraph
       DEF Collection
  <2> QED
    BY <1>1, <1>4, <2>1, CollectionHeap, CollectionGuards DEF SafeInductive, Graph
<1>5. CASE UNCHANGED vars
  BY <1>1, <1>5 DEF SafeInductive, vars, mutatorVars, collectorVars, dropperVars, PipelineShape,
     HeapShape, MarkShape, GuardShape, GraphSafe, QueueShape, RootsFound, Searched, GarbageShape,
     Stray, IsData, InSetup, White, Doom, Dead, Exists, Safe
<1> QED
  BY <1>2, <1>3, <1>4, <1>5 DEF Next

\* The strengthening holds of every program that in one collection clones or drops, not both,
\* whatever its destructors clone.
THEOREM CollectorIsSafe == ASSUME ClonesOrDrops PROVE Spec => []SafeInductive
<1>1. Init => SafeInductive
  BY InitSafe
<1>2. SafeInductive /\ [Next]_vars /\ Inductive' => SafeInductive'
  BY StepSafe
<1> QED
  BY <1>1, <1>2, CollectorInductive, PTL DEF Spec

\* The collector's promise: what a program can still get at through the Gcs on its stacks is
\* neither condemned nor dropped, if no collection meets both a clone and a drop, and destructors
\* clone no Gc to data that is being destroyed.
THEOREM CollectorSafety == ASSUME ClonesOrDrops, NoDeadClones PROVE Spec => []NoLiveDataReclaimed
<1>1. ASSUME SafeInductive
      PROVE  NoLiveDataReclaimed
  <2>1. Closed(Data \ Doom)
    <3> SUFFICES ASSUME NEW h \in Handle, holder[h] \in (Data \ Doom) \cup {Stack}
                 PROVE  points[h] \in Data \ Doom
      BY DEF Closed
    <3>1. Stack \notin Doom
      BY <1>1, OpenFacts DEF Open
    <3>2. Exists(h)
      BY ConstantsAssumption DEF Exists, ConstantsAssumption
    <3> QED
      BY <1>1, <3>1, <3>2, Sorts DEF SafeInductive, GraphSafe, Stray
  <2>2. \A d \in Reachable : d \notin Doom
    BY <2>1 DEF Reachable
  <2>3. Reclaimed \subseteq Dead
    BY <1>1 DEF Reclaimed, SafeInductive, HeapShape
  <2> QED
    BY <2>2, <2>3 DEF NoLiveDataReclaimed, Doom
<1> QED
  BY <1>1, CollectorIsSafe, PTL

\* No guard is on data whose destructor has started, although Gc::get looks at the flag once
\* and before it has the warrant, and although destructors may clone Gcs to the dead; if no
\* collection meets both a clone and a drop (ClonesOrDrops).
THEOREM CollectorGuards == ASSUME ClonesOrDrops PROVE Spec => []GuardedDataAlive
<1>1. ASSUME SafeInductive
      PROVE  GuardedDataAlive
  <2>1. running \subseteq sent /\ destroyed \subseteq sent
    BY <1>1 DEF SafeInductive, DropperInductive, DropperTypeOK, DropperOnce
  <2> QED
    BY <1>1, <2>1, BorrowedFacts DEF GuardedDataAlive, Doom, Dead
<1> QED
  BY <1>1, CollectorIsSafe, PTL

\* The search scans only data the collection holds the exclusive warrant of, if no collection
\* meets both a clone and a drop (ClonesOrDrops), and destructors clone no Gc to data that is
\* being destroyed (NoDeadClones).
THEOREM CollectorScansWarranted == ASSUME ClonesOrDrops, NoDeadClones PROVE Spec => []OnlyWarrantedDataScanned
<1>1. SafeInductive => OnlyWarrantedDataScanned
  BY DEF SafeInductive, Inductive, TypeOK, HeapShape, MarkShape, QueueShape, Stray,
     OnlyWarrantedDataScanned
<1> QED
  BY <1>1, CollectorIsSafe, PTL

\* What was garbage when the scan began, the destructors of earlier batches being through, is
\* not in the list when the collection ends, whatever they cloned before; if no collection
\* meets both a clone and a drop (ClonesOrDrops).
THEOREM CollectorReclaims == ASSUME ClonesOrDrops PROVE Spec => []GarbageReclaimed
<1>1. SafeInductive => GarbageReclaimed
  BY DEF SafeInductive, GarbageShape, GarbageReclaimed
<1> QED
  BY <1>1, CollectorIsSafe, PTL

-----------------------------------------------------------------------------
(* The refinement of AbstractGc.                                           *)

\* What a stack Gc or a Gc inside data awaiting destruction points to, programs may get at;
\* what a guard is on is such data.
LEMMA AccessibleFacts ==
    ASSUME SafeInductive
    PROVE  /\ \A h \in Handle : Exists(h) /\ holder[h] \in {Stack} \cup sent => points[h] \in Promise!Accessible
           /\ \A h \in Handle : access[h] = "guard" => points[h] \in Promise!Accessible
           /\ \A h \in Handle : Loose(h) => holder[h] \in Promise!Accessible \cup {Stack}
<1>1. \A h \in Handle : Exists(h) /\ holder[h] \in {Stack} \cup sent => points[h] \in Promise!Accessible
  BY Sorts DEF Promise!Accessible, Promise!Closed
<1>2. running \subseteq sent
  BY DEF SafeInductive, DropperInductive, DropperTypeOK, DropperOnce
<1>3. \A h \in Handle : access[h] = "guard" => points[h] \in Promise!Accessible
  BY <1>1, <1>2 DEF SafeInductive, GuardShape, Inductive, HandleShape
<1> QED
  BY <1>1, <1>3 DEF Loose, Guarded

LEMMA MutatorPromise ==
    ASSUME SafeInductive, NoDeadClones, Mutator
    PROVE  Promise!AbstractNext \/ UNCHANGED Promise!abstractVars
<1> DEFINE Goal == Promise!AbstractNext \/ UNCHANGED Promise!abstractVars
<1>1. TypeOK /\ HandleShape
  BY DEF SafeInductive, Inductive
<1>2. sent' = sent
  BY MutatorUnchanged
<1> USE ConstantsAssumption DEF ConstantsAssumption
<1>3. ASSUME NEW h \in Handle, NEW d \in Data, NEW S \in SUBSET Handle, SetupGcReference(h, d, S)
      PROVE  Goal
  <2>1. Promise!AllocateWith(h, d, S)
    BY <1>1, <1>2, <1>3 DEF SetupGcReference, NewHandle, Unborrowed, Exists, Promise!AllocateWith,
       Promise!Fresh
  <2> QED
    BY <2>1 DEF Promise!AbstractNext
<1>4. ASSUME NEW h \in Handle, NEW g \in Handle, NEW d \in Data, BeginCyclic(h, g, d)
      PROVE  Goal
  <2>1. /\ holder' = [k \in Handle |-> IF k \in {h, g} THEN Stack ELSE holder[k]]
        /\ points' = [k \in Handle |-> IF k \in {h, g} THEN d ELSE points[k]]
    BY <1>1, <1>4 DEF BeginCyclic, TypeOK
  <2>2. Promise!Allocate({h, g}, d)
    BY <1>2, <1>4, <2>1 DEF BeginCyclic, Exists, Promise!Allocate, Promise!Fresh
  <2> QED
    BY <2>2 DEF Promise!AbstractNext
<1>5. ASSUME NEW h \in Handle, NEW S \in SUBSET Handle, ClosureReturns(h, S)
      PROVE  Goal
  <2>1. CASE S = {}
    <3>1. holder' = holder
      BY <1>1, <1>5, <2>1 DEF ClosureReturns, TypeOK
    <3> QED
      BY <1>2, <1>5, <3>1 DEF ClosureReturns, Promise!abstractVars
  <2>2. CASE S # {}
    <3>1. points[h] \in Promise!Accessible
      BY <1>1, <1>5, AccessibleFacts DEF ClosureReturns, HandleShape, Exists, Constructing
    <3>2. Promise!Move(S, Stack, points[h])
      BY <1>2, <1>5, <2>2, <3>1 DEF ClosureReturns, Unborrowed, Promise!Move
    <3>3. points[h] \in Data
      BY <3>1 DEF Promise!Accessible
    <3> QED
      BY <3>2, <3>3 DEF Promise!AbstractNext
  <2> QED
    BY <2>1, <2>2
<1>6. ASSUME NEW h \in Handle, NEW g \in Handle, Clone(h, g)
      PROVE  Goal
  <2>1. Loose(h)
    BY <1>1, <1>6 DEF Clone, Visible, Loose, Exists
  <2>2. holder[h] \in Promise!Accessible \cup {Stack} \cup sent
    BY <2>1, AccessibleFacts
  <2>3. points[h] \notin sent
    BY <2>1, LooseFacts DEF Doom, Dead, Stray
  <2>4. Promise!CloneGc(h, g)
    BY <1>2, <1>6, <2>2, <2>3 DEF Clone, NewHandle, Exists, Promise!CloneGc, Promise!Fresh
  <2> QED
    BY <2>4 DEF Promise!AbstractNext
<1>7. ASSUME NEW h \in Handle, NEW g \in Handle, MoveIn(h, g) \/ MoveOut(h, g)
      PROVE  Goal
  <2>1. points[g] \in Promise!Accessible
    BY <1>7, AccessibleFacts DEF MoveIn, MoveOut
  <2>2. points[g] \in Data
    BY <2>1 DEF Promise!Accessible
  <2>3. CASE MoveIn(h, g)
    <3>1. holder' = [k \in Handle |-> IF k \in {h} THEN points[g] ELSE holder[k]]
      BY <1>1, <2>3 DEF MoveIn, TypeOK
    <3>2. Promise!Move({h}, Stack, points[g])
      BY <1>2, <2>1, <2>3, <3>1 DEF MoveIn, Unborrowed, Promise!Move
    <3> QED
      BY <2>2, <3>2 DEF Promise!AbstractNext
  <2>4. CASE MoveOut(h, g)
    <3>1. holder' = [k \in Handle |-> IF k \in {h} THEN Stack ELSE holder[k]]
      BY <1>1, <2>4 DEF MoveOut, TypeOK
    <3>2. Promise!Move({h}, points[g], Stack)
      BY <1>2, <2>1, <2>4, <3>1 DEF MoveOut, Promise!Move
    <3> QED
      BY <2>2, <3>2 DEF Promise!AbstractNext
  <2> QED
    BY <1>7, <2>3, <2>4
<1>8. ASSUME NEW h \in Handle, DropHandle(h)
      PROVE  Goal
  <2>1. Promise!DropGc(h)
    BY <1>2, <1>8 DEF DropHandle, Unborrowed, Promise!DropGc
  <2> QED
    BY <2>1 DEF Promise!AbstractNext
<1>9. ASSUME NEW h \in Handle, \/ TrackFromToken(h) \/ WriteValue(h)
                               \/ CheckDeallocated(h) \/ GetWarrant(h) \/ ReleaseGuard(h)
      PROVE  Goal
  BY <1>2, <1>9 DEF TrackFromToken, WriteValue, CheckDeallocated, GetWarrant, ReleaseGuard,
     Promise!abstractVars
<1> HIDE DEF Goal
<1>10. Goal
  BY <1>3, <1>4, <1>5, <1>6, <1>7, <1>8, <1>9 DEF Mutator
<1> QED
  BY <1>10 DEF Goal

LEMMA DestructionPromise ==
    ASSUME SafeInductive, NoDeadClones, Destruction
    PROVE  Promise!AbstractNext \/ UNCHANGED Promise!abstractVars
<1>1. UNCHANGED <<used, sent>>
  BY DestructionFrame
<1>2. CASE DropThread /\ UNCHANGED <<mutatorVars, stamp, tracked, mark, collectorVars>>
  BY <1>1, <1>2 DEF mutatorVars, Promise!abstractVars
<1>3. ASSUME NEW d \in Data, NEW panicked \in BOOLEAN, Deallocate(d, panicked)
      PROVE  Promise!AbstractNext
  <2>1. d \in sent
    BY <1>3 DEF Deallocate, EndDeallocate, SafeInductive, DropperInductive, DropperTypeOK, DropperOnce
  <2>2. Promise!Destroy(d)
    BY <1>1, <1>3, <2>1 DEF Deallocate, Promise!Destroy
  <2> QED
    BY <2>2 DEF Promise!AbstractNext
<1>4. ASSUME NEW h \in Handle, NEW g \in Handle, DestructorClone(h, g)
      PROVE  Promise!AbstractNext
  <2>1. running \subseteq sent /\ holder[h] \in running /\ points[h] \notin deallocated
    BY <1>4 DEF DestructorClone, NoDeadClones, SafeInductive, DropperInductive, DropperTypeOK,
       DropperOnce
  <2>2. points[h] \notin sent
    BY <2>1, RunningFacts
  <2>3. Promise!CloneGc(h, g)
    BY <1>1, <1>4, <2>1, <2>2 DEF DestructorClone, NewHandle, Exists, Promise!CloneGc, Promise!Fresh
  <2> QED
    BY <2>3 DEF Promise!AbstractNext
<1> QED
  BY <1>2, <1>3, <1>4 DEF Destruction

LEMMA CollectionPromise ==
    ASSUME SafeInductive, NoDeadClones, Collection
    PROVE  Promise!AbstractNext \/ UNCHANGED Promise!abstractVars
<1>1. UNCHANGED <<holder, points, used>>
  BY CollectionHandles
<1>2. CASE FinishCollection
  <2>1. sent' = sent \cup condemned /\ White = {} /\ Doom = sent \cup condemned
    BY <1>2 DEF FinishCollection, SendData, Doom, Dead, SafeInductive, MarkShape
  <2>2. CASE condemned = {}
    BY <1>1, <2>1, <2>2 DEF Promise!abstractVars
  <2>3. CASE condemned # {}
    <3>1. condemned \subseteq used \ sent /\ condemned \subseteq Data
      BY DEF SafeInductive, Inductive, TypeOK, DataShape
    <3>2. \A h \in Handle : holder[h] \notin sent
      BY <1>2, QuietFacts DEF FinishCollection
    <3>3. Promise!Closed(Data \ condemned)
      <4> SUFFICES ASSUME NEW h \in Handle, holder[h] \in (Data \ condemned) \cup {Stack}
                   PROVE  points[h] \in Data \ condemned
        BY <3>2 DEF Promise!Closed
      <4>1. Stack \notin Doom /\ Exists(h)
        BY OpenFacts, ConstantsAssumption DEF Open, Exists, ConstantsAssumption
      <4>2. holder[h] \notin Doom
        BY <2>1, <3>2, <4>1
      <4> QED
        BY <2>1, <4>1, <4>2, Sorts DEF SafeInductive, GraphSafe, Stray
    <3>4. condemned \cap Promise!Accessible = {}
      BY <3>3 DEF Promise!Accessible
    <3>5. Promise!Reclaim(condemned)
      BY <1>1, <2>1, <2>3, <3>1, <3>4 DEF Promise!Reclaim
    <3> QED
      BY <3>1, <3>5 DEF Promise!AbstractNext
  <2> QED
    BY <2>2, <2>3
<1>3. CASE \/ BeginCollection \/ BeginScan \/ EndScan \/ EndRoots \/ EndMark
           \/ \E d \in Data : ScanSlot(d) \/ MarkData(d) \/ RetainSlot(d)
           \/ \E h \in Handle : VisitHandleSlot(h)
  <2>1. sent' = sent
    BY <1>3 DEF BeginCollection, BeginScan, EndScan, EndRoots, EndMark, ScanSlot, MarkData,
       RetainSlot, VisitHandleSlot, SendSync, SyncReturns, dropperVars
  <2> QED
    BY <1>1, <2>1 DEF Promise!abstractVars
<1> QED
  BY <1>2, <1>3 DEF Collection

\* The collector implements what a collector promises, under the same conditions as its safety.
THEOREM CollectorRefinement == ASSUME ClonesOrDrops, NoDeadClones PROVE Spec => ImplementsPromise
<1>1. Init => Promise!AbstractInit
  BY DEF Init, DropperInit, Promise!AbstractInit
<1>2. SafeInductive /\ [Next]_vars => [Promise!AbstractNext]_Promise!abstractVars
  <2> SUFFICES ASSUME SafeInductive, [Next]_vars
               PROVE  Promise!AbstractNext \/ UNCHANGED Promise!abstractVars
    OBVIOUS
  <2>1. CASE UNCHANGED vars
    BY <2>1 DEF vars, mutatorVars, dropperVars, Promise!abstractVars
  <2> QED
    BY <2>1, MutatorPromise, DestructionPromise, CollectionPromise DEF Next
<1> QED
  BY <1>1, <1>2, CollectorIsSafe, PTL DEF Spec, ImplementsPromise, Promise!AbstractSpec

-----------------------------------------------------------------------------
(* The trigger's baseline.                                                 *)

\* Outside a collection the data list only grows, so that the difference the trigger computes
\* from the baseline, its length at the end of the last collection, does not wrap.
THEOREM CollectorBaseline == Spec => []CountNotBelowBaseline
<1>1. Init => CountNotBelowBaseline
  BY FS_EmptySet DEF Init, CountNotBelowBaseline
<1>2. Inductive /\ CountNotBelowBaseline /\ [Next]_vars => CountNotBelowBaseline'
  <2> SUFFICES ASSUME Inductive, CountNotBelowBaseline, [Next]_vars, phase' = "idle"
               PROVE  baseline' <= Cardinality(tracked')
    BY DEF CountNotBelowBaseline
  <2>1. TypeOK /\ IsFiniteSet(Data)
    BY ConstantsAssumption DEF Inductive, ConstantsAssumption
  <2>2. CASE FinishCollection
    <3>1. IsFiniteSet(tracked) /\ Cardinality(tracked) \in Nat
      BY <2>1, FS_Subset, FS_CardinalityType DEF TypeOK
    <3> QED
      BY <2>2, <3>1 DEF FinishCollection
  <2>3. CASE ~FinishCollection
    <3>1. phase = "idle" /\ baseline' = baseline /\ tracked \subseteq tracked'
      <4>1. CASE Mutator
        BY <4>1 DEF Mutator, SetupGcReference, TrackFromToken, BeginCyclic, ClosureReturns,
           WriteValue, Clone, DropHandle, CheckDeallocated, GetWarrant, ReleaseGuard, MoveIn,
           MoveOut, collectorVars
      <4>2. CASE Destruction
        BY <4>2, DestructionFrame DEF Destruction, Deallocate, DestructorClone, collectorVars
      <4>3. CASE Collection
        BY <2>3, <4>3 DEF Collection, BeginCollection, BeginScan, EndScan, EndRoots, EndMark,
           ScanSlot, MarkData, RetainSlot, VisitHandleSlot
      <4> QED
        BY <4>1, <4>2, <4>3 DEF Next, vars, collectorVars
    <3>2. tracked' \subseteq Data
      <4>1. TypeOK'
        BY MutatorType, DestructionType, CollectionType, StutterInductive DEF Next, Inductive
      <4> QED
        BY <4>1 DEF TypeOK
    <3>3. IsFiniteSet(tracked') /\ IsFiniteSet(tracked)
      BY <2>1, <3>1, <3>2, FS_Subset
    <3>4. /\ Cardinality(tracked) <= Cardinality(tracked')
          /\ Cardinality(tracked) \in Nat /\ Cardinality(tracked') \in Nat /\ baseline \in Nat
      BY <2>1, <3>1, <3>3, FS_Subset, FS_CardinalityType DEF TypeOK
    <3> QED
      BY <3>1, <3>4 DEF CountNotBelowBaseline
  <2> QED
    BY <2>2, <2>3
<1> QED
  BY <1>1, <1>2, CollectorInductive, PTL DEF Spec

=============================================================================
