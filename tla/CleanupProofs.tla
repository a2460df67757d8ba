---------------------------- MODULE CleanupProofs ----------------------------
(* Proofs about Cleanup, for every set of threads and data and every setting of the     *)
(* trigger, whatever the closures do and whatever destructors panic.                    *)
EXTENDS Cleanup, DropperProofs, FiniteSetTheorems

Others(t) == \A u \in Client \ {t} : pc'[u] = pc[u]

LEMMA Step ==
    ASSUME TypeOK, NEW t \in Client, NEW from, NEW to, Goto(t, from, to)
    PROVE  pc[t] = from /\ pc'[t] = to /\ Others(t)
BY DEF Goto, TypeOK, Others

LEMMA Clients == User \subseteq Client /\ Async \in Client \ User /\ NoThread \notin Client
BY CleanupAssumption DEF CleanupAssumption, User

LEMMA Counts == ASSUME TypeOK PROVE Cardinality(tracked) \in Nat
BY CleanupAssumption, FS_Subset, FS_CardinalityType DEF CleanupAssumption, TypeOK

LEMMA CleanupInit == Init => CleanupInductive
<1> SUFFICES ASSUME Init PROVE CleanupInductive
  OBVIOUS
<1>1. DropperInductive /\ channel = <<>> /\ sent = {} /\ destroyed = {}
  BY DropperInitInductive DEF Init, DropperInit
<1>2. TypeOK
  BY <1>1, TriggerAssumption DEF TriggerAssumption, Init, TriggerInit, TypeOK, TriggerTypeOK,
     DropperInductive, Garbage
<1>3. LockShape /\ DataShape /\ SyncShape
  <2>1. UNION {mine[u] : u \in User} = {}
    BY DEF Init
  <2> QED
    BY <1>1, <2>1, Clients DEF Init, DropperInit, LockShape, DataShape, SyncShape
<1>4. CleanupCovers /\ SyncBehind /\ CleanupRunsDestructors
  BY <1>1, Clients DEF Init, CleanupCovers, SyncBehind, CleanupRunsDestructors
<1> QED
  BY <1>1, <1>2, <1>3, <1>4 DEF CleanupInductive

-----------------------------------------------------------------------------
(* The SyncUp of a cleanup stays behind what its thread has lost.          *)

\* The channel is left alone.
LEMMA SyncBehindKept ==
    ASSUME SyncBehind, UNCHANGED channel, batch \cup destroyed \subseteq (batch \cup destroyed)',
           \A u \in User : pc'[u] = "waiting" => pc[u] = "waiting" /\ Lost(u)' \subseteq Lost(u)
    PROVE  SyncBehind'
BY DEF SyncBehind, IsSync, IsData

\* A message is sent.
LEMMA SyncBehindAppended ==
    ASSUME CleanupInductive, NEW m \in DropMessage, channel' = Append(channel, m),
           UNCHANGED <<batch, destroyed>>,
           \A u \in User : pc'[u] = "waiting" =>
               /\ Lost(u)' \subseteq Lost(u)
               /\ \/ pc[u] = "waiting" /\ (m.kind = "sync" => m.from # u)
                  \/ sync[u] = "none" /\ Lost(u) \subseteq sent
    PROVE  SyncBehind'
<1>1. channel \in Seq(DropMessage)
  BY DEF CleanupInductive, TypeOK, DropperTypeOK
<1> SUFFICES ASSUME NEW i \in DOMAIN channel', IsSync(i)', channel'[i].from \in User,
                    pc'[channel'[i].from] = "waiting", NEW d \in mine'[channel'[i].from] \ held'
             PROVE  \/ d \in batch' \cup destroyed'
                    \/ \E j \in 1 .. i - 1 : IsData(j)' /\ d \in channel'[j].items
  BY DEF SyncBehind, Lost, IsSync, IsData
<1> DEFINE u == channel'[i].from
<1>2. \A j \in DOMAIN channel : IsData(j) => IsData(j)' /\ channel'[j].items = channel[j].items
  BY <1>1, ChannelAppend DEF IsData
<1>3. CASE i \in DOMAIN channel
  <2>1. IsSync(i) /\ channel[i].from = u
    BY <1>1, <1>3, ChannelAppend DEF IsSync
  <2>2. sync[u] = "waiting"
    BY <1>3, <2>1 DEF CleanupInductive, DropperInductive, SyncsOnce
  <2>3. pc[u] = "waiting" /\ d \in Lost(u)
    BY <2>2 DEF Lost
  <2>4. \/ d \in batch \cup destroyed
        \/ \E j \in 1 .. i - 1 : IsData(j) /\ d \in channel[j].items
    BY <1>3, <2>1, <2>3 DEF CleanupInductive, SyncBehind
  <2>5. \A j \in 1 .. i - 1 : j \in DOMAIN channel
    BY <1>1, <1>3
  <2> QED
    BY <1>2, <2>4, <2>5
<1>4. CASE i \notin DOMAIN channel
  <2>1. i = Len(channel) + 1 /\ channel'[i] = m /\ DOMAIN channel = 1 .. i - 1
    BY <1>1, <1>4, ChannelAppend
  <2>2. d \in sent
    BY <2>1 DEF IsSync, Lost
  <2>3. d \in batch \cup destroyed \/ InChannel(d)
    BY <2>2 DEF CleanupInductive, DropperInductive, DropperShape
  <2> QED
    BY <1>2, <2>1, <2>3 DEF InChannel
<1> QED
  BY <1>3, <1>4

\* The drop thread takes a message.
LEMMA SyncBehindTaken ==
    ASSUME CleanupInductive, UNCHANGED cleanupVars, ReceiveData \/ AnswerSync
    PROVE  SyncBehind'
<1>1. /\ channel \in Seq(DropMessage) /\ channel # <<>> /\ channel' = Tail(channel)
      /\ stage = "recv" /\ UNCHANGED <<pc, mine, held, destroyed>>
  BY DEF ReceiveData, AnswerSync, CleanupInductive, TypeOK, DropperTypeOK, cleanupVars, listVars
<1>2. batch = {} /\ destroyed' = destroyed
  BY <1>1 DEF CleanupInductive, DropperInductive, DropperShape
<1>3. \/ IsData(1) /\ ~IsSync(1) /\ batch' = channel[1].items
      \/ IsSync(1) /\ ~IsData(1) /\ batch' = batch
  BY <1>1, ChannelTail DEF ReceiveData, AnswerSync, IsData, IsSync
<1> SUFFICES ASSUME NEW i \in DOMAIN channel', IsSync(i)', channel'[i].from \in User,
                    pc'[channel'[i].from] = "waiting", NEW d \in mine'[channel'[i].from] \ held'
             PROVE  \/ d \in batch' \cup destroyed'
                    \/ \E j \in 1 .. i - 1 : IsData(j)' /\ d \in channel'[j].items
  BY DEF SyncBehind, Lost, IsSync, IsData
<1>4. /\ i \in Nat \ {0} /\ i + 1 \in DOMAIN channel /\ channel'[i] = channel[i + 1]
      /\ IsSync(i + 1) /\ d \in Lost(channel[i + 1].from)
  BY <1>1, ChannelTail DEF IsSync, Lost
<1>5. \/ d \in destroyed
      \/ \E j \in 1 .. (i + 1) - 1 : IsData(j) /\ d \in channel[j].items
  BY <1>1, <1>2, <1>4 DEF CleanupInductive, SyncBehind
<1>6. ASSUME NEW j \in 1 .. (i + 1) - 1, IsData(j), d \in channel[j].items, j # 1
      PROVE  j - 1 \in 1 .. i - 1 /\ IsData(j - 1)' /\ d \in channel'[j - 1].items
  <2>1. j \in DOMAIN channel /\ j - 1 \in 1 .. i - 1
    BY <1>1, <1>4, <1>6, ChannelTail
  <2> QED
    BY <1>1, <1>6, <2>1, ChannelTail DEF IsData
<1> QED
  BY <1>2, <1>3, <1>5, <1>6

-----------------------------------------------------------------------------
(* The closures and the asynchronous thread between collections: nothing   *)
(* is sent, taken or destroyed.                                            *)

LEMMA AllocateInductive ==
    ASSUME CleanupInductive, NEW t \in User, NEW d \in Data, Allocate(t, d)
    PROVE  CleanupInductive'
<1>1. /\ TypeOK /\ t \in Client /\ pc[t] = "work" /\ pc'[t] = "notify" /\ Others(t)
      /\ \A u \in User : d \notin mine[u]
      /\ tracked' = tracked \cup {d} /\ held' = held \cup {d}
      /\ mine' = [mine EXCEPT ![t] = @ \cup {d}]
      /\ UNCHANGED <<gcLock, doomed, condemned, triggerVars, dropperVars>>
  BY Clients, Step DEF Allocate, CleanupInductive, collectionVars
<1>2. d \notin tracked /\ d \notin condemned /\ d \notin sent
  BY <1>1 DEF CleanupInductive, DataShape
<1>3. UNCHANGED <<sent, destroyed, sync, channel, batch>> /\ DropperInductive'
  BY <1>1, DropperUnchanged DEF dropperVars, CleanupInductive
<1>4. TypeOK'
  BY <1>1, <1>2, <1>3 DEF TypeOK, DropperInductive, TriggerTypeOK, triggerVars, Garbage,
     Allocate, Goto
<1>5. LockShape' /\ SyncShape'
  BY <1>1, <1>3 DEF CleanupInductive, LockShape, SyncShape, Others
<1>6. DataShape'
  <2>1. UNION {mine'[u] : u \in User} = (UNION {mine[u] : u \in User}) \cup {d}
    BY <1>1 DEF TypeOK
  <2>2. \A u, v \in User : u # v => mine'[u] \cap mine'[v] = {}
    BY <1>1 DEF TypeOK, CleanupInductive, DataShape
  <2>3. condemned # {} => \E u \in Client : pc'[u] = "send"
    BY <1>1 DEF CleanupInductive, DataShape, Others
  <2> QED
    BY <1>1, <1>2, <1>3, <2>1, <2>2, <2>3 DEF CleanupInductive, DataShape
<1>7. \A u \in User : u # t => Lost(u)' = Lost(u) /\ pc'[u] = pc[u]
  BY <1>1, Clients DEF Lost, TypeOK, Others
<1>8. CleanupCovers' /\ CleanupRunsDestructors'
  BY <1>1, <1>3, <1>7 DEF CleanupInductive, CleanupCovers, CleanupRunsDestructors, Lost
<1>9. SyncBehind'
  BY <1>1, <1>3, <1>7, SyncBehindKept DEF CleanupInductive
<1> QED
  BY <1>3, <1>4, <1>5, <1>6, <1>8, <1>9 DEF CleanupInductive

LEMMA DropHandleInductive ==
    ASSUME CleanupInductive, NEW t \in User, NEW d \in Data, DropHandle(t, d)
    PROVE  CleanupInductive'
<1>1. /\ TypeOK /\ pc[t] = "work" /\ d \in mine[t] /\ d \in held /\ held' = held \ {d}
      /\ UNCHANGED <<pc, gcLock, tracked, mine, doomed, condemned, triggerVars, dropperVars>>
  BY DEF DropHandle, CleanupInductive, collectionVars
<1>2. UNCHANGED <<sent, destroyed, sync, channel, batch>> /\ DropperInductive'
  BY <1>1, DropperUnchanged DEF dropperVars, CleanupInductive
<1>3. TypeOK'
  BY <1>1, <1>2 DEF TypeOK, DropperInductive, TriggerTypeOK, triggerVars, Garbage
<1>4. LockShape' /\ SyncShape' /\ DataShape'
  BY <1>1, <1>2 DEF CleanupInductive, LockShape, SyncShape, DataShape
<1>5. \A u \in User : u # t => Lost(u)' = Lost(u)
  BY <1>1 DEF Lost, CleanupInductive, DataShape
<1>6. CleanupCovers' /\ CleanupRunsDestructors'
  BY <1>1, <1>2, <1>5 DEF CleanupInductive, CleanupCovers, CleanupRunsDestructors, Lost
<1>7. SyncBehind'
  BY <1>1, <1>2, <1>5, SyncBehindKept DEF CleanupInductive
<1> QED
  BY <1>2, <1>3, <1>4, <1>6, <1>7 DEF CleanupInductive

\* A thread goes from one place to another where nothing is promised.
LEMMA MoveInductive ==
    ASSUME CleanupInductive, NEW t \in Client, NEW from, NEW to, Goto(t, from, to),
           {from, to} \subseteq {"work", "notify", "collect", "recv", "check", "checked"},
           UNCHANGED <<gcLock, listVars, collectionVars, dropperVars>>, TriggerTypeOK'
    PROVE  CleanupInductive'
<1>1. TypeOK /\ pc[t] = from /\ pc'[t] = to /\ Others(t)
  BY Step DEF CleanupInductive
<1>2. /\ UNCHANGED <<sent, destroyed, sync, channel, batch>> /\ DropperInductive'
      /\ UNCHANGED <<tracked, held, mine, doomed, condemned>>
  BY DropperUnchanged DEF dropperVars, CleanupInductive, listVars, collectionVars
<1>3. TypeOK'
  BY <1>1, <1>2 DEF TypeOK, DropperInductive, Garbage, Goto
<1>4. LockShape' /\ SyncShape' /\ DataShape'
  BY <1>1, <1>2 DEF CleanupInductive, LockShape, SyncShape, DataShape, Others
<1>5. \A u \in User : Lost(u)' = Lost(u) /\ (u # t => pc'[u] = pc[u])
  BY <1>1, <1>2, Clients DEF Lost, Others
<1>6. CleanupCovers' /\ CleanupRunsDestructors'
  BY <1>1, <1>2, <1>5 DEF CleanupInductive, CleanupCovers, CleanupRunsDestructors, Lost
<1>7. SyncBehind'
  BY <1>1, <1>2, <1>5, SyncBehindKept DEF CleanupInductive
<1> QED
  BY <1>2, <1>3, <1>4, <1>6, <1>7 DEF CleanupInductive

LEMMA ClosureInductive ==
    ASSUME CleanupInductive, NEW t \in User, NotifyAsync(t) \/ ClosureDone(t)
    PROVE  CleanupInductive'
<1>1. TriggerTypeOK'
  BY DEF NotifyAsync, ClosureDone, Notify, triggerVars, TriggerTypeOK, CleanupInductive, TypeOK
<1> QED
  BY <1>1, MoveInductive, Clients DEF NotifyAsync, ClosureDone

\* The asynchronous thread receives, finds that nothing is to be done, or goes back to wait.
LEMMA AsyncIdleInductive ==
    ASSUME CleanupInductive,
           \/ ReceiveNotification \/ AwaitNotification
           \/ CheckThenCollect /\ ~DemandNow
    PROVE  CleanupInductive'
<1>1. TriggerTypeOK'
  BY DEF ReceiveNotification, AwaitNotification, CheckThenCollect, Receive, triggerVars,
     TriggerTypeOK, CleanupInductive, TypeOK
<1> QED
  BY <1>1, MoveInductive, Clients DEF ReceiveNotification, AwaitNotification, CheckThenCollect

-----------------------------------------------------------------------------
(* Collections, by the one thread that holds gc_lock.                      *)

LEMMA LockInductive ==
    ASSUME CleanupInductive, NEW t \in Client, NEW from \in {"collect", "check"},
           LockAndSync(t, from)
    PROVE  CleanupInductive'
<1>1. /\ TypeOK /\ pc[t] = from /\ pc'[t] = "sync" /\ Others(t)
      /\ gcLock = NoThread /\ gcLock' = t /\ SendSync(t)
      /\ UNCHANGED <<tracked, held, mine, doomed, condemned, triggerVars>>
  BY Step DEF LockAndSync, CleanupInductive, listVars, collectionVars
<1>2. /\ DropperInductive' /\ UNCHANGED <<sent, batch, destroyed>>
      /\ sync' = [sync EXCEPT ![t] = "waiting"]
      /\ SyncUp(t) \in DropMessage /\ SyncUp(t).from = t /\ channel' = Append(channel, SyncUp(t))
  BY <1>1, SendSyncInductive, Messages DEF CleanupInductive, SendSync
<1>3. TypeOK'
  BY <1>1, <1>2 DEF TypeOK, DropperInductive, TriggerTypeOK, triggerVars, Garbage, LockAndSync,
     Goto
<1>4. LockShape'
  BY <1>1, Clients DEF CleanupInductive, LockShape, Others
<1>5. DataShape'
  BY <1>1, <1>2 DEF CleanupInductive, DataShape, Others
<1>6. SyncShape'
  BY <1>1, <1>2 DEF CleanupInductive, SyncShape, Others, TypeOK, DropperTypeOK
<1>7. \A u \in User : /\ Lost(u)' = Lost(u)
                      /\ u # t => pc'[u] = pc[u] /\ sync'[u] = sync[u]
  BY <1>1, <1>2, Clients DEF Lost, Others, TypeOK, DropperTypeOK
<1>8. CleanupCovers' /\ CleanupRunsDestructors'
  BY <1>1, <1>2, <1>7 DEF CleanupInductive, CleanupCovers, CleanupRunsDestructors, Lost
<1>9. SyncBehind'
  BY <1>1, <1>2, <1>7, SyncBehindAppended
<1> QED
  BY <1>2, <1>3, <1>4, <1>5, <1>6, <1>8, <1>9 DEF CleanupInductive

\* Nobody else is between the marking and the sending: all that the thread has lost is
\* tracked, and so garbage, or sent.
LEMMA BeginScanInductive ==
    ASSUME CleanupInductive, NEW t \in Client, BeginScan(t)
    PROVE  CleanupInductive'
<1>1. /\ TypeOK /\ pc[t] = "sync" /\ pc'[t] = "mark" /\ Others(t) /\ SyncReturns(t)
      /\ doomed' = Garbage
      /\ UNCHANGED <<gcLock, tracked, held, mine, condemned, triggerVars>>
  BY Step DEF BeginScan, CleanupInductive, listVars
<1>2. /\ DropperInductive' /\ UNCHANGED <<channel, sent, batch, destroyed>>
      /\ sync' = [sync EXCEPT ![t] = "none"]
  BY <1>1, SyncReturnsInductive DEF CleanupInductive, SyncReturns
<1>3. TypeOK'
  BY <1>1, <1>2 DEF TypeOK, DropperInductive, TriggerTypeOK, triggerVars, Garbage, BeginScan,
     Goto
<1>4. LockShape'
  BY <1>1 DEF CleanupInductive, LockShape, Others
<1>5. condemned = {}
  BY <1>1 DEF CleanupInductive, DataShape, LockShape
<1>6. DataShape'
  BY <1>1, <1>2, <1>5 DEF CleanupInductive, DataShape
<1>7. SyncShape'
  BY <1>1, <1>2 DEF CleanupInductive, SyncShape, Others, TypeOK, DropperTypeOK
<1>8. \A u \in User : /\ Lost(u)' = Lost(u) /\ Lost(u) \subseteq doomed' \cup sent
                      /\ u # t => pc'[u] = pc[u] /\ sync'[u] = sync[u]
  <2>1. \A u \in User : mine[u] \subseteq tracked \cup sent
    BY <1>5 DEF CleanupInductive, DataShape
  <2> QED
    BY <1>1, <1>2, <2>1, Clients DEF Lost, Others, Garbage, TypeOK, DropperTypeOK
<1>9. CleanupCovers' /\ CleanupRunsDestructors'
  BY <1>1, <1>2, <1>8 DEF CleanupInductive, CleanupCovers, CleanupRunsDestructors, Lost
<1>10. SyncBehind'
  BY <1>1, <1>2, <1>8, SyncBehindKept DEF CleanupInductive
<1> QED
  BY <1>2, <1>3, <1>4, <1>6, <1>7, <1>9, <1>10 DEF CleanupInductive

LEMMA CondemnInductive ==
    ASSUME CleanupInductive, NEW t \in Client, NEW S \in SUBSET Data, Condemn(t, S)
    PROVE  CleanupInductive'
<1>1. /\ TypeOK /\ pc[t] = "mark" /\ pc'[t] = "send" /\ Others(t)
      /\ doomed \subseteq S /\ S \subseteq Garbage
      /\ condemned' = S /\ tracked' = tracked \ S /\ doomed' = {}
      /\ UNCHANGED <<gcLock, held, mine, triggerVars, dropperVars>>
  BY Step DEF Condemn, CleanupInductive
<1>2. UNCHANGED <<sent, destroyed, sync, channel, batch>> /\ DropperInductive'
  BY <1>1, DropperUnchanged DEF dropperVars, CleanupInductive
<1>3. TypeOK'
  BY <1>1, <1>2 DEF TypeOK, DropperInductive, TriggerTypeOK, triggerVars, Garbage, Condemn,
     Goto
<1>4. \A u \in Client \ {t} : pc[u] \notin {"sync", "mark", "send"}
  BY <1>1 DEF CleanupInductive, LockShape
<1>5. LockShape' /\ SyncShape'
  BY <1>1, <1>2 DEF CleanupInductive, LockShape, SyncShape, Others
<1>6. condemned = {}
  BY <1>1, <1>4 DEF CleanupInductive, DataShape
<1>7. DataShape'
  BY <1>1, <1>2, <1>6 DEF CleanupInductive, DataShape, Garbage
<1>8. \A u \in User : /\ Lost(u)' = Lost(u)
                      /\ u # t => pc'[u] = pc[u] /\ pc[u] \notin {"mark", "send"}
  BY <1>1, <1>4, Clients DEF Lost, Others
<1>9. CleanupCovers' /\ CleanupRunsDestructors'
  BY <1>1, <1>2, <1>8 DEF CleanupInductive, CleanupCovers, CleanupRunsDestructors
<1>10. SyncBehind'
  BY <1>1, <1>2, <1>8, SyncBehindKept DEF CleanupInductive
<1> QED
  BY <1>2, <1>3, <1>5, <1>7, <1>9, <1>10 DEF CleanupInductive

LEMMA SendInductive ==
    ASSUME CleanupInductive, NEW t \in Client, SendAndUnlock(t)
    PROVE  CleanupInductive'
<1>1. /\ TypeOK /\ pc[t] = "send" /\ pc'[t] = AfterCollection(t) /\ Others(t)
      /\ SendData(condemned) /\ condemned' = {} /\ gcLock' = NoThread
      /\ baseline' = Cardinality(tracked)
      /\ UNCHANGED <<tracked, held, mine, doomed, percent, notified>>
  BY Step DEF SendAndUnlock, CleanupInductive, listVars, SetDataCountAfterCollection
<1>2. condemned \in SUBSET Data /\ condemned \cap sent = {}
  BY <1>1 DEF TypeOK, CleanupInductive, DataShape
<1>3. /\ DropperInductive' /\ sent' = sent \cup condemned
      /\ UNCHANGED <<sync, batch, destroyed>>
      /\ DataToDrop(condemned) \in DropMessage /\ DataToDrop(condemned).kind = "data"
      /\ channel' = Append(channel, DataToDrop(condemned))
  BY <1>1, <1>2, SendDataInductive, Messages DEF CleanupInductive, SendData
<1>4. AfterCollection(t) \in {"checked", "cleanup"}
  BY DEF AfterCollection
<1>5. TypeOK'
  BY <1>1, <1>3, <1>4, Counts DEF TypeOK, DropperInductive, TriggerTypeOK, Garbage,
     SendAndUnlock, Goto
<1>6. \A u \in Client \ {t} : pc[u] \notin {"sync", "mark", "send"}
  BY <1>1 DEF CleanupInductive, LockShape
<1>7. LockShape'
  BY <1>1, <1>4, <1>6, Clients DEF LockShape, Others
<1>8. SyncShape' /\ DataShape'
  <2>1. tracked \cap condemned = {}
    BY <1>1 DEF TypeOK
  <2>2. DataShape'
    BY <1>1, <1>3, <2>1 DEF CleanupInductive, DataShape
  <2>3. SyncShape'
    BY <1>1, <1>3, <1>4 DEF CleanupInductive, SyncShape, Others
  <2> QED
    BY <2>2, <2>3
<1>9. \A u \in User : /\ Lost(u)' = Lost(u)
                      /\ u # t => pc'[u] = pc[u] /\ pc[u] \notin {"mark", "send"}
  BY <1>1, <1>6, Clients DEF Lost, Others
<1>10. t \in User => Lost(t) \subseteq sent'
  BY <1>1, <1>3 DEF CleanupInductive, CleanupCovers
<1>11. CleanupCovers' /\ CleanupRunsDestructors'
  BY <1>1, <1>3, <1>4, <1>9, <1>10 DEF CleanupInductive, CleanupCovers, CleanupRunsDestructors,
     Lost
<1>12. SyncBehind'
  BY <1>1, <1>3, <1>4, <1>9, SyncBehindAppended
<1> QED
  BY <1>3, <1>5, <1>7, <1>8, <1>11, <1>12 DEF CleanupInductive

-----------------------------------------------------------------------------
(* synchronize_destructors, and the drop thread.                           *)

LEMMA SynchronizeInductive ==
    ASSUME CleanupInductive, NEW t \in User, Synchronize(t)
    PROVE  CleanupInductive'
<1>1. /\ TypeOK /\ pc[t] = "cleanup" /\ pc'[t] = "waiting" /\ Others(t) /\ SendSync(t)
      /\ t \in Client
      /\ UNCHANGED <<gcLock, tracked, held, mine, doomed, condemned, triggerVars>>
  BY Step, Clients DEF Synchronize, CleanupInductive, listVars, collectionVars
<1>2. /\ DropperInductive' /\ UNCHANGED <<sent, batch, destroyed>>
      /\ sync[t] = "none" /\ sync' = [sync EXCEPT ![t] = "waiting"]
      /\ SyncUp(t) \in DropMessage /\ SyncUp(t).from = t /\ channel' = Append(channel, SyncUp(t))
  BY <1>1, SendSyncInductive, Messages DEF CleanupInductive, SendSync
<1>3. TypeOK'
  BY <1>1, <1>2 DEF TypeOK, DropperInductive, TriggerTypeOK, triggerVars, Garbage, Synchronize,
     Goto
<1>4. LockShape' /\ DataShape'
  BY <1>1, <1>2 DEF CleanupInductive, LockShape, DataShape, Others
<1>5. SyncShape' /\ sync'[t] = "waiting"
  BY <1>1, <1>2 DEF CleanupInductive, SyncShape, Others, TypeOK, DropperTypeOK
<1>6. \A u \in User : /\ Lost(u)' = Lost(u)
                      /\ u # t => pc'[u] = pc[u] /\ sync'[u] = sync[u]
  BY <1>1, <1>2, Clients DEF Lost, Others, TypeOK, DropperTypeOK
<1>7. Lost(t) \subseteq sent
  BY <1>1 DEF CleanupInductive, CleanupCovers
<1>8. CleanupCovers' /\ CleanupRunsDestructors'
  BY <1>1, <1>2, <1>5, <1>6, <1>7 DEF CleanupInductive, CleanupCovers, CleanupRunsDestructors,
     Lost
<1>9. SyncBehind'
  BY <1>1, <1>2, <1>6, <1>7, SyncBehindAppended
<1> QED
  BY <1>2, <1>3, <1>4, <1>5, <1>8, <1>9 DEF CleanupInductive

LEMMA ReturnInductive ==
    ASSUME CleanupInductive, NEW t \in User, Return(t)
    PROVE  CleanupInductive'
<1>1. /\ TypeOK /\ pc[t] = "waiting" /\ pc'[t] = "done" /\ Others(t) /\ SyncReturns(t)
      /\ t \in Client
      /\ UNCHANGED <<gcLock, tracked, held, mine, doomed, condemned, triggerVars>>
  BY Step, Clients DEF Return, CleanupInductive, listVars, collectionVars
<1>2. /\ DropperInductive' /\ UNCHANGED <<channel, sent, batch, destroyed>>
      /\ sync[t] = "answered" /\ sync' = [sync EXCEPT ![t] = "none"]
  BY <1>1, SyncReturnsInductive DEF CleanupInductive, SyncReturns
<1>3. TypeOK'
  BY <1>1, <1>2 DEF TypeOK, DropperInductive, TriggerTypeOK, triggerVars, Garbage, Return,
     Goto
<1>4. LockShape' /\ DataShape'
  BY <1>1, <1>2 DEF CleanupInductive, LockShape, DataShape, Others
<1>5. SyncShape'
  BY <1>1, <1>2 DEF CleanupInductive, SyncShape, Others, TypeOK, DropperTypeOK
<1>6. \A u \in User : /\ Lost(u)' = Lost(u)
                      /\ u # t => pc'[u] = pc[u] /\ sync'[u] = sync[u]
  BY <1>1, <1>2, Clients DEF Lost, Others, TypeOK, DropperTypeOK
<1>7. Lost(t) \subseteq destroyed
  BY <1>1, <1>2 DEF CleanupInductive, CleanupCovers
<1>8. CleanupCovers' /\ CleanupRunsDestructors'
  BY <1>1, <1>2, <1>6, <1>7 DEF CleanupInductive, CleanupCovers, CleanupRunsDestructors, Lost
<1>9. SyncBehind'
  BY <1>1, <1>2, <1>6, SyncBehindKept DEF CleanupInductive
<1> QED
  BY <1>2, <1>3, <1>4, <1>5, <1>8, <1>9 DEF CleanupInductive

\* Only the drop thread's answer disturbs what a waiting thread is promised: the SyncUp
\* is at the head and no batch is being served, so what it is behind is destroyed.
LEMMA DestructionInductive ==
    ASSUME CleanupInductive, Destruction, UNCHANGED cleanupVars
    PROVE  CleanupInductive'
<1>1. DropperInductive'
  BY DropThreadInductive, EndDeallocateInductive DEF CleanupInductive, Destruction
<1>2. /\ TypeOK /\ UNCHANGED <<pc, gcLock, tracked, held, mine, doomed, condemned, sent>>
      /\ UNCHANGED triggerVars /\ destroyed \subseteq destroyed'
  BY DEF CleanupInductive, cleanupVars, listVars, collectionVars, Destruction, DropThread,
     ReceiveData, AnswerSync, FlagDeallocated, StartDrops, StartDeallocate, EndBatch,
     EndDeallocate
<1>3. TypeOK'
  BY <1>1, <1>2 DEF TypeOK, DropperInductive, TriggerTypeOK, triggerVars, Garbage
<1>4. LockShape' /\ DataShape' /\ CleanupRunsDestructors'
  BY <1>2 DEF CleanupInductive, LockShape, DataShape, CleanupRunsDestructors
<1>5. \A u \in User : Lost(u)' = Lost(u)
  BY <1>2 DEF Lost
<1>6. CASE AnswerSync
  <2>1. /\ channel # <<>> /\ IsSync(1) /\ batch = {} /\ channel[1].from \in Client
        /\ sync' = [sync EXCEPT ![channel[1].from] = "answered"]
    BY <1>6, ChannelTail, Messages DEF AnswerSync, IsSync, CleanupInductive, TypeOK,
       DropperTypeOK, DropperInductive, DropperShape
  <2> DEFINE c == channel[1].from
  <2>2. sync[c] = "waiting"
    BY <2>1, ChannelTail DEF CleanupInductive, DropperInductive, SyncsOnce, TypeOK,
       DropperTypeOK
  <2>3. c \in User /\ pc[c] = "waiting" => Lost(c) \subseteq destroyed
    <3>1. 1 \in DOMAIN channel
      BY <2>1 DEF TypeOK, DropperTypeOK, CleanupInductive
    <3> QED
      BY <2>1, <3>1 DEF CleanupInductive, SyncBehind
  <2>4. SyncShape'
    BY <1>2, <2>1, <2>2 DEF CleanupInductive, SyncShape, TypeOK, DropperTypeOK
  <2>5. CleanupCovers'
    <3>1. \A u \in User : u # c => sync'[u] = sync[u]
      BY <2>1, Clients DEF CleanupInductive, TypeOK, DropperTypeOK
    <3> QED
      BY <1>2, <1>5, <2>3, <3>1 DEF CleanupInductive, CleanupCovers
  <2>6. SyncBehind'
    BY <1>6, SyncBehindTaken
  <2> QED
    BY <1>1, <1>3, <1>4, <2>4, <2>5, <2>6 DEF CleanupInductive
<1>7. CASE ~AnswerSync
  <2>1. UNCHANGED sync
    BY <1>7 DEF Destruction, DropThread, ReceiveData, FlagDeallocated, StartDrops,
       StartDeallocate, EndBatch, EndDeallocate
  <2>2. SyncShape' /\ CleanupCovers'
    BY <1>2, <1>5, <2>1 DEF CleanupInductive, SyncShape, CleanupCovers
  <2>3. SyncBehind'
    <3>1. CASE ReceiveData
      BY <3>1, SyncBehindTaken
    <3>2. CASE ~ReceiveData
      <4>1. UNCHANGED channel /\ batch \cup destroyed \subseteq (batch \cup destroyed)'
        BY <1>7, <3>2 DEF Destruction, DropThread, FlagDeallocated, StartDrops,
           StartDeallocate, EndBatch, EndDeallocate, CleanupInductive,
           DropperInductive, DropperShape
      <4> QED
        BY <1>2, <1>5, <4>1, SyncBehindKept DEF CleanupInductive
    <3> QED
      BY <3>1, <3>2
  <2> QED
    BY <1>1, <1>3, <1>4, <2>2, <2>3 DEF CleanupInductive
<1> QED
  BY <1>6, <1>7

\* A step that changes the trigger and nothing else,
LEMMA TriggerInductive ==
    ASSUME CleanupInductive, TriggerTypeOK',
           UNCHANGED <<pc, gcLock, listVars, collectionVars, dropperVars>>
    PROVE  CleanupInductive'
<1>1. DropperInductive' /\ UNCHANGED <<sent, sync, destroyed, channel, batch>>
  BY DropperUnchanged DEF dropperVars, CleanupInductive
<1>2. UNCHANGED <<pc, gcLock, tracked, held, mine, doomed, condemned>>
  BY DEF listVars, collectionVars
<1>3. TypeOK' /\ LockShape' /\ DataShape' /\ SyncShape'
  BY <1>1, <1>2 DEF CleanupInductive, TypeOK, DropperInductive, Garbage, LockShape, DataShape,
     SyncShape
<1>4. CleanupCovers' /\ CleanupRunsDestructors' /\ \A u \in User : Lost(u)' = Lost(u)
  BY <1>1, <1>2 DEF CleanupInductive, CleanupCovers, CleanupRunsDestructors, Lost
<1>5. SyncBehind'
  BY <1>1, <1>2, <1>4, SyncBehindKept DEF CleanupInductive
<1> QED
  BY <1>1, <1>3, <1>4, <1>5 DEF CleanupInductive

\* as set_gc_trigger_percent does,
LEMMA SetPercentInductive ==
    ASSUME CleanupInductive, NEW t \in User, NEW p \in Percents, SetGcTriggerPercent(t, p)
    PROVE  CleanupInductive'
<1>1. TriggerTypeOK'
  BY DEF SetGcTriggerPercent, SetTriggerPercent, TriggerTypeOK, CleanupInductive, TypeOK
<1> QED
  BY <1>1, TriggerInductive DEF SetGcTriggerPercent

\* and a step that changes nothing.
LEMMA StutterInductive == ASSUME CleanupInductive, UNCHANGED vars PROVE CleanupInductive'
<1>1. UNCHANGED <<pc, gcLock, listVars, collectionVars, triggerVars, dropperVars>>
  BY DEF vars, cleanupVars
<1>2. TriggerTypeOK'
  BY <1>1 DEF triggerVars, TriggerTypeOK, CleanupInductive, TypeOK
<1> QED
  BY <1>1, <1>2, TriggerInductive

-----------------------------------------------------------------------------
\* The strengthening is an inductive invariant of Cleanup.
THEOREM CleanupIsInductive == Spec => []CleanupInductive
<1>1. ASSUME CleanupInductive, [Next]_vars PROVE CleanupInductive'
  <2>1. ASSUME NEW t \in Client, Collecting(t) PROVE CleanupInductive'
    BY <1>1, <2>1, BeginScanInductive, CondemnInductive, SendInductive DEF Collecting
  <2>2. ASSUME NEW t \in User, Thread(t) PROVE CleanupInductive'
    BY <1>1, <2>1, <2>2, Clients, ClosureInductive, LockInductive, SynchronizeInductive,
       ReturnInductive DEF Thread
  <2>3. ASSUME AsyncThread PROVE CleanupInductive'
    BY <1>1, <2>1, <2>3, Clients, AsyncIdleInductive, LockInductive
       DEF AsyncThread, CheckThenCollect
  <2> QED
    BY <1>1, <2>2, <2>3, StutterInductive, ClosureInductive, AllocateInductive,
       DropHandleInductive, SetPercentInductive, DestructionInductive DEF Next
<1> QED
  BY <1>1, CleanupInit, PTL DEF Spec

\* Every variable stays in its type.
THEOREM CleanupTypes == Spec => []TypeOK
<1>1. CleanupInductive => TypeOK
  BY DEF CleanupInductive
<1> QED
  BY <1>1, CleanupIsInductive, PTL

\* All data of a batch is flagged before the first of its destructors begins.
THEOREM CleanupFlags == Spec => []FlagsBeforeDrops
<1>1. CleanupInductive => FlagsBeforeDrops
  BY DropperPromises DEF CleanupInductive
<1> QED
  BY <1>1, CleanupIsInductive, PTL

\* No destructor runs twice, however many threads collect and synchronize.
THEOREM CleanupDestroysOnce == Spec => []DestroyedOnce
<1>1. CleanupInductive => DestroyedOnce
  BY DropperPromises DEF CleanupInductive
<1> QED
  BY <1>1, CleanupIsInductive, PTL

\* When run_with_gc_cleanup returns, the destructors of what its closure lost have run.
THEOREM CleanupSafety == Spec => []CleanupRunsDestructors
<1>1. CleanupInductive => CleanupRunsDestructors
  BY DEF CleanupInductive
<1> QED
  BY <1>1, CleanupIsInductive, PTL

-----------------------------------------------------------------------------
(* What liveness rests on.                                                 *)

\* No deadlock: whoever waits for gc_lock waits for a collection, a collection or a cleanup
\* that waits for an answer has its SyncUp in the channel, and nobody else waits.
THEOREM CleanupNeverStuck == Spec => []NeverStuck
<1>1. ASSUME CleanupInductive
      PROVE  NeverStuck
  <2>1. ASSUME NEW t \in Client, pc[t] \in {"sync", "waiting"}
        PROVE  Runnable(t) \/ channel # <<>>
    <3>1. sync[t] \in {"waiting", "answered"}
      BY <1>1, <2>1 DEF CleanupInductive, SyncShape, TypeOK, DropperTypeOK
    <3>2. CASE sync[t] = "waiting"
      <4>1. PICK i \in DOMAIN channel : IsSync(i) /\ channel[i].from = t
        BY <1>1, <3>2 DEF CleanupInductive, DropperInductive, SyncsOnce, Requested
      <4> QED
        BY <4>1
    <3> QED
      BY <2>1, <3>1, <3>2 DEF Runnable
  <2>2. ASSUME NEW t \in Client, pc[t] \in {"collect", "check"}, gcLock # NoThread
        PROVE  Runnable(gcLock) \/ channel # <<>>
    <3>1. gcLock \in Client /\ pc[gcLock] \in {"sync", "mark", "send"}
      BY <1>1, <2>2 DEF CleanupInductive, TypeOK, LockShape
    <3> QED
      BY <2>1, <3>1 DEF Runnable
  <2>3. gcLock \in Client \cup {NoThread} /\ pc \in [Client -> {"work", "notify", "collect", "recv",
           "check", "sync", "mark", "send", "cleanup", "waiting", "done", "checked"}]
    BY <1>1 DEF CleanupInductive, TypeOK
  <2> QED
    BY <2>1, <2>2, <2>3 DEF NeverStuck, Runnable
<1> QED
  BY <1>1, CleanupIsInductive, PTL

\* When a collection has reset the baseline, the data has not grown.
LEMMA ResetBaseline ==
    ASSUME CleanupInductive, baseline' = Cardinality(tracked), UNCHANGED tracked
    PROVE  ~Overgrown'
<1> DEFINE n == Cardinality(tracked)
<1>1. n \in Nat
  BY Counts DEF CleanupInductive
<1>2. SUFFICES ASSUME n >= MinAllocations, GrownBy(DefaultPercent, n)'
               PROVE  FALSE
  BY TriggerAssumption DEF Overgrown, TriggerAssumption
<1>3. /\ n > 0 /\ DefaultPercent \in Nat \ {0} /\ Word \in Nat \ {0} /\ 100 * (0 % Word) = 0
  BY <1>1, <1>2, TriggerAssumption DEF TriggerAssumption
<1>4. NewData(n)' = 0 % Word
  BY <1>1 DEF NewData
<1>5. 100 * (0 % Word) >= DefaultPercent * n
  BY <1>2, <1>3, <1>4 DEF GrownBy
<1>6. DefaultPercent * n > 0
  BY <1>1, <1>3
<1> QED
  BY <1>1, <1>3, <1>5, <1>6

\* No notification is lost: an allocation is followed by one, the thread that takes it looks
\* at counts that include the allocation, and only a collection makes it needless.
THEOREM CleanupNoticesGrowth == Spec => []GrowthNoticed
<1>1. Init => GrowthNoticed
  BY FS_EmptySet, TriggerAssumption DEF Init, GrowthNoticed, Overgrown, TriggerAssumption
<1>2. ASSUME CleanupInductive, GrowthNoticed, [Next]_vars
      PROVE  GrowthNoticed'
  <2> DEFINE Kept == /\ UNCHANGED <<tracked, baseline>>
                     /\ notified => notified'
                     /\ gcLock # NoThread => gcLock' # NoThread
                     /\ pc[Async] = "check" => pc'[Async] = "check"
                     /\ \A u \in User : pc[u] = "notify" => pc'[u] = "notify"
  <2>1. ASSUME Kept PROVE GrowthNoticed'
    BY <1>2, <2>1 DEF GrowthNoticed, Overgrown, GrownBy, NewData
  <2>2. TypeOK /\ gcLock \in Client \cup {NoThread}
    BY <1>2 DEF CleanupInductive, TypeOK
  <2>3. ASSUME NEW t \in User, NEW d \in Data, Allocate(t, d) PROVE GrowthNoticed'
    BY <2>2, <2>3, Clients, Step DEF Allocate, GrowthNoticed
  <2>4. ASSUME NEW t \in User, NotifyAsync(t) PROVE GrowthNoticed'
    BY <2>4 DEF NotifyAsync, Notify, GrowthNoticed
  <2>5. ASSUME NEW t \in Client, NEW from, LockAndSync(t, from) PROVE GrowthNoticed'
    BY <2>5, Clients DEF LockAndSync, GrowthNoticed
  <2>6. ASSUME NEW t \in Client, Collecting(t) PROVE GrowthNoticed'
    <3>1. CASE SendAndUnlock(t)
      BY <1>2, <3>1, ResetBaseline DEF SendAndUnlock, SetDataCountAfterCollection, listVars,
         GrowthNoticed
    <3>2. CASE BeginScan(t) \/ \E S \in SUBSET Data : Condemn(t, S)
      <4>1. gcLock = t /\ gcLock' = gcLock
        BY <1>2, <3>2 DEF BeginScan, Condemn, Goto, CleanupInductive, LockShape
      <4> QED
        BY <4>1, Clients DEF GrowthNoticed
    <3> QED
      BY <2>6, <3>1, <3>2 DEF Collecting
  <2>7. ASSUME NEW t \in User,
               \/ Synchronize(t) \/ Return(t) \/ ClosureDone(t)
               \/ \E d \in Data : DropHandle(t, d)
               \/ \E p \in Percents : SetGcTriggerPercent(t, p)
        PROVE  GrowthNoticed'
    <3>1. /\ UNCHANGED <<tracked, baseline, notified, gcLock>>
          /\ \A u \in Client : pc[u] \in {"notify", "check"} => pc'[u] = pc[u]
      BY <2>2, <2>7 DEF Synchronize, Return, ClosureDone, DropHandle, SetGcTriggerPercent,
         SetTriggerPercent, listVars, triggerVars, Goto, TypeOK
    <3> QED
      BY <2>1, <3>1, Clients
  <2>8. ASSUME AwaitNotification \/ ReceiveNotification PROVE GrowthNoticed'
    <3>1. CASE ReceiveNotification
      BY <2>2, <3>1, Clients, Step DEF ReceiveNotification, GrowthNoticed
    <3>2. CASE AwaitNotification
      <4>1. /\ UNCHANGED <<tracked, baseline, notified, gcLock>>
            /\ \A u \in Client : pc[u] \in {"notify", "check"} => pc'[u] = pc[u]
        BY <2>2, <3>2 DEF AwaitNotification, listVars, triggerVars, Goto, TypeOK
      <4> QED
        BY <2>1, <4>1, Clients
    <3> QED
      BY <2>8, <3>1, <3>2
  <2>9. ASSUME CheckThenCollect, ~DemandNow PROVE GrowthNoticed'
    <3>1. UNCHANGED <<tracked, baseline>>
      BY <2>9 DEF CheckThenCollect, listVars, triggerVars
    <3>2. Overgrown => DemandNow
      BY <2>2 DEF Overgrown, DemandNow, ShouldCollect, TypeOK, TriggerTypeOK
    <3> QED
      BY <2>9, <3>1, <3>2 DEF GrowthNoticed, Overgrown, GrownBy, NewData
  <2>10. ASSUME UNCHANGED cleanupVars PROVE GrowthNoticed'
    BY <2>1, <2>10 DEF cleanupVars, listVars, triggerVars
  <2> QED
    BY <1>2, <2>3, <2>4, <2>5, <2>6, <2>7, <2>8, <2>9, <2>10, Clients
       DEF Next, Thread, AsyncThread, CheckThenCollect, vars
<1> QED
  BY <1>1, <1>2, CleanupIsInductive, PTL DEF Spec

=============================================================================
