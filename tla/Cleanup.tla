------------------------------- MODULE Cleanup -------------------------------
(***************************************************************************)
(* Threads whose closures allocate and lose data and that end with         *)
(* run_with_gc_cleanup (src/lib.rs): collect(), which takes gc_lock,       *)
(* synchronizes with the drop thread, condemns and sends, and then         *)
(* synchronize_destructors().  Beside them the asynchronous collector      *)
(* thread collects when an allocation has notified it and the trigger says *)
(* so.  The collection is reduced to what module Collector shows of it: it *)
(* condemns only unreachable data, and at least all that was unreachable   *)
(* when its scan began (GarbageReclaimed).                                 *)
(***************************************************************************)
EXTENDS Dropper, Trigger

CONSTANTS Async,      \* the asynchronous collector thread
          NoThread    \* gc_lock is not held

ASSUME CleanupAssumption ==
    /\ Async \in Client /\ NoThread \notin Client
    /\ IsFiniteSet(Data)

VARIABLES pc,        \* where each thread is
          gcLock,    \* the holder of gc_lock
          tracked,   \* contents of the data list
          held,      \* data with a handle
          doomed,    \* the garbage there was when the collection's scan began
          condemned, \* the to_drop vector of the collection in progress
          mine       \* history: the data each thread's closure allocated

listVars == <<tracked, held, mine>>
collectionVars == <<doomed, condemned>>
cleanupVars == <<pc, gcLock, listVars, collectionVars, triggerVars>>
vars == <<cleanupVars, dropperVars>>

User == Client \ {Async}
Garbage == tracked \ held

TypeOK ==
    /\ DropperTypeOK /\ TriggerTypeOK
    /\ pc \in [Client -> {"work", "notify", "collect", "recv", "check", "sync", "mark",
                          "send", "cleanup", "waiting", "done", "checked"}]
    /\ gcLock \in Client \cup {NoThread}
    /\ tracked \subseteq Data /\ held \subseteq tracked
    /\ doomed \subseteq Garbage /\ condemned \subseteq Data \ tracked
    /\ mine \in [User -> SUBSET Data]

Init ==
    /\ DropperInit /\ TriggerInit
    /\ pc = [t \in Client |-> IF t = Async THEN "recv" ELSE "work"]
    /\ gcLock = NoThread
    /\ tracked = {} /\ held = {}
    /\ doomed = {} /\ condemned = {}
    /\ mine = [t \in User |-> {}]

Goto(t, from, to) == pc[t] = from /\ pc' = [pc EXCEPT ![t] = to]

-----------------------------------------------------------------------------
(* The closure.                                                            *)

\* Gc::new puts the handle and the data in their lists,
Allocate(t, d) ==
    /\ Goto(t, "work", "notify")
    /\ \A u \in User : d \notin mine[u]
    /\ tracked' = tracked \cup {d}
    /\ held' = held \cup {d}
    /\ mine' = [mine EXCEPT ![t] = @ \cup {d}]
    /\ UNCHANGED <<gcLock, collectionVars, triggerVars, dropperVars>>

\* Mutant: a thread that is busy is not notified.
MutantNotifyIdle(t) ==
    /\ Goto(t, "notify", "work")
    /\ IF pc[Async] = "recv" THEN Notify ELSE UNCHANGED triggerVars
    /\ UNCHANGED <<gcLock, listVars, collectionVars, dropperVars>>

\* and then notifies the asynchronous thread.
NotifyAsync(t) ==
    /\ Goto(t, "notify", "work")
    /\ Notify
    /\ UNCHANGED <<gcLock, listVars, collectionVars, dropperVars>>

\* The drop of a handle notifies nobody.
DropHandle(t, d) ==
    /\ pc[t] = "work"
    /\ d \in mine[t] \cap held
    /\ held' = held \ {d}
    /\ UNCHANGED <<pc, gcLock, tracked, mine, collectionVars, triggerVars, dropperVars>>

\* What the closure leaves with a handle is reachable from elsewhere.
ClosureDone(t) ==
    /\ Goto(t, "work", "collect")
    /\ UNCHANGED <<gcLock, listVars, collectionVars, triggerVars, dropperVars>>

\* It may also change when the asynchronous thread collects.
SetGcTriggerPercent(t, p) ==
    /\ pc[t] = "work"
    /\ SetTriggerPercent(p)
    /\ UNCHANGED <<pc, gcLock, listVars, collectionVars, dropperVars>>

-----------------------------------------------------------------------------
(* collect, check_then_collect and what they share, do_collect.            *)

LockAndSync(t, from) ==
    /\ Goto(t, from, "sync")
    /\ gcLock = NoThread
    /\ gcLock' = t
    /\ SendSync(t)
    /\ UNCHANGED <<listVars, collectionVars, triggerVars>>

ReceiveNotification ==
    /\ Goto(Async, "recv", "check")
    /\ Receive
    /\ UNCHANGED <<gcLock, listVars, collectionVars, dropperVars>>

\* The asynchronous thread returns to its recv.
AwaitNotification ==
    /\ Goto(Async, "checked", "recv")
    /\ UNCHANGED <<gcLock, listVars, collectionVars, triggerVars, dropperVars>>

DemandNow == ShouldCollect(Cardinality(tracked), Cardinality(held))

\* The counts are read under gc_lock, which is released at once if nothing is to be done.
CheckThenCollect ==
    \/ DemandNow /\ LockAndSync(Async, "check")
    \/ /\ ~DemandNow /\ gcLock = NoThread
       /\ Goto(Async, "check", "checked")
       /\ UNCHANGED <<gcLock, listVars, collectionVars, triggerVars, dropperVars>>

BeginScan(t) ==
    /\ Goto(t, "sync", "mark")
    /\ SyncReturns(t)
    /\ doomed' = Garbage
    /\ UNCHANGED <<gcLock, listVars, condemned, triggerVars>>

\* The data list is filtered; garbage made since the scan began may go or stay.
Condemn(t, S) ==
    /\ Goto(t, "mark", "send")
    /\ doomed \subseteq S /\ S \subseteq Garbage
    /\ condemned' = S
    /\ tracked' = tracked \ S
    /\ doomed' = {}
    /\ UNCHANGED <<gcLock, held, mine, triggerVars, dropperVars>>

AfterCollection(t) == IF t = Async THEN "checked" ELSE "cleanup"

\* Mutant: the lock is released before the batch is sent.
MutantUnlockThenSend(t) ==
    /\ Goto(t, "send", AfterCollection(t))
    /\ gcLock' = NoThread
    /\ condemned' = {}
    /\ SendData({})
    /\ SetDataCountAfterCollection(Cardinality(tracked))
    /\ UNCHANGED <<listVars, doomed>>

SendAndUnlock(t) ==
    /\ Goto(t, "send", AfterCollection(t))
    /\ SendData(condemned)
    /\ condemned' = {}
    /\ SetDataCountAfterCollection(Cardinality(tracked))
    /\ gcLock' = NoThread
    /\ UNCHANGED <<listVars, doomed>>

-----------------------------------------------------------------------------
(* synchronize_destructors, at the end of run_with_gc_cleanup.             *)

Synchronize(t) ==
    /\ Goto(t, "cleanup", "waiting")
    /\ SendSync(t)
    /\ UNCHANGED <<gcLock, listVars, collectionVars, triggerVars>>

Return(t) ==
    /\ Goto(t, "waiting", "done")
    /\ SyncReturns(t)
    /\ UNCHANGED <<gcLock, listVars, collectionVars, triggerVars>>

-----------------------------------------------------------------------------
Collecting(t) == BeginScan(t) \/ SendAndUnlock(t) \/ \E S \in SUBSET Data : Condemn(t, S)

Thread(t) ==
    \/ NotifyAsync(t) \/ LockAndSync(t, "collect") \/ Collecting(t) \/ Synchronize(t) \/ Return(t)

AsyncThread == AwaitNotification \/ ReceiveNotification \/ CheckThenCollect \/ Collecting(Async)

Destruction ==
    \/ DropThread
    \/ \E d \in Data, panicked \in BOOLEAN : EndDeallocate(d, panicked)

Next ==
    \/ \E t \in User : \/ Thread(t) \/ ClosureDone(t)
                       \/ \E d \in Data : Allocate(t, d) \/ DropHandle(t, d)
                       \/ \E p \in Percents : SetGcTriggerPercent(t, p)
    \/ AsyncThread
    \/ Destruction /\ UNCHANGED cleanupVars

\* Threads that are not in their closures are runnable, and gc_lock (parking_lot) is
\* handed over eventually; so is the drop thread, and destructors end.
Fairness ==
    /\ \A t \in User : SF_vars(Thread(t))
    /\ SF_vars(AsyncThread)
    /\ WF_vars(DropThread /\ UNCHANGED cleanupVars)
    /\ \A d \in Data : WF_vars(/\ \E panicked \in BOOLEAN : EndDeallocate(d, panicked)
                               /\ UNCHANGED cleanupVars)

Spec == Init /\ [][Next]_vars /\ Fairness

-----------------------------------------------------------------------------
\* lib.rs: run_with_gc_cleanup "helps ensure your destructors are run".  When it
\* returns, the destructor of everything its closure left unreachable has been
\* attempted, also of data another thread's collection condemned.
CleanupRunsDestructors ==
    \A t \in User : pc[t] = "done" => mine[t] \ held \subseteq destroyed

\* A thread that has entered the cleanup returns from it, whatever the other threads and
\* the asynchronous one collect meanwhile.
CleanupReturns == \A t \in User : pc[t] = "collect" ~> pc[t] = "done"

\* No notification is lost between the asynchronous thread's check and its next recv:
\* data that has grown past the trigger is collected without any further allocation.
\* (A handle deficit that comes of drops alone waits for the next allocation, and so does
\* growth past a percentage that is lowered later.)
Overgrown ==
    /\ Cardinality(tracked) >= MinAllocations
    /\ \A p \in Percents : GrownBy(p, Cardinality(tracked))
GrowthServed == Overgrown ~> ~Overgrown

-----------------------------------------------------------------------------
(* The safety that CleanupReturns and GrowthServed rest on.                *)

\* A thread that has something to do for a collection and waits for nobody,
Runnable(t) ==
    \/ pc[t] \in {"notify", "mark", "send", "cleanup", "checked"}
    \/ pc[t] \in {"collect", "check"} /\ gcLock = NoThread
    \/ pc[t] \in {"sync", "waiting"} /\ sync[t] = "answered"

\* and deadlock freedom: as long as one has something to do, one of them or the drop thread
\* can, so no wait for gc_lock and for the drop thread's answer is circular.
NeverStuck ==
    (\E t \in Client : pc[t] \notin {"work", "recv", "done"}) =>
        channel # <<>> \/ \E t \in Client : Runnable(t)

\* Growth past the trigger is always on its way to the asynchronous thread's check, or to
\* the end of a collection, which resets the baseline.
GrowthNoticed ==
    Overgrown =>
        \/ notified \/ gcLock # NoThread \/ pc[Async] = "check"
        \/ \E t \in User : pc[t] = "notify"

-----------------------------------------------------------------------------
(* What makes CleanupRunsDestructors inductive.                            *)

LockShape == \A t \in Client : gcLock = t <=> pc[t] \in {"sync", "mark", "send"}

\* All data is some closure's, and is tracked, condemned or sent.
DataShape ==
    /\ tracked \cap sent = {} /\ condemned \cap sent = {}
    /\ condemned # {} => \E t \in Client : pc[t] = "send"
    /\ UNION {mine[u] : u \in User} = tracked \cup condemned \cup sent
    /\ \A u, v \in User : u # v => mine[u] \cap mine[v] = {}

SyncShape == \A t \in Client : sync[t] # "none" <=> pc[t] \in {"sync", "waiting"}

Lost(t) == mine[t] \ held

\* Where what a thread has lost is at each step of its cleanup,
CleanupCovers ==
    \A t \in User :
        /\ pc[t] = "mark" => Lost(t) \subseteq doomed \cup sent
        /\ pc[t] = "send" => Lost(t) \subseteq condemned \cup sent
        /\ pc[t] \in {"cleanup", "waiting"} => Lost(t) \subseteq sent
        /\ pc[t] = "waiting" /\ sync[t] = "answered" => Lost(t) \subseteq destroyed

\* and that it is ahead of the SyncUp of its synchronize_destructors.
SyncBehind ==
    \A i \in DOMAIN channel :
        IsSync(i) /\ channel[i].from \in User /\ pc[channel[i].from] = "waiting" =>
            \A d \in Lost(channel[i].from) :
                \/ d \in batch \cup destroyed
                \/ \E j \in 1 .. i - 1 : IsData(j) /\ d \in channel[j].items

CleanupInductive ==
    /\ TypeOK /\ DropperInductive
    /\ LockShape /\ DataShape /\ SyncShape
    /\ CleanupCovers /\ SyncBehind /\ CleanupRunsDestructors

=============================================================================
