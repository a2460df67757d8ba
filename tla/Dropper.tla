------------------------------- MODULE Dropper -------------------------------
(***************************************************************************)
(* The background drop thread (src/collector/dropper.rs) and the two kinds *)
(* of message it serves: a batch of condemned data to deallocate, and a    *)
(* request of a thread inside `synchronize_destructors` to be answered     *)
(* once everything queued before it is done.                               *)
(*                                                                         *)
(* The operators are conjoined by the modules that own a dropper:          *)
(* Collector and Cleanup.                                                  *)
(***************************************************************************)
EXTENDS Naturals, Sequences, FiniteSets

CONSTANTS Data,    \* pieces of data (Arc<GcData>)
          Client   \* threads that may call synchronize_destructors

VARIABLES channel,      \* the unbounded channel of DropMessages, oldest first
          stage,        \* what the drop thread is doing with the message it took
          batch,        \* the data of the DataToDrop message being served
          pending,      \* the part of batch the current par_iter has not started on
          running,      \* data whose `deallocate` is in progress
          deallocated,  \* GcData.deallocated flags that are set
          destroyed,    \* data whose destructor has been attempted
          sync,         \* each client's responder: "none", "waiting" or "answered"
          sent          \* history: every data ever sent to be dropped

dropperVars == <<channel, stage, batch, pending, running, deallocated,
                 destroyed, sync, sent>>

DataToDrop(S) == [kind |-> "data", items |-> S]
SyncUp(c)     == [kind |-> "sync", from |-> c]
DropMessage   == [kind: {"data"}, items: SUBSET Data] \cup [kind: {"sync"}, from: Client]

DropperTypeOK ==
    /\ channel \in Seq(DropMessage)
    /\ stage \in {"recv", "flag", "drop"}
    /\ batch \subseteq Data
    /\ pending \subseteq batch
    /\ running \subseteq batch
    /\ deallocated \subseteq Data
    /\ destroyed \subseteq Data
    /\ sync \in [Client -> {"none", "waiting", "answered"}]
    /\ sent \subseteq Data

DropperInit ==
    /\ channel = <<>>
    /\ stage = "recv"
    /\ batch = {} /\ pending = {} /\ running = {}
    /\ deallocated = {} /\ destroyed = {}
    /\ sync = [c \in Client |-> "none"]
    /\ sent = {}

-----------------------------------------------------------------------------
(* What other threads do to the dropper.                                   *)

\* send_msg(DataToDrop(S)); the collector sends a batch, possibly empty, at the
\* end of every collection.
SendData(S) ==
    /\ channel' = Append(channel, DataToDrop(S))
    /\ sent' = sent \cup S
    /\ UNCHANGED <<stage, batch, pending, running, deallocated, destroyed, sync>>

\* synchronize_destructors, first half: send a SyncUp and block on the receiver.
SendSync(c) ==
    /\ sync[c] = "none"
    /\ channel' = Append(channel, SyncUp(c))
    /\ sync' = [sync EXCEPT ![c] = "waiting"]
    /\ UNCHANGED <<stage, batch, pending, running, deallocated, destroyed, sent>>

\* synchronize_destructors, second half: `receiver.recv()` returns.
SyncReturns(c) ==
    /\ sync[c] = "answered"
    /\ sync' = [sync EXCEPT ![c] = "none"]
    /\ UNCHANGED <<channel, stage, batch, pending, running, deallocated, destroyed, sent>>

-----------------------------------------------------------------------------
(* The drop thread.                                                        *)

ReceiveData ==
    /\ stage = "recv"
    /\ channel # <<>>
    /\ Head(channel).kind = "data"
    /\ channel' = Tail(channel)
    /\ stage' = "flag"
    /\ batch' = Head(channel).items
    /\ pending' = Head(channel).items
    /\ UNCHANGED <<running, deallocated, destroyed, sync, sent>>

\* First par_iter: one worker sets the flag of one piece of data.
FlagDeallocated(d) ==
    /\ stage = "flag"
    /\ d \in pending
    /\ pending' = pending \ {d}
    /\ deallocated' = deallocated \cup {d}
    /\ UNCHANGED <<channel, stage, batch, running, destroyed, sync, sent>>

\* Mutant: the second par_iter does not wait for the first.
MutantStartDropsEarly ==
    /\ stage = "flag"
    /\ stage' = "drop"
    /\ pending' = batch
    /\ UNCHANGED <<channel, batch, running, deallocated, destroyed, sync, sent>>

\* The first for_each returns only when every flag is set; then the second starts.
StartDrops ==
    /\ stage = "flag"
    /\ pending = {}
    /\ stage' = "drop"
    /\ pending' = batch
    /\ UNCHANGED <<channel, batch, running, deallocated, destroyed, sync, sent>>

\* Mutant: the worker does not take the item out of the work that is left.
MutantStartDeallocateKeeps(d) ==
    /\ stage = "drop"
    /\ d \in pending
    /\ running' = running \cup {d}
    /\ UNCHANGED <<channel, stage, batch, pending, deallocated, destroyed, sync, sent>>

\* Second par_iter: a worker enters `deallocate` for d. Several may be inside at once.
StartDeallocate(d) ==
    /\ stage = "drop"
    /\ d \in pending
    /\ pending' = pending \ {d}
    /\ running' = running \cup {d}
    /\ UNCHANGED <<channel, stage, batch, deallocated, destroyed, sync, sent>>

\* Mutant: without catch_unwind the panic ends the drop thread.
MutantPanicKillsThread(d, panicked) ==
    /\ d \in running
    /\ running' = running \ {d}
    /\ destroyed' = destroyed \cup {d}
    /\ stage' = IF panicked THEN "dead" ELSE stage
    /\ UNCHANGED <<channel, batch, pending, deallocated, sync, sent>>

\* `deallocate` ends: with the memory returned, or with a destructor's panic, which is
\* caught and makes no difference to the thread.
EndDeallocate(d, panicked) ==
    /\ d \in running
    /\ running' = running \ {d}
    /\ panicked \in BOOLEAN
    /\ destroyed' = destroyed \cup {d}
    /\ UNCHANGED <<channel, stage, batch, pending, deallocated, sync, sent>>

\* Mutant: the batch is left while a worker is still inside a destructor.
MutantEndBatchEarly ==
    /\ stage = "drop"
    /\ pending = {}
    /\ stage' = "recv"
    /\ batch' = {}
    /\ UNCHANGED <<channel, pending, running, deallocated, destroyed, sync, sent>>

EndBatch ==
    /\ stage = "drop"
    /\ pending = {}
    /\ running = {}
    /\ stage' = "recv"
    /\ batch' = {}
    /\ UNCHANGED <<channel, pending, running, deallocated, destroyed, sync, sent>>

\* Mutant: only the responder is dropped from the message, and nobody is answered.
MutantForgetResponder ==
    /\ stage = "recv"
    /\ channel # <<>>
    /\ Head(channel).kind = "sync"
    /\ channel' = Tail(channel)
    /\ UNCHANGED <<stage, batch, pending, running, deallocated, destroyed, sync, sent>>

\* A SyncUp is answered when the thread takes it, so after everything before it.
AnswerSync ==
    /\ stage = "recv"
    /\ channel # <<>>
    /\ Head(channel).kind = "sync"
    /\ channel' = Tail(channel)
    /\ sync' = [sync EXCEPT ![Head(channel).from] = "answered"]
    /\ UNCHANGED <<stage, batch, pending, running, deallocated, destroyed, sent>>

\* Everything the drop thread does on its own, destructor bodies excepted.
DropThread ==
    \/ ReceiveData
    \/ \E d \in Data : FlagDeallocated(d)
    \/ StartDrops
    \/ \E d \in Data : StartDeallocate(d)
    \/ EndBatch
    \/ AnswerSync

-----------------------------------------------------------------------------
\* While any destructor of a batch is running or has run, every piece of data of the
\* batch is flagged, so a destructor that reaches into another one of them panics
\* instead of reading freed memory (dropper.rs: "It's important that all data is
\* correctly marked as deallocated before we start").
FlagsBeforeDrops ==
    running \cup (batch \cap destroyed) # {} => batch \subseteq deallocated

\* A destructor runs at most once: what the thread has still to start on is neither
\* running nor done.
DestroyedOnce ==
    /\ running \cap destroyed = {}
    /\ stage = "drop" => pending \cap (running \cup destroyed) = {}

\* Everything sent is eventually destroyed: a panic neither stops the thread nor
\* loses the rest of its batch.
SentEventuallyDestroyed ==
    \A d \in Data : d \in sent ~> d \in destroyed

-----------------------------------------------------------------------------
(* What makes them inductive, if only data that was never sent is sent.    *)

IsData(i) == channel[i].kind = "data"
IsSync(i) == channel[i].kind = "sync"

InChannel(d) == \E i \in DOMAIN channel : IsData(i) /\ d \in channel[i].items

\* Nothing sent is lost on its way to its destructor.
DropperShape ==
    /\ stage = "recv" => batch = {}
    /\ stage # "drop" => running = {}
    /\ stage = "drop" => batch \subseteq pending \cup running \cup destroyed
    /\ \A d \in sent : d \in batch \cup destroyed \/ InChannel(d)

\* Nor is it there twice: it is in one message, or in the batch, or destroyed.
DropperOnce ==
    /\ batch \cup destroyed \subseteq sent
    /\ \A i \in DOMAIN channel : IsData(i) => channel[i].items \subseteq sent \ (batch \cup destroyed)
    /\ \A i, j \in DOMAIN channel : IsData(i) /\ IsData(j) /\ i # j
                           => channel[i].items \cap channel[j].items = {}
    /\ running \cap destroyed = {}
    /\ stage = "flag" => batch \cap destroyed = {} /\ batch \ pending \subseteq deallocated
    /\ stage = "drop" => batch \subseteq deallocated /\ pending \cap (running \cup destroyed) = {}

\* A client has one SyncUp on its way, while it waits.
Requested(c) == \E i \in DOMAIN channel : IsSync(i) /\ channel[i].from = c

SyncsOnce ==
    /\ \A c \in Client : sync[c] = "waiting" => Requested(c)
    /\ \A i \in DOMAIN channel : IsSync(i) => sync[channel[i].from] = "waiting"
    /\ \A i, j \in DOMAIN channel : IsSync(i) /\ IsSync(j) /\ channel[i].from = channel[j].from => i = j

DropperInductive == DropperTypeOK /\ DropperShape /\ DropperOnce /\ SyncsOnce

=============================================================================
