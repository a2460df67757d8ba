----------------------------- MODULE ChunkedList -----------------------------
(***************************************************************************)
(* The ChunkedLinkedList that holds the collector's handles and data       *)
(* (src/concurrency/chunked_ll.rs): a list of chunks of slots with a queue *)
(* of free slots, changed without locks by any number of threads while one *)
(* walk over it, par_iter or par_retain, is in progress (gc_lock keeps     *)
(* walks apart).  Atomic operations are taken to be sequentially           *)
(* consistent.                                                             *)
(*                                                                         *)
(* A chunk's `next` never changes, so a pointer to a chunk is the sequence *)
(* of the chunks from it on.                                               *)
(***************************************************************************)
EXTENDS Integers, Sequences, FiniteSets

CONSTANTS Thread,     \* threads that insert and remove
          Item,       \* what is inserted, each once: an Arc of its own
          ChunkSize,  \* CHUNK_SIZE, 1024 in the code
          MaxChunks,  \* bound on the number of chunks
          Walks,      \* kinds of walk that take place
          Empty       \* what an empty slot holds

ASSUME ChunkAssumption ==
    /\ ChunkSize \in Nat \ {0} /\ MaxChunks \in Nat \ {0}
    /\ IsFiniteSet(Thread) /\ Thread \cap (1 .. MaxChunks) = {}
    /\ Walks \subseteq {"iter", "retain"}
    /\ Empty \notin Item

Chunk  == 1 .. MaxChunks
Index  == 1 .. ChunkSize
Slot   == Chunk \X Index
NoSlot == <<0, 0>>
After(s) == <<s[1], s[2] + 1>>

VARIABLES values,   \* what each slot holds
          free,     \* free_entries, oldest first
          head,     \* the list of chunks
          chunks,   \* chunks that have been in the list
          estimate, \* estimated_len
          pc,       \* what each thread is about to do
          item,     \* the item each thread is inserting
          slot,     \* the slot each thread, or the worker of each chunk, is busy with
          seen,     \* the head each thread has loaded
          walk,     \* "none", "iter" or "retain"
          found,    \* per chunk: what the worker of the walk loaded from its slot
          cllItem,  \* the CLLItem returned for each item: its slot
          gone,     \* history: items taken out
          visits,   \* history: how often the walk has called its function on each item
          present   \* history: items there from the walk's start to now

threadVars == <<pc, item, seen, cllItem>>
walkVars   == <<walk, found, visits>>
vars == <<values, free, head, chunks, estimate, threadVars, slot, walkVars, gone, present>>

\* The thread's own part of the work, and that of the walk's worker in chunk c, go
\* through the same steps of a removal.
Worker == Thread \cup Chunk

TypeOK ==
    /\ values \in [Slot -> Item \cup {Empty}]
    /\ free \in Seq(Slot)
    /\ head \in Seq(Chunk)
    /\ chunks \in Chunk
    /\ estimate \in Int
    /\ pc \in [Worker -> {"idle", "pop", "store", "count", "load", "swap", "push",
                          "visit", "call", "remove", "uncount", "free"}]
    /\ item \in [Thread -> Item \cup {Empty}]
    /\ slot \in [Worker -> Slot \cup {NoSlot}]
    /\ seen \in [Thread -> Seq(Chunk)]
    /\ walk \in {"none", "iter", "retain"}
    /\ found \in [Chunk -> Item \cup {Empty}]
    /\ cllItem \in [Item -> Slot \cup {NoSlot}]
    /\ gone \subseteq Item /\ present \subseteq Item
    /\ visits \in [Item -> Nat]

Init ==
    /\ values = [s \in Slot |-> Empty]
    /\ free = [i \in Index |-> <<1, i>>]
    /\ head = <<1>>
    /\ chunks = 1
    /\ estimate = 0
    /\ pc = [w \in Worker |-> "idle"]
    /\ item = [t \in Thread |-> Empty]
    /\ slot = [w \in Worker |-> NoSlot]
    /\ seen = [t \in Thread |-> <<>>]
    /\ walk = "none"
    /\ found = [c \in Chunk |-> Empty]
    /\ cllItem = [v \in Item |-> NoSlot]
    /\ gone = {} /\ present = {}
    /\ visits = [v \in Item |-> 0]

Goto(w, from, to) == pc[w] = from /\ pc' = [pc EXCEPT ![w] = to]

\* Items in the list, and items whose insert has started.
Stored  == {values[s] : s \in Slot} \ {Empty}
Started == {item[t] : t \in Thread} \cup {v \in Item : cllItem[v] # NoSlot}
-----------------------------------------------------------------------------
(* insert and expand                                                       *)

StartInsert(t, v) ==
    /\ Goto(t, "idle", "pop")
    /\ v \notin Started
    /\ item' = [item EXCEPT ![t] = v]
    /\ UNCHANGED <<values, free, head, chunks, estimate, seen, cllItem, slot, walkVars, gone,
                   present>>

PopFree(t) ==
    /\ \/ /\ free # <<>>
          /\ Goto(t, "pop", "store")
          /\ slot' = [slot EXCEPT ![t] = Head(free)]
          /\ free' = Tail(free)
       \/ /\ free = <<>>
          /\ Goto(t, "pop", "load")
          /\ UNCHANGED <<slot, free>>
    /\ UNCHANGED <<values, head, chunks, estimate, item, seen, cllItem, walkVars, gone, present>>

Store(t) ==
    /\ Goto(t, "store", "count")
    /\ values' = [values EXCEPT ![slot[t]] = item[t]]
    /\ UNCHANGED <<free, head, chunks, estimate, item, seen, cllItem, slot, walkVars, gone,
                   present>>

\* The item is counted, and its CLLItem returned.
CountInsert(t) ==
    /\ Goto(t, "count", "idle")
    /\ estimate' = estimate + 1
    /\ cllItem' = [cllItem EXCEPT ![item[t]] = slot[t]]
    /\ item' = [item EXCEPT ![t] = Empty]
    /\ slot' = [slot EXCEPT ![t] = NoSlot]
    /\ UNCHANGED <<values, free, head, chunks, seen, walkVars, gone, present>>

LoadHead(t) ==
    /\ Goto(t, "load", "swap")
    /\ seen' = [seen EXCEPT ![t] = head]
    /\ UNCHANGED <<values, free, head, chunks, estimate, item, cllItem, slot, walkVars, gone,
                   present>>

\* Mutant: the new chunk is stored as the head whatever the head is now.
MutantStoreHead(t) ==
    /\ chunks < MaxChunks
    /\ Goto(t, "swap", "push")
    /\ chunks' = chunks + 1
    /\ head' = <<chunks + 1>> \o seen[t]
    /\ slot' = [slot EXCEPT ![t] = <<chunks + 1, 1>>]
    /\ seen' = [seen EXCEPT ![t] = <<>>]
    /\ UNCHANGED <<values, free, estimate, item, cllItem, walkVars, gone, present>>

\* Mutant: after a failed exchange the head is not loaded again.
MutantSwapWithoutReload(t) ==
    /\ chunks < MaxChunks
    /\ IF head = seen[t]
       THEN /\ Goto(t, "swap", "push")
            /\ chunks' = chunks + 1
            /\ head' = <<chunks + 1>> \o seen[t]
            /\ slot' = [slot EXCEPT ![t] = <<chunks + 1, 1>>]
       ELSE Goto(t, "swap", "swap") /\ UNCHANGED <<chunks, head, slot>>
    /\ UNCHANGED <<values, free, estimate, item, seen, cllItem, walkVars, gone, present>>

\* A new chunk in front of the head that was loaded becomes the head, or is thrown
\* away because another thread's became it.
SwapHead(t) ==
    /\ chunks < MaxChunks
    /\ IF head = seen[t]
       THEN /\ Goto(t, "swap", "push")
            /\ chunks' = chunks + 1
            /\ head' = <<chunks + 1>> \o seen[t]
            /\ slot' = [slot EXCEPT ![t] = <<chunks + 1, 1>>]
       ELSE Goto(t, "swap", "load") /\ UNCHANGED <<chunks, head, slot>>
    /\ seen' = [seen EXCEPT ![t] = <<>>]
    /\ UNCHANGED <<values, free, estimate, item, cllItem, walkVars, gone, present>>

\* Mutant: the loop that frees the slots runs one too far.
MutantPushSlotBeyond(t) ==
    /\ free' = Append(free, slot[t])
    /\ IF slot[t][2] <= ChunkSize
       THEN /\ Goto(t, "push", "push")
            /\ slot' = [slot EXCEPT ![t] = After(@)]
       ELSE /\ Goto(t, "push", "pop")
            /\ slot' = [slot EXCEPT ![t] = NoSlot]
    /\ UNCHANGED <<values, head, chunks, estimate, item, seen, cllItem, walkVars, gone, present>>

\* The slots of the new chunk become free one by one; then the insertion goes on.
PushSlot(t) ==
    /\ free' = Append(free, slot[t])
    /\ IF slot[t][2] < ChunkSize
       THEN /\ Goto(t, "push", "push")
            /\ slot' = [slot EXCEPT ![t] = After(@)]
       ELSE /\ Goto(t, "push", "pop")
            /\ slot' = [slot EXCEPT ![t] = NoSlot]
    /\ UNCHANGED <<values, head, chunks, estimate, item, seen, cllItem, walkVars, gone, present>>

-----------------------------------------------------------------------------
(* remove; par_retain takes items out by the same three steps.             *)

\* Mutant: the slot is cleared whatever it holds by now.
MutantClear(w, s, v) ==
    /\ values' = [values EXCEPT ![s] = Empty]
    /\ slot' = [slot EXCEPT ![w] = s]
    /\ gone' = gone \cup {v}
    /\ present' = present \ {v}

\* compare_and_swap of a slot that still holds v with nothing, by w.
Clear(w, s, v) ==
    /\ values[s] = v
    /\ values' = [values EXCEPT ![s] = Empty]
    /\ slot' = [slot EXCEPT ![w] = s]
    /\ gone' = gone \cup {v}
    /\ present' = present \ {v}

\* Mutant: the outcome of the compare_and_swap is not looked at.
MutantRemoveUnchecked(t, v) ==
    /\ Goto(t, "idle", "uncount")
    /\ cllItem[v] # NoSlot
    /\ slot' = [slot EXCEPT ![t] = cllItem[v]]
    /\ values' = [values EXCEPT ![cllItem[v]] = IF @ = v THEN Empty ELSE @]
    /\ gone' = gone \cup {v}
    /\ present' = present \ {v}
    /\ UNCHANGED <<free, head, chunks, estimate, item, seen, cllItem, walkVars>>

\* remove with a CLLItem, which its owner may still use when the item is out of the
\* list (handles are invalidated in finalization and again in Drop): then the slot
\* holds something else by now, and nothing happens.
Remove(t, v) ==
    /\ Goto(t, "idle", "uncount")
    /\ cllItem[v] # NoSlot
    /\ Clear(t, cllItem[v], v)
    /\ UNCHANGED <<free, head, chunks, estimate, item, seen, cllItem, walkVars>>

Uncount(w) ==
    /\ Goto(w, "uncount", "free")
    /\ estimate' = estimate - 1
    /\ UNCHANGED <<values, free, head, chunks, item, seen, cllItem, slot, walkVars, gone, present>>

FreeRemoved(t) ==
    /\ Goto(t, "free", "idle")
    /\ free' = Append(free, slot[t])
    /\ slot' = [slot EXCEPT ![t] = NoSlot]
    /\ UNCHANGED <<values, head, chunks, estimate, item, seen, cllItem, walkVars, gone, present>>

-----------------------------------------------------------------------------
(* par_iter and par_retain: rayon::join runs a worker per chunk of the list *)
(* the head was loaded from.                                                *)

InList(c) == \E i \in DOMAIN head : head[i] = c

StartWalk(kind) ==
    /\ walk = "none"
    /\ walk' = kind
    /\ pc' = [w \in Worker |-> IF w \in Chunk /\ InList(w) THEN "visit" ELSE pc[w]]
    /\ slot' = [w \in Worker |-> IF w \in Chunk /\ InList(w) THEN <<w, 1>> ELSE slot[w]]
    /\ visits' = [v \in Item |-> 0]
    /\ present' = Stored
    /\ UNCHANGED <<values, free, head, chunks, estimate, item, seen, cllItem, found, gone>>

\* The worker goes on to the next slot of its chunk.
NextSlot(c) ==
    IF slot[c][2] < ChunkSize
    THEN slot' = [slot EXCEPT ![c] = After(@)] /\ pc' = [pc EXCEPT ![c] = "visit"]
    ELSE slot' = [slot EXCEPT ![c] = NoSlot] /\ pc' = [pc EXCEPT ![c] = "idle"]

\* It loads the slot,
LoadSlot(c) ==
    /\ pc[c] = "visit"
    /\ IF values[slot[c]] = Empty
       THEN NextSlot(c) /\ UNCHANGED found
       ELSE /\ pc' = [pc EXCEPT ![c] = "call"]
            /\ found' = [found EXCEPT ![c] = values[slot[c]]]
            /\ UNCHANGED slot
    /\ UNCHANGED <<values, free, head, chunks, estimate, item, seen, cllItem, walk, visits, gone,
                   present>>

\* and calls the function on what it loaded, whether or not that is still in the slot.
Visit(c) == visits' = [visits EXCEPT ![found[c]] = @ + 1]

VisitSlot(c) ==
    /\ pc[c] = "call"
    /\ Visit(c)
    /\ NextSlot(c)
    /\ found' = [found EXCEPT ![c] = Empty]
    /\ UNCHANGED <<values, free, head, chunks, estimate, item, seen, cllItem, walk, gone,
                   present>>

\* par_retain's function refuses the item.  do_collect refuses only data that its scan
\* has seen and nobody holds a handle to: the insertion of that data is long complete.
RefuseSlot(c) ==
    /\ walk = "retain"
    /\ Goto(c, "call", "remove")
    /\ cllItem[found[c]] # NoSlot
    /\ Visit(c)
    /\ UNCHANGED <<values, free, head, chunks, estimate, item, seen, cllItem, slot, walk, found,
                   gone, present>>

\* The refused item is taken out, unless somebody else has done it.
RemoveRefused(c) ==
    /\ pc[c] = "remove"
    /\ \/ Clear(c, slot[c], found[c]) /\ pc' = [pc EXCEPT ![c] = "uncount"]
       \/ values[slot[c]] # found[c] /\ NextSlot(c) /\ UNCHANGED <<values, gone, present>>
    /\ found' = [found EXCEPT ![c] = Empty]
    /\ UNCHANGED <<free, head, chunks, estimate, item, seen, cllItem, walk, visits>>

FreeRefused(c) ==
    /\ pc[c] = "free"
    /\ free' = Append(free, slot[c])
    /\ NextSlot(c)
    /\ UNCHANGED <<values, head, chunks, estimate, item, seen, cllItem, walkVars, gone, present>>

WalkOver == walk # "none" /\ \A c \in Chunk : pc[c] = "idle"

EndWalk ==
    /\ WalkOver
    /\ walk' = "none"
    /\ visits' = [v \in Item |-> 0]
    /\ present' = {}
    /\ UNCHANGED <<values, free, head, chunks, estimate, threadVars, slot, found, gone>>

-----------------------------------------------------------------------------
InInsert(t) ==
    PopFree(t) \/ Store(t) \/ CountInsert(t) \/ LoadHead(t) \/ SwapHead(t) \/ PushSlot(t)

InRemove(t) == Uncount(t) \/ FreeRemoved(t)

InWalk(c) ==
    \/ LoadSlot(c) \/ VisitSlot(c) \/ RefuseSlot(c)
    \/ RemoveRefused(c) \/ Uncount(c) \/ FreeRefused(c)

Next ==
    \/ \E t \in Thread : \/ InInsert(t) \/ InRemove(t)
                         \/ \E v \in Item : StartInsert(t, v) \/ Remove(t, v)
    \/ \E c \in Chunk : InWalk(c)
    \/ \E kind \in Walks : StartWalk(kind)
    \/ EndWalk

Spec == Init /\ [][Next]_vars

\* Threads inside a call are runnable; nothing makes a thread start one.
FairSpec == Spec /\ \A t \in Thread : WF_vars(InInsert(t) \/ InRemove(t))

-----------------------------------------------------------------------------
\* How often a slot is in the free queue, holds something, or is in the hands of a
\* worker: popped and not yet stored to, or cleared and not yet pushed, or still to be
\* pushed by an expansion.
TimesFree(s) == Cardinality({i \in DOMAIN free : free[i] = s})
Takes(w) == pc[w] \in {"store", "uncount", "free"}
Pushes(t, s) == pc[t] = "push" /\ slot[t][1] = s[1] /\ slot[t][2] <= s[2]
Busy(s) ==
    \/ \E w \in Worker : Takes(w) /\ slot[w] = s
    \/ \E t \in Thread : Pushes(t, s)
One(p) == IF p THEN 1 ELSE 0

\* Every slot of every chunk in the list is exactly one of these, once: no slot is lost,
\* and none is given to two insertions (chunked_ll.rs, insert: "We know the slot is
\* free because it's in the free list").
SlotsConserved ==
    \A s \in Slot : TimesFree(s) + One(values[s] # Empty) + One(Busy(s)) = One(InList(s[1]))

\* An item whose insertion has returned is in its slot until it is taken out, by its own
\* removal and nobody else's.
NoItemLost == \A v \in Item : cllItem[v] # NoSlot /\ v \notin gone => values[cllItem[v]] = v

\* An insertion takes effect when its slot is written, a removal when it is cleared; a walk
\* calls its function exactly once on every item that is in the list from its start to its
\* end, and at most once on any other, which was in the list when its slot was loaded but
\* may have been taken out by the time of the call.
Loaded  == {found[c] : c \in {d \in Chunk : pc[d] = "call"}}
Promise == INSTANCE Enumeration
               WITH members <- Stored, walking <- walk # "none", loaded <- Loaded
ImplementsEnumeration == Promise!EnumerationSpec

\* estimated_len is off by the insertions and removals in progress, no more, and never
\* wraps below zero.
EstimateExact ==
    /\ estimate + Cardinality({t \in Thread : pc[t] = "count"})
         = Cardinality(Stored) + Cardinality({w \in Worker : pc[w] = "uncount"})
    /\ estimate >= 0

\* A call returns, whatever the other threads do: an expansion that loses the race for
\* the head finds the winner's slots or tries again.
CallsReturn == \A t \in Thread : pc[t] # "idle" ~> pc[t] = "idle"

-----------------------------------------------------------------------------
(* What makes SlotsConserved and NoItemLost inductive.                     *)

Inserting == {"pop", "store", "count", "load", "swap", "push"}

\* Threads insert and remove, workers of a walk visit and remove.
PcShape ==
    /\ \A t \in Thread : /\ pc[t] \notin {"visit", "call", "remove"}
                         /\ pc[t] \in Inserting <=> item[t] # Empty
    /\ \A c \in Chunk : /\ pc[c] \in {"idle", "visit", "call", "remove", "uncount", "free"}
                        /\ walk = "none" => pc[c] = "idle"
                        /\ pc[c] \in {"call", "remove"} => found[c] \in Item
                        /\ pc[c] = "remove" => cllItem[found[c]] # NoSlot
    /\ \A w \in Worker : pc[w] \notin {"idle", "pop", "load", "swap"} => slot[w] \in Slot

\* Chunks enter the list in the order of their numbers, and stay.
ListShape == \A c \in Chunk : InList(c) <=> c <= chunks

\* An item is being inserted by one thread, once, and not refused before that returns.
ItemShape ==
    \A t \in Thread :
        /\ item[t] # Empty => /\ cllItem[item[t]] = NoSlot
                             /\ \A u \in Thread : u # t => item[u] # item[t]
        /\ pc[t] = "count" => values[slot[t]] = item[t]

IsFree(s) == \E i \in DOMAIN free : free[i] = s

\* A slot of the list is free, busy or filled, and just one of these,
SlotShape ==
    \A s \in Slot :
        /\ IsFree(s) => values[s] = Empty /\ ~Busy(s)
        /\ Busy(s) => values[s] = Empty
        /\ s[1] <= chunks <=> IsFree(s) \/ Busy(s) \/ values[s] # Empty

\* and that once, for one worker.
SlotOnce ==
    /\ \A i, j \in DOMAIN free : free[i] = free[j] => i = j
    /\ \A w, x \in Worker : Takes(w) /\ Takes(x) /\ slot[w] = slot[x] => w = x
    /\ \A t \in Thread, w \in Worker : Takes(w) => ~Pushes(t, slot[w])
    /\ \A t, u \in Thread : pc[t] = "push" /\ pc[u] = "push" /\ slot[t][1] = slot[u][1] => t = u

ListInductive ==
    TypeOK /\ PcShape /\ ListShape /\ ItemShape /\ SlotShape /\ SlotOnce /\ NoItemLost

-----------------------------------------------------------------------------
(* What makes every step of a walk one that Enumeration allows.            *)

\* The walk is done with a slot: its worker is beyond it, or has called the function on it.
Passed(s) ==
    \/ pc[s[1]] = "idle"
    \/ slot[s[1]][2] > s[2]
    \/ slot[s[1]][2] = s[2] /\ pc[s[1]] \notin {"visit", "call"}

\* v has been put in s, by its one insertion.
PutIn(v, s) ==
    \/ cllItem[v] = s
    \/ \E t \in Thread : item[t] = v /\ pc[t] = "count" /\ slot[t] = s

\* What is in a slot was put there.
PlaceShape ==
    /\ \A s \in Slot : values[s] # Empty => values[s] \notin gone /\ PutIn(values[s], s)
    /\ \A v \in gone : cllItem[v] # NoSlot

VisitShape ==
    /\ \A c \in Chunk : pc[c] # "idle" => slot[c][1] = c
    /\ walk = "none" => present = {} /\ \A v \in Item : visits[v] = 0
    /\ \A v \in Item : /\ visits[v] <= 1
                       /\ visits[v] = 1 => v \in gone \/ \E s \in Slot : values[s] = v /\ Passed(s)
    /\ \A v \in present : \E s \in Slot : values[s] = v /\ (Passed(s) => visits[v] = 1)

\* What a worker is about to call the function on was put in its slot and has not been
\* visited.  It may have left the slot since it was loaded, but then the slot holds nothing
\* that was there all along.
CallShape ==
    \A c \in Chunk : pc[c] = "call" =>
        /\ PutIn(found[c], slot[c])
        /\ visits[found[c]] = 0
        /\ values[slot[c]] = found[c] \/ found[c] \in gone
        /\ values[slot[c]] \in present => values[slot[c]] = found[c]

WalksInductive == ListInductive /\ PlaceShape /\ VisitShape /\ CallShape

=============================================================================
