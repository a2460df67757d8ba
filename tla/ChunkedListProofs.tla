-------------------------- MODULE ChunkedListProofs --------------------------
(* Proofs about ChunkedList, for any number of threads, items and chunks and any chunk  *)
(* size: no slot is lost or given away twice, no item is lost, the estimated length is    *)
(* exact but for the calls in progress, and the list implements Enumeration: every walk  *)
(* calls its function once on every item that is there from its start to its end.        *)
EXTENDS ChunkedList, FiniteSetTheorems, TLAPS

FreeOnce == \A i, j \in DOMAIN free : free[i] = free[j] => i = j

LEMMA FreeAppended ==
    ASSUME free \in Seq(Slot), NEW s \in Slot, free' = Append(free, s)
    PROVE  /\ free' \in Seq(Slot)
           /\ \A x : IsFree(x)' <=> IsFree(x) \/ x = s
           /\ FreeOnce /\ ~IsFree(s) => FreeOnce'
<1>1. /\ free' \in Seq(Slot) /\ Len(free) \in Nat /\ Len(free') = Len(free) + 1
      /\ DOMAIN free = 1 .. Len(free) /\ DOMAIN free' = 1 .. Len(free')
      /\ \A i \in DOMAIN free : i \in DOMAIN free' /\ free'[i] = free[i]
      /\ \A i \in DOMAIN free' : i \notin DOMAIN free => i = Len(free')
      /\ free'[Len(free')] = s /\ Len(free') \in DOMAIN free'
  OBVIOUS
<1> QED
  BY <1>1 DEF IsFree, FreeOnce

LEMMA FreePopped ==
    ASSUME free \in Seq(Slot), free # <<>>, free' = Tail(free), FreeOnce
    PROVE  /\ free' \in Seq(Slot)
           /\ Head(free) \in Slot /\ IsFree(Head(free))
           /\ \A x : IsFree(x)' <=> IsFree(x) /\ x # Head(free)
           /\ FreeOnce'
<1>1. /\ free' \in Seq(Slot) /\ Head(free) \in Slot /\ Head(free) = free[1]
      /\ Len(free) \in Nat \ {0} /\ Len(free') = Len(free) - 1
      /\ DOMAIN free = 1 .. Len(free) /\ DOMAIN free' = 1 .. Len(free')
      /\ \A i \in DOMAIN free' : i + 1 \in DOMAIN free /\ free'[i] = free[i + 1]
      /\ \A i \in DOMAIN free : i # 1 => i - 1 \in DOMAIN free' /\ free'[i - 1] = free[i]
      /\ 1 \in DOMAIN free
  OBVIOUS
<1>2. \A i \in DOMAIN free' : i + 1 # 1
  BY <1>1
<1>3. \A i, j \in DOMAIN free' : i + 1 = j + 1 => i = j
  BY <1>1
<1>4. FreeOnce'
  BY <1>1, <1>3 DEF FreeOnce
<1>5. ASSUME NEW x, IsFree(x)' PROVE IsFree(x) /\ x # Head(free)
  BY <1>1, <1>2, <1>5 DEF IsFree, FreeOnce
<1>6. ASSUME NEW x, IsFree(x), x # Head(free) PROVE IsFree(x)'
  BY <1>1, <1>6 DEF IsFree
<1> QED
  BY <1>1, <1>4, <1>5, <1>6 DEF IsFree

LEMMA Slots ==
    /\ \A s \in Slot : s[1] \in Chunk /\ s[2] \in Index
    /\ \A r, s \in Slot : r[1] = s[1] /\ r[2] = s[2] => r = s
    /\ \A s \in Slot : s[2] < ChunkSize =>
           After(s) \in Slot /\ After(s)[1] = s[1] /\ After(s)[2] = s[2] + 1
    /\ \A c \in Chunk : <<c, 1>> \in Slot
BY ChunkAssumption DEF ChunkAssumption, Slot, Chunk, Index, After

LEMMA Workers == Thread \subseteq Worker /\ Chunk \subseteq Worker /\ Thread \cap Chunk = {}
BY ChunkAssumption DEF ChunkAssumption, Worker, Chunk

\* Everyone but w is where it was, with the slot it had.
Others(w) == \A x \in Worker \ {w} : pc'[x] = pc[x] /\ slot'[x] = slot[x]

LEMMA Step ==
    ASSUME TypeOK, NEW w \in Worker, NEW from, NEW to, Goto(w, from, to)
    PROVE  pc[w] = from /\ pc'[w] = to /\ \A x \in Worker \ {w} : pc'[x] = pc[x]
BY DEF Goto, TypeOK

-----------------------------------------------------------------------------
(* What the steps of an insertion, a removal and a walk do to the slots.   *)

\* Nothing.
LEMMA SlotsKept ==
    ASSUME ListInductive, UNCHANGED <<values, free, chunks>>,
           \A w \in Worker : /\ Takes(w)' <=> Takes(w)
                             /\ Takes(w) => slot'[w] = slot[w],
           \A t \in Thread : /\ pc'[t] = "push" <=> pc[t] = "push"
                             /\ pc[t] = "push" => slot'[t] = slot[t]
    PROVE  SlotShape' /\ SlotOnce'
<1>1. \A t \in Thread, s \in Slot : Pushes(t, s)' <=> Pushes(t, s)
  BY DEF Pushes
<1>2. \A s \in Slot : (Busy(s)' <=> Busy(s)) /\ (IsFree(s)' <=> IsFree(s))
  BY <1>1 DEF Busy, IsFree
<1>3. SlotShape'
  BY <1>2 DEF ListInductive, SlotShape
<1>4. SlotOnce'
  BY DEF ListInductive, SlotOnce, Pushes
<1> QED
  BY <1>3, <1>4

\* The slot w has goes back to the queue.
LEMMA SlotFreed ==
    ASSUME ListInductive, NEW w \in Worker, pc[w] = "free", NEW s \in Slot,
           slot[w] = s, free' = Append(free, s), Others(w), UNCHANGED <<values, chunks>>,
           pc'[w] \in {"idle", "visit"}
    PROVE  SlotShape' /\ SlotOnce' /\ free' \in Seq(Slot)
<1>1. /\ Takes(w) /\ ~Takes(w)'
      /\ \A x \in Worker \ {w} : (Takes(x)' <=> Takes(x)) /\ slot'[x] = slot[x]
      /\ \A t \in Thread : \A r : Pushes(t, r)' <=> Pushes(t, r)
  BY Workers DEF Takes, Pushes, Others
<1>2. Busy(s) /\ ~IsFree(s) /\ values[s] = Empty
  BY <1>1 DEF Busy, ListInductive, SlotShape
<1>3. /\ free' \in Seq(Slot) /\ FreeOnce'
      /\ \A x : IsFree(x)' <=> IsFree(x) \/ x = s
  BY <1>2, FreeAppended DEF ListInductive, TypeOK, SlotOnce, FreeOnce
<1>4. \A r \in Slot : r # s => (Busy(r)' <=> Busy(r))
  BY <1>1 DEF Busy
<1>5. ~Busy(s)'
  BY <1>1 DEF Busy, ListInductive, SlotOnce
<1>6. SlotShape'
  BY <1>2, <1>3, <1>4, <1>5 DEF ListInductive, SlotShape
<1>7. SlotOnce'
  <2>1. /\ \A x, y \in Worker : Takes(x)' /\ Takes(y)' /\ slot'[x] = slot'[y] => x = y
        /\ \A t \in Thread, x \in Worker : Takes(x)' => ~Pushes(t, slot'[x])
    BY <1>1 DEF ListInductive, SlotOnce
  <2>2. \A t, u \in Thread : pc'[t] = "push" /\ pc'[u] = "push" /\ slot'[t][1] = slot'[u][1]
                             => t = u
    BY Workers DEF ListInductive, SlotOnce, Others
  <2> QED
    BY <1>1, <1>3, <2>1, <2>2 DEF SlotOnce, FreeOnce, Pushes
<1> QED
  BY <1>3, <1>6, <1>7

\* w clears a slot and has it now.
LEMMA SlotCleared ==
    ASSUME ListInductive, NEW w \in Worker, ~Takes(w), pc[w] # "push", NEW s \in Slot,
           NEW v \in Item, values[s] = v, values' = [values EXCEPT ![s] = Empty],
           pc'[w] = "uncount", slot'[w] = s, Others(w), UNCHANGED <<free, chunks>>
    PROVE  SlotShape' /\ SlotOnce'
<1>1. /\ Takes(w)'
      /\ \A x \in Worker \ {w} : (Takes(x)' <=> Takes(x)) /\ slot'[x] = slot[x]
      /\ \A t \in Thread : \A r : Pushes(t, r)' <=> Pushes(t, r)
      /\ \A t \in Thread : pc'[t] = "push" <=> pc[t] = "push"
      /\ \A t \in Thread : pc[t] = "push" => slot'[t] = slot[t]
  BY Workers DEF Takes, Pushes, Others
<1>2. s[1] <= chunks /\ ~Busy(s) /\ ~IsFree(s)
  BY ChunkAssumption DEF ListInductive, SlotShape, ChunkAssumption
<1>3. /\ \A r \in Slot : r # s => (Busy(r)' <=> Busy(r)) /\ values'[r] = values[r]
      /\ Busy(s)' /\ values'[s] = Empty
      /\ \A r \in Slot : IsFree(r)' <=> IsFree(r)
  BY <1>1 DEF Busy, IsFree, ListInductive, TypeOK
<1>4. SlotShape'
  BY <1>2, <1>3 DEF ListInductive, SlotShape
<1>5. \A x \in Worker : Takes(x) => slot[x] # s
  BY <1>2 DEF Busy
<1>6. \A t \in Thread : ~Pushes(t, s)
  BY <1>2 DEF Busy
<1>7. SlotOnce'
  <2>1. /\ \A x, y \in Worker : Takes(x)' /\ Takes(y)' /\ slot'[x] = slot'[y] => x = y
        /\ \A t \in Thread, x \in Worker : Takes(x)' => ~Pushes(t, slot'[x])
    BY <1>1, <1>5, <1>6 DEF ListInductive, SlotOnce
  <2>2. \A t, u \in Thread : pc'[t] = "push" /\ pc'[u] = "push" /\ slot'[t][1] = slot'[u][1]
                             => t = u
    BY <1>1 DEF ListInductive, SlotOnce
  <2> QED
    BY <1>1, <2>1, <2>2 DEF ListInductive, SlotOnce, Pushes
<1> QED
  BY <1>4, <1>7

LEMMA NextSlotStep ==
    ASSUME TypeOK, NEW c \in Chunk, slot[c] \in Slot, NextSlot(c)
    PROVE  /\ pc'[c] \in {"idle", "visit"} /\ Others(c)
           /\ pc'[c] = "visit" => slot'[c] \in Slot
           /\ pc' \in [Worker -> {"idle", "pop", "store", "count", "load", "swap", "push",
                                 "visit", "call", "remove", "uncount", "free"}]
           /\ slot' \in [Worker -> Slot \cup {NoSlot}]
<1>1. c \in Worker
  BY Workers
<1>2. CASE slot[c][2] < ChunkSize
  <2>1. After(slot[c]) \in Slot
    BY <1>2, Slots
  <2>2. slot' = [slot EXCEPT ![c] = After(slot[c])] /\ pc' = [pc EXCEPT ![c] = "visit"]
    BY <1>2 DEF NextSlot
  <2> QED
    BY <1>1, <2>1, <2>2 DEF TypeOK, Others
<1>3. CASE ~(slot[c][2] < ChunkSize)
  BY <1>1, <1>3 DEF NextSlot, TypeOK, Others
<1> QED
  BY <1>2, <1>3

-----------------------------------------------------------------------------
(* Insertions.                                                             *)

LEMMA InitInductive == Init => ListInductive
<1> SUFFICES ASSUME Init PROVE ListInductive
  OBVIOUS
<1> USE ChunkAssumption DEF ChunkAssumption
<1>1. /\ 1 \in Chunk /\ DOMAIN free = Index /\ \A i \in Index : free[i] = <<1, i>>
      /\ free \in Seq(Slot) /\ head \in Seq(Chunk) /\ DOMAIN head = {1} /\ head[1] = 1
  <2>1. 1 \in Chunk /\ \A i \in Index : <<1, i>> \in Slot
    BY DEF Chunk, Slot
  <2>2. free \in [1 .. ChunkSize -> Slot]
    BY <2>1 DEF Init, Index
  <2>3. free \in Seq(Slot)
    BY <2>2
  <2> QED
    BY <2>1, <2>3 DEF Init, Index
<1>2. TypeOK
  BY <1>1 DEF Init, TypeOK
<1>3. PcShape /\ ListShape /\ ItemShape /\ NoItemLost
  BY <1>1, Workers DEF Init, PcShape, Inserting, ListShape, InList, ItemShape, NoItemLost, Chunk
<1>4. \A s \in Slot : ~Busy(s) /\ values[s] = Empty /\ (IsFree(s) <=> s[1] <= chunks)
  <2>1. \A s \in Slot : ~Busy(s) /\ values[s] = Empty
    BY Workers DEF Init, Busy, Takes, Pushes
  <2>2. \A s \in Slot : IsFree(s) <=> s[1] <= 1
    <3>1. \A i \in Index : <<1, i>>[1] = 1 /\ <<1, i>>[2] = i /\ <<1, i>> \in Slot
      BY <1>1 DEF Slot
    <3>2. ASSUME NEW s \in Slot, s[1] <= 1 PROVE IsFree(s)
      <4>1. s[1] = 1 /\ s[2] \in Index
        BY <3>2, Slots DEF Chunk
      <4>2. s = <<1, s[2]>>
        BY <3>1, <4>1, Slots
      <4> QED
        BY <1>1, <4>1, <4>2 DEF IsFree
    <3> QED
      BY <1>1, <3>1, <3>2 DEF IsFree
  <2> QED
    BY <2>1, <2>2 DEF Init
<1>5. SlotShape
  BY <1>4 DEF SlotShape
<1>6. SlotOnce
  BY <1>1, Workers DEF Init, SlotOnce, Takes, Pushes
<1> QED
  BY <1>2, <1>3, <1>5, <1>6 DEF ListInductive

\* An item that nobody inserts yet.
LEMMA StartInsertInductive ==
    ASSUME ListInductive, NEW t \in Thread, NEW v \in Item, StartInsert(t, v)
    PROVE  ListInductive'
<1>1. /\ TypeOK /\ t \in Worker /\ pc[t] = "idle" /\ pc'[t] = "pop"
      /\ \A x \in Worker \ {t} : pc'[x] = pc[x]
      /\ cllItem[v] = NoSlot /\ \A u \in Thread : item[u] # v
      /\ item' = [item EXCEPT ![t] = v]
      /\ UNCHANGED <<values, free, head, chunks, estimate, seen, cllItem, slot, walk, found,
                     visits, gone, present>>
  BY Workers, Step DEF StartInsert, ListInductive, Started, walkVars
<1>2. TypeOK'
  BY <1>1 DEF TypeOK, StartInsert, Goto
<1>3. PcShape'
  BY <1>1, Workers, ChunkAssumption DEF ListInductive, PcShape, Inserting, TypeOK, ChunkAssumption
<1>4. ListShape' /\ NoItemLost'
  BY <1>1 DEF ListInductive, ListShape, InList, NoItemLost
<1>5. ItemShape'
  BY <1>1, Workers DEF ListInductive, ItemShape, TypeOK
<1>6. SlotShape' /\ SlotOnce'
  BY <1>1, Workers, SlotsKept DEF Takes
<1> QED
  BY <1>2, <1>3, <1>4, <1>5, <1>6 DEF ListInductive

\* The slot at the head of the queue is the thread's now.
LEMMA PopFreeInductive ==
    ASSUME ListInductive, NEW t \in Thread, PopFree(t)
    PROVE  ListInductive'
<1>1. /\ TypeOK /\ t \in Worker /\ pc[t] = "pop" /\ item[t] # Empty
      /\ \A x \in Worker \ {t} : pc'[x] = pc[x]
      /\ UNCHANGED <<values, head, chunks, estimate, item, seen, cllItem, walk, found,
                     visits, gone, present>>
  BY Workers, Step DEF PopFree, ListInductive, PcShape, Inserting, walkVars
<1>2. ListShape' /\ NoItemLost'
  BY <1>1 DEF ListInductive, ListShape, InList, NoItemLost
<1>3. CASE free # <<>> /\ Goto(t, "pop", "store")
  <2>1. /\ pc'[t] = "store" /\ slot' = [slot EXCEPT ![t] = Head(free)] /\ free' = Tail(free)
        /\ Others(t) /\ slot'[t] = Head(free)
    BY <1>1, <1>3, Step DEF PopFree, Others, TypeOK, Goto
  <2>2. PICK s \in Slot : /\ s = Head(free) /\ free' \in Seq(Slot) /\ IsFree(s) /\ FreeOnce'
                         /\ \A x : IsFree(x)' <=> IsFree(x) /\ x # s
    BY <1>3, <2>1, FreePopped DEF ListInductive, TypeOK, SlotOnce, FreeOnce
  <2>3. TypeOK'
    BY <1>1, <1>3, <2>1, <2>2 DEF TypeOK, Goto
  <2>4. PcShape'
    BY <1>1, <2>1, <2>2, Workers DEF ListInductive, PcShape, Inserting, Others
  <2>5. ItemShape'
    BY <1>1, <2>1, Workers DEF ListInductive, ItemShape, Others
  <2>6. /\ Takes(t)' /\ ~Takes(t) /\ slot'[t] = s
        /\ \A x \in Worker \ {t} : (Takes(x)' <=> Takes(x)) /\ slot'[x] = slot[x]
        /\ \A u \in Thread : \A r : Pushes(u, r)' <=> Pushes(u, r)
        /\ \A u \in Thread : pc'[u] = "push" <=> pc[u] = "push"
        /\ \A u \in Thread : pc[u] = "push" => slot'[u] = slot[u]
    BY <1>1, <2>1, <2>2, Workers DEF Takes, Pushes, Others
  <2>7. ~Busy(s) /\ values[s] = Empty
    BY <2>2 DEF ListInductive, SlotShape
  <2>8. Busy(s)' /\ \A r \in Slot : r # s => (Busy(r)' <=> Busy(r))
    BY <1>1, <2>6 DEF Busy
  <2>9. SlotShape'
    BY <1>1, <2>2, <2>7, <2>8 DEF ListInductive, SlotShape
  <2>10. (\A x \in Worker : Takes(x) => slot[x] # s) /\ \A u \in Thread : ~Pushes(u, s)
    BY <2>7 DEF Busy
  <2>11. SlotOnce'
    <3>1. /\ \A x, y \in Worker : Takes(x)' /\ Takes(y)' /\ slot'[x] = slot'[y] => x = y
          /\ \A u \in Thread, x \in Worker : Takes(x)' => ~Pushes(u, slot'[x])
      BY <2>6, <2>10 DEF ListInductive, SlotOnce
    <3>2. \A u, x \in Thread : pc'[u] = "push" /\ pc'[x] = "push" /\ slot'[u][1] = slot'[x][1]
                               => u = x
      BY <2>6 DEF ListInductive, SlotOnce
    <3> QED
      BY <2>2, <2>6, <3>1, <3>2 DEF SlotOnce, FreeOnce, Pushes
  <2> QED
    BY <1>2, <2>3, <2>4, <2>5, <2>9, <2>11 DEF ListInductive
<1>4. CASE Goto(t, "pop", "load") /\ UNCHANGED <<slot, free>>
  <2>1. pc'[t] = "load"
    BY <1>1, <1>4, Step
  <2>2. TypeOK'
    BY <1>1, <1>4 DEF TypeOK, Goto
  <2>3. PcShape'
    BY <1>1, <1>4, <2>1, Workers DEF ListInductive, PcShape, Inserting
  <2>4. ItemShape'
    BY <1>1, <1>4, <2>1, Workers DEF ListInductive, ItemShape
  <2>5. SlotShape' /\ SlotOnce'
    BY <1>1, <1>4, <2>1, Workers, SlotsKept DEF Takes
  <2> QED
    BY <1>2, <2>2, <2>3, <2>4, <2>5 DEF ListInductive
<1> QED
  BY <1>3, <1>4 DEF PopFree

\* The item is where nothing was.
LEMMA StoreInductive ==
    ASSUME ListInductive, NEW t \in Thread, Store(t)
    PROVE  ListInductive'
<1>1. /\ TypeOK /\ t \in Worker /\ pc[t] = "store" /\ pc'[t] = "count" /\ item[t] # Empty
      /\ slot[t] \in Slot /\ item[t] \in Item /\ cllItem[item[t]] = NoSlot
      /\ \A x \in Worker \ {t} : pc'[x] = pc[x]
      /\ values' = [values EXCEPT ![slot[t]] = item[t]]
      /\ UNCHANGED <<free, head, chunks, estimate, item, seen, cllItem, slot, walk, found,
                     visits, gone, present>>
  BY Workers, Step DEF Store, ListInductive, PcShape, ItemShape, Inserting, walkVars, TypeOK
<1>2. PICK s \in Slot : s = slot[t]
  BY <1>1
<1>3. /\ Takes(t) /\ ~Takes(t)'
      /\ \A x \in Worker \ {t} : Takes(x)' <=> Takes(x)
      /\ \A u \in Thread : \A r : Pushes(u, r)' <=> Pushes(u, r)
      /\ \A r \in Slot : IsFree(r)' <=> IsFree(r)
  BY <1>1, Workers DEF Takes, Pushes, IsFree
<1>4. Busy(s) /\ ~IsFree(s) /\ values[s] = Empty
  BY <1>1, <1>2, <1>3 DEF Busy, ListInductive, SlotShape
<1>5. ~Busy(s)' /\ \A r \in Slot : r # s => (Busy(r)' <=> Busy(r))
  <2>1. ~Busy(s)'
    BY <1>1, <1>2, <1>3 DEF Busy, ListInductive, SlotOnce
  <2>2. \A r \in Slot : r # s => (Busy(r)' <=> Busy(r))
    BY <1>1, <1>2, <1>3 DEF Busy
  <2> QED
    BY <2>1, <2>2
<1>6. values'[s] = item[t] /\ \A r \in Slot : r # s => values'[r] = values[r]
  BY <1>1, <1>2 DEF TypeOK
<1>7. TypeOK'
  BY <1>1 DEF TypeOK, Store, Goto
<1>8. PcShape'
  BY <1>1, Workers DEF ListInductive, PcShape, Inserting
<1>9. ListShape' /\ NoItemLost'
  BY <1>1, <1>4, <1>6, ChunkAssumption
     DEF ListInductive, ListShape, InList, NoItemLost, TypeOK, ChunkAssumption
<1>10. ItemShape'
  <2>1. ASSUME NEW u \in Thread, pc'[u] = "count" PROVE values'[slot'[u]] = item'[u]
    <3>1. CASE u = t
      BY <1>1, <1>2, <1>6, <3>1
    <3>2. CASE u # t
      <4>1. pc[u] = "count" /\ slot[u] \in Slot /\ item[u] # Empty /\ values[slot[u]] = item[u]
        BY <1>1, <2>1, <3>2, Workers DEF ListInductive, PcShape, ItemShape, Inserting
      <4> QED
        BY <1>1, <1>4, <1>6, <4>1
    <3> QED
      BY <3>1, <3>2
  <2> QED
    BY <1>1, <2>1 DEF ListInductive, ItemShape
<1>11. SlotShape'
  BY <1>1, <1>3, <1>4, <1>5, <1>6, ChunkAssumption DEF ListInductive, SlotShape, ChunkAssumption
<1>12. SlotOnce'
  <2>1. \A u \in Thread : pc'[u] = "push" <=> pc[u] = "push"
    BY <1>1, Workers
  <2> QED
    BY <1>1, <1>3, <2>1 DEF ListInductive, SlotOnce, Pushes
<1> QED
  BY <1>7, <1>8, <1>9, <1>10, <1>11, <1>12 DEF ListInductive

\* The owner gets the slot of an item that is in it.
LEMMA CountInsertInductive ==
    ASSUME ListInductive, NEW t \in Thread, CountInsert(t)
    PROVE  ListInductive'
<1>1. /\ TypeOK /\ t \in Worker /\ pc[t] = "count" /\ pc'[t] = "idle" /\ item[t] # Empty
      /\ slot[t] \in Slot /\ item[t] \in Item /\ values[slot[t]] = item[t]
      /\ \A x \in Worker \ {t} : pc'[x] = pc[x]
      /\ estimate' = estimate + 1
      /\ cllItem' = [cllItem EXCEPT ![item[t]] = slot[t]]
      /\ item' = [item EXCEPT ![t] = Empty]
      /\ slot' = [slot EXCEPT ![t] = NoSlot]
      /\ UNCHANGED <<values, free, head, chunks, seen, walk, found, visits, gone, present>>
  BY Workers, Step DEF CountInsert, ListInductive, PcShape, ItemShape, Inserting, walkVars, TypeOK
<1>2. NoSlot \notin Slot
  BY ChunkAssumption DEF NoSlot, Slot, Chunk
<1>3. TypeOK'
  BY <1>1 DEF TypeOK, CountInsert, Goto
<1>4. PcShape'
  BY <1>1, <1>2, Workers DEF ListInductive, PcShape, Inserting, TypeOK
<1>5. ListShape' /\ NoItemLost'
  BY <1>1, <1>2 DEF ListInductive, ListShape, InList, NoItemLost, TypeOK
<1>6. ItemShape'
  BY <1>1, Workers DEF ListInductive, ItemShape, PcShape, Inserting, TypeOK
<1>7. SlotShape' /\ SlotOnce'
  BY <1>1, Workers, SlotsKept DEF Takes, TypeOK
<1> QED
  BY <1>3, <1>4, <1>5, <1>6, <1>7 DEF ListInductive

\* A step that changes no slot, and no thread that has or pushes one or has just stored.
LEMMA QuietInductive ==
    ASSUME ListInductive, TypeOK', PcShape',
           UNCHANGED <<values, free, head, chunks, item, cllItem, gone>>,
           \A w \in Worker : /\ Takes(w)' <=> Takes(w)
                             /\ Takes(w) => slot'[w] = slot[w],
           \A t \in Thread : /\ pc'[t] = "push" <=> pc[t] = "push"
                             /\ pc'[t] = "count" <=> pc[t] = "count"
                             /\ pc[t] \in {"push", "count"} => slot'[t] = slot[t]
    PROVE  ListInductive'
<1>1. ListShape' /\ ItemShape' /\ NoItemLost'
  BY DEF ListInductive, ListShape, InList, ItemShape, NoItemLost
<1>2. SlotShape' /\ SlotOnce'
  BY SlotsKept
<1> QED
  BY <1>1, <1>2 DEF ListInductive

LEMMA LoadHeadInductive ==
    ASSUME ListInductive, NEW t \in Thread, LoadHead(t)
    PROVE  ListInductive'
<1>1. /\ TypeOK /\ t \in Worker /\ pc[t] = "load" /\ pc'[t] = "swap"
      /\ \A x \in Worker \ {t} : pc'[x] = pc[x]
      /\ seen' = [seen EXCEPT ![t] = head]
      /\ UNCHANGED <<values, free, head, chunks, estimate, item, cllItem, slot, walk, found,
                     visits, gone, present>>
  BY Workers, Step DEF LoadHead, ListInductive, walkVars
<1>2. TypeOK'
  BY <1>1 DEF TypeOK, LoadHead, Goto
<1>3. PcShape'
  BY <1>1, Workers DEF ListInductive, PcShape, Inserting
<1> QED
  BY <1>1, <1>2, <1>3, Workers, QuietInductive DEF Takes

\* A new chunk's slots are its thread's, unless another thread's chunk is there first.
LEMMA SwapHeadInductive ==
    ASSUME ListInductive, NEW t \in Thread, SwapHead(t)
    PROVE  ListInductive'
<1>1. /\ TypeOK /\ t \in Worker /\ pc[t] = "swap" /\ item[t] # Empty
      /\ \A x \in Worker \ {t} : pc'[x] = pc[x]
      /\ chunks < MaxChunks /\ seen' = [seen EXCEPT ![t] = <<>>]
      /\ UNCHANGED <<values, free, estimate, item, cllItem, walk, found, visits, gone, present>>
  BY Workers, Step DEF SwapHead, ListInductive, PcShape, Inserting, walkVars
<1>2. CASE head # seen[t]
  <2>1. pc'[t] = "load" /\ UNCHANGED <<chunks, head, slot>>
    BY <1>1, <1>2, Step DEF SwapHead
  <2>2. TypeOK'
    <3>1. <<>> \in Seq(Chunk)
      OBVIOUS
    <3> QED
      BY <1>1, <1>2, <2>1, <3>1 DEF TypeOK, SwapHead, Goto
  <2>3. PcShape'
    BY <1>1, <2>1, Workers DEF ListInductive, PcShape, Inserting
  <2> QED
    BY <1>1, <2>1, <2>2, <2>3, Workers, QuietInductive DEF Takes
<1>3. CASE head = seen[t]
  <2> DEFINE c == chunks + 1
  <2>1. /\ pc'[t] = "push" /\ chunks' = c /\ head' = <<c>> \o head
        /\ slot' = [slot EXCEPT ![t] = <<c, 1>>] /\ pc' = [pc EXCEPT ![t] = "push"]
    BY <1>1, <1>3, Step DEF SwapHead, Goto
  <2>2. /\ c \in Chunk /\ <<c, 1>> \in Slot /\ chunks \in Chunk
        /\ <<c, 1>>[1] = c /\ <<c, 1>>[2] = 1
    BY <1>1, Slots, ChunkAssumption DEF TypeOK, Chunk, ChunkAssumption
  <2>3. head' \in Seq(Chunk) /\ \A b : InList(b)' <=> InList(b) \/ b = c
    <3>1. /\ head \in Seq(Chunk) /\ head' \in Seq(Chunk) /\ Len(head) \in Nat
          /\ DOMAIN head = 1 .. Len(head) /\ DOMAIN head' = 1 .. Len(head) + 1
          /\ head'[1] = c /\ \A i \in DOMAIN head : i + 1 \in DOMAIN head' /\ head'[i + 1] = head[i]
          /\ \A i \in DOMAIN head' : i # 1 => i - 1 \in DOMAIN head /\ head'[i] = head[i - 1]
      BY <1>1, <2>1, <2>2 DEF TypeOK
    <3> QED
      BY <3>1 DEF InList
  <2>4. Others(t) /\ slot'[t] = <<c, 1>>
    BY <1>1, <2>1 DEF Others, TypeOK
  <2>5. TypeOK'
    <3>1. <<>> \in Seq(Chunk)
      OBVIOUS
    <3> QED
      BY <1>1, <2>1, <2>2, <2>3, <3>1 DEF TypeOK
  <2>6. PcShape'
    BY <1>1, <2>1, <2>2, <2>4, Workers DEF ListInductive, PcShape, Inserting, Others
  <2>7. ListShape'
    BY <2>1, <2>2, <2>3 DEF ListInductive, ListShape, Chunk
  <2>8. ItemShape' /\ NoItemLost'
    BY <1>1, <2>1, <2>4, Workers DEF ListInductive, ItemShape, NoItemLost, Others
  <2>9. \A s \in Slot : s[1] = c => ~Busy(s) /\ ~IsFree(s) /\ values[s] = Empty
    BY <2>2 DEF ListInductive, SlotShape, Chunk
  <2>10. /\ \A w \in Worker : (Takes(w)' <=> Takes(w)) /\ (Takes(w) => slot'[w] = slot[w])
         /\ \A u \in Thread \ {t} : \A r : Pushes(u, r)' <=> Pushes(u, r)
         /\ \A r \in Slot : (Pushes(t, r)' <=> r[1] = c) /\ ~Pushes(t, r)
         /\ \A r \in Slot : IsFree(r)' <=> IsFree(r)
    <3>1. \A r \in Slot : 1 <= r[2]
      BY Slots DEF Index
    <3> QED
      BY <1>1, <2>1, <2>2, <2>4, <3>1, Workers DEF Takes, Pushes, IsFree, Others
  <2>11. \A s \in Slot : Busy(s)' <=> Busy(s) \/ s[1] = c
    BY <2>10 DEF Busy
  <2>12. SlotShape'
    <3>1. \A s \in Slot : s[1] <= chunks' <=> s[1] <= chunks \/ s[1] = c
      BY <2>1, <2>2, Slots DEF Chunk
    <3> QED
      BY <1>1, <2>9, <2>10, <2>11, <3>1 DEF ListInductive, SlotShape
  <2>13. SlotOnce'
    <3>1. \A w \in Worker : Takes(w) => slot[w] \in Slot /\ slot[w][1] # c
      BY <2>9 DEF ListInductive, PcShape, Takes, Busy
    <3>2. \A u \in Thread, w \in Worker : Takes(w)' => ~Pushes(u, slot[w])'
      <4>1. \A u \in Thread \ {t}, w \in Worker : Takes(w)' => ~Pushes(u, slot[w])'
        BY <1>1, <2>4, <2>10, Workers DEF ListInductive, SlotOnce, Pushes, Others
      <4>2. \A w \in Worker : Takes(w)' => ~Pushes(t, slot[w])'
        BY <2>2, <2>4, <2>10, <3>1 DEF Pushes
      <4> QED
        BY <4>1, <4>2
    <3>3. \A u \in Thread : pc[u] = "push" => slot[u][1] # c
      <4>1. \A u \in Thread : pc[u] = "push" => slot[u] \in Slot /\ Pushes(u, slot[u])
        BY Workers, Slots DEF ListInductive, PcShape, Pushes, Index
      <4> QED
        BY <2>9, <4>1 DEF Busy
    <3>4. \A u, x \in Thread : pc'[u] = "push" /\ pc'[x] = "push" /\ slot'[u][1] = slot'[x][1]
                               => u = x
      BY <1>1, <2>2, <2>4, <3>3, Workers DEF ListInductive, SlotOnce, Others
    <3> QED
      BY <1>1, <2>10, <3>2, <3>4 DEF ListInductive, SlotOnce
  <2> QED
    BY <2>5, <2>6, <2>7, <2>8, <2>12, <2>13 DEF ListInductive
<1> QED
  BY <1>2, <1>3

\* One more slot of the new chunk is free.
LEMMA PushSlotInductive ==
    ASSUME ListInductive, NEW t \in Thread, PushSlot(t)
    PROVE  ListInductive'
<1>1. /\ TypeOK /\ t \in Worker /\ pc[t] = "push" /\ item[t] # Empty /\ slot[t] \in Slot
      /\ \A x \in Worker \ {t} : pc'[x] = pc[x] /\ slot'[x] = slot[x]
      /\ free' = Append(free, slot[t])
      /\ UNCHANGED <<values, head, chunks, estimate, item, seen, cllItem, walk, found, visits,
                     gone, present>>
      /\ \/ /\ slot[t][2] < ChunkSize /\ pc' = [pc EXCEPT ![t] = "push"]
            /\ slot' = [slot EXCEPT ![t] = After(slot[t])]
         \/ /\ ~(slot[t][2] < ChunkSize) /\ pc' = [pc EXCEPT ![t] = "pop"]
            /\ slot' = [slot EXCEPT ![t] = NoSlot]
  BY Workers DEF PushSlot, ListInductive, PcShape, Inserting, walkVars, TypeOK, Goto
<1>2. PICK s \in Slot : s = slot[t]
  BY <1>1
<1>3. \/ pc'[t] = "push" /\ slot'[t] \in Slot /\ slot'[t][1] = s[1] /\ slot'[t][2] = s[2] + 1
      \/ pc'[t] = "pop" /\ s[2] = ChunkSize
  BY <1>1, <1>2, Slots, ChunkAssumption DEF TypeOK, Index, ChunkAssumption
<1>4. \A w \in Worker : (Takes(w)' <=> Takes(w)) /\ (Takes(w) => slot'[w] = slot[w])
  BY <1>1, <1>3 DEF Takes
<1>5. \A u \in Thread \ {t} : \A r : Pushes(u, r)' <=> Pushes(u, r)
  BY <1>1, Workers DEF Pushes
<1>6. \A r \in Slot : Pushes(t, r)' <=> Pushes(t, r) /\ r # s
  BY <1>1, <1>2, <1>3, Slots DEF Pushes, Index
<1>7. Pushes(t, s) /\ Busy(s) /\ ~IsFree(s) /\ values[s] = Empty
  <2>1. Pushes(t, s)
    BY <1>1, <1>2, Slots DEF Pushes, Index
  <2> QED
    BY <2>1 DEF Busy, ListInductive, SlotShape
<1>8. \A u \in Thread : Pushes(u, s) => u = t
  BY <1>1, <1>2 DEF Pushes, ListInductive, SlotOnce
<1>9. \A w \in Worker : Takes(w) => slot[w] # s
  BY <1>7 DEF ListInductive, SlotOnce
<1>10. ~Busy(s)' /\ \A r \in Slot : r # s => (Busy(r)' <=> Busy(r))
  BY <1>4, <1>5, <1>6, <1>8, <1>9 DEF Busy
<1>11. /\ free' \in Seq(Slot) /\ FreeOnce'
       /\ \A x : IsFree(x)' <=> IsFree(x) \/ x = s
  BY <1>1, <1>2, <1>7, FreeAppended DEF ListInductive, TypeOK, SlotOnce, FreeOnce
<1>12. TypeOK'
  <2>1. slot[t][2] < ChunkSize => After(slot[t]) \in Slot
    BY <1>1, Slots
  <2> QED
    BY <1>1, <1>11, <2>1 DEF TypeOK
<1>13. PcShape'
  BY <1>1, <1>3, Workers DEF ListInductive, PcShape, Inserting
<1>14. ListShape' /\ ItemShape' /\ NoItemLost'
  BY <1>1, <1>3, Workers DEF ListInductive, ListShape, InList, ItemShape, NoItemLost
<1>15. SlotShape'
  BY <1>1, <1>7, <1>10, <1>11 DEF ListInductive, SlotShape
<1>16. SlotOnce'
  <2>1. \A u \in Thread, w \in Worker : Takes(w)' => ~Pushes(u, slot[w])'
    <3>1. \A w \in Worker : Takes(w) => slot[w] \in Slot /\ slot'[w] = slot[w]
      BY <1>4 DEF ListInductive, PcShape, Takes
    <3>2. \A u \in Thread, r \in Slot : Pushes(u, r)' => Pushes(u, r)
      BY <1>5, <1>6
    <3>3. \A u \in Thread, w \in Worker : Takes(w) => (Pushes(u, slot[w])' => Pushes(u, slot[w]))
      BY <3>1, <3>2 DEF Pushes
    <3> QED
      BY <1>4, <3>3 DEF ListInductive, SlotOnce
  <2>2. \A u, x \in Thread : pc'[u] = "push" /\ pc'[x] = "push" /\ slot'[u][1] = slot'[x][1]
                             => u = x
    BY <1>1, <1>2, <1>3, Workers DEF ListInductive, SlotOnce
  <2> QED
    BY <1>4, <1>11, <2>1, <2>2 DEF ListInductive, SlotOnce, FreeOnce
<1> QED
  BY <1>12, <1>13, <1>14, <1>15, <1>16 DEF ListInductive

-----------------------------------------------------------------------------
(* Removals and walks.                                                     *)

\* w takes v, whose insertion has returned, out of the slot that holds it: no other item
\* was in it.
LEMMA ClearInductive ==
    ASSUME ListInductive, TypeOK', PcShape', NEW w \in Worker, NEW s \in Slot, NEW v \in Item,
           cllItem[v] # NoSlot, Clear(w, s, v), Others(w),
           pc[w] \in {"idle", "remove"}, pc'[w] = "uncount",
           UNCHANGED <<free, head, chunks, item, cllItem>>
    PROVE  ListInductive'
<1>1. /\ TypeOK /\ values[s] = v /\ values' = [values EXCEPT ![s] = Empty]
      /\ slot'[w] = s /\ gone' = gone \cup {v}
  BY DEF Clear, ListInductive, TypeOK
<1>2. values'[s] = Empty /\ \A r \in Slot : r # s => values'[r] = values[r]
  BY <1>1 DEF TypeOK
<1>3. SlotShape' /\ SlotOnce'
  BY <1>1, SlotCleared DEF Takes
<1>4. ListShape'
  BY DEF ListInductive, ListShape, InList
<1>5. ItemShape'
  <2>1. ASSUME NEW t \in Thread, pc'[t] = "count" PROVE values'[slot'[t]] = item'[t]
    <3>1. t # w /\ pc[t] = "count" /\ slot'[t] = slot[t]
      BY <2>1, Workers DEF Others
    <3>2. slot[t] \in Slot /\ item[t] # Empty /\ cllItem[item[t]] = NoSlot
          /\ values[slot[t]] = item[t]
      BY <3>1, Workers DEF ListInductive, PcShape, ItemShape, Inserting
    <3>3. slot[t] # s
      BY <1>1, <3>2
    <3> QED
      BY <1>2, <3>1, <3>2, <3>3
  <2> QED
    BY <2>1 DEF ListInductive, ItemShape
<1>6. NoItemLost'
  <2>1. ASSUME NEW u \in Item, cllItem[u] # NoSlot, u \notin gone'
        PROVE  values'[cllItem[u]] = u
    <3>1. u # v /\ values[cllItem[u]] = u /\ cllItem[u] \in Slot
      BY <1>1, <2>1 DEF ListInductive, NoItemLost, TypeOK
    <3> QED
      BY <1>1, <1>2, <3>1
  <2> QED
    BY <2>1 DEF NoItemLost
<1> QED
  BY <1>3, <1>4, <1>5, <1>6 DEF ListInductive

LEMMA RemoveInductive ==
    ASSUME ListInductive, NEW t \in Thread, NEW v \in Item, Remove(t, v)
    PROVE  ListInductive'
<1>1. /\ TypeOK /\ t \in Worker /\ pc[t] = "idle" /\ pc'[t] = "uncount"
      /\ \A x \in Worker \ {t} : pc'[x] = pc[x]
      /\ cllItem[v] # NoSlot /\ cllItem[v] \in Slot /\ Clear(t, cllItem[v], v)
      /\ UNCHANGED <<free, head, chunks, estimate, item, seen, cllItem, walk, found, visits>>
  BY Workers, Step DEF Remove, ListInductive, TypeOK, walkVars
<1>2. /\ Others(t) /\ slot'[t] = cllItem[v] /\ slot' = [slot EXCEPT ![t] = cllItem[v]]
      /\ values' = [values EXCEPT ![cllItem[v]] = Empty]
      /\ gone' = gone \cup {v} /\ present' = present \ {v}
  BY <1>1 DEF Clear, Others, TypeOK
<1>3. TypeOK'
  BY <1>1, <1>2 DEF TypeOK, Remove, Goto
<1>4. PcShape'
  BY <1>1, <1>2, Workers DEF ListInductive, PcShape, Inserting, Others
<1> QED
  BY <1>1, <1>2, <1>3, <1>4, ClearInductive

LEMMA UncountInductive ==
    ASSUME ListInductive, NEW w \in Worker, Uncount(w)
    PROVE  ListInductive'
<1>1. /\ TypeOK /\ pc[w] = "uncount" /\ pc'[w] = "free"
      /\ \A x \in Worker \ {w} : pc'[x] = pc[x]
      /\ estimate' = estimate - 1
      /\ UNCHANGED <<values, free, head, chunks, item, seen, cllItem, slot, walk, found,
                     visits, gone, present>>
  BY Step DEF Uncount, ListInductive, walkVars
<1>2. TypeOK'
  BY <1>1 DEF TypeOK, Uncount, Goto
<1>3. PcShape'
  BY <1>1, Workers DEF ListInductive, PcShape, Inserting
<1> QED
  BY <1>1, <1>2, <1>3, Workers, QuietInductive DEF Takes

\* The slot of an item taken out is free.
LEMMA FreeInductive ==
    ASSUME ListInductive, NEW w \in Worker,
           \/ w \in Thread /\ FreeRemoved(w)
           \/ w \in Chunk /\ FreeRefused(w)
    PROVE  ListInductive'
<1>1. /\ TypeOK /\ pc[w] = "free" /\ slot[w] \in Slot
      /\ free' = Append(free, slot[w])
      /\ UNCHANGED <<values, head, chunks, estimate, item, seen, cllItem, walk, found,
                     visits, gone, present>>
  BY DEF FreeRemoved, FreeRefused, Goto, ListInductive, PcShape, walkVars
<1>2. /\ Others(w) /\ pc'[w] \in {"idle", "visit"}
      /\ pc'[w] = "visit" => slot'[w] \in Slot
      /\ w \in Thread => pc'[w] = "idle"
      /\ pc' \in [Worker -> {"idle", "pop", "store", "count", "load", "swap", "push",
                            "visit", "call", "remove", "uncount", "free"}]
      /\ slot' \in [Worker -> Slot \cup {NoSlot}]
  <2>1. CASE FreeRemoved(w) /\ w \in Thread
    BY <1>1, <2>1 DEF FreeRemoved, Goto, Others, TypeOK
  <2>2. CASE FreeRefused(w) /\ w \in Chunk
    BY <1>1, <2>2, NextSlotStep, Workers DEF FreeRefused
  <2> QED
    BY <2>1, <2>2
<1>3. SlotShape' /\ SlotOnce' /\ free' \in Seq(Slot)
  BY <1>1, <1>2, SlotFreed
<1>4. TypeOK'
  BY <1>1, <1>2, <1>3 DEF TypeOK
<1>5. PcShape'
  BY <1>1, <1>2, Workers DEF ListInductive, PcShape, Inserting, Others
<1>6. ListShape' /\ NoItemLost'
  BY <1>1 DEF ListInductive, ListShape, InList, NoItemLost
<1>7. ItemShape'
  BY <1>1, <1>2, Workers DEF ListInductive, ItemShape, Others
<1> QED
  BY <1>3, <1>4, <1>5, <1>6, <1>7 DEF ListInductive

LEMMA WalkInductive ==
    ASSUME ListInductive, EndWalk \/ \E kind \in Walks : StartWalk(kind)
    PROVE  ListInductive'
<1>1. TypeOK
  BY DEF ListInductive
<1>2. CASE EndWalk
  <2>1. /\ walk' = "none" /\ visits' = [v \in Item |-> 0] /\ present' = {}
        /\ UNCHANGED <<values, free, head, chunks, estimate, pc, item, seen, cllItem, slot, found,
                       gone>>
        /\ \A c \in Chunk : pc[c] = "idle"
    BY <1>2 DEF EndWalk, threadVars, WalkOver
  <2>2. TypeOK' /\ PcShape'
    BY <1>1, <2>1 DEF ListInductive, TypeOK, PcShape
  <2> QED
    BY <2>1, <2>2, QuietInductive DEF Takes
<1>3. ASSUME NEW kind \in Walks, StartWalk(kind) PROVE ListInductive'
  <2>1. /\ walk' = kind /\ kind \in {"iter", "retain"}
        /\ pc' = [w \in Worker |-> IF w \in Chunk /\ InList(w) THEN "visit" ELSE pc[w]]
        /\ slot' = [w \in Worker |-> IF w \in Chunk /\ InList(w) THEN <<w, 1>> ELSE slot[w]]
        /\ visits' = [v \in Item |-> 0] /\ present' \subseteq Item
        /\ UNCHANGED <<values, free, head, chunks, estimate, item, seen, cllItem, found, gone>>
        /\ \A c \in Chunk : pc[c] = "idle"
    BY <1>3, ChunkAssumption DEF StartWalk, ChunkAssumption, ListInductive, PcShape, Stored, TypeOK
  <2>2. /\ \A t \in Thread : pc'[t] = pc[t] /\ slot'[t] = slot[t]
        /\ \A c \in Chunk : \/ pc'[c] = "idle"
                            \/ pc'[c] = "visit" /\ slot'[c] = <<c, 1>> /\ slot'[c] \in Slot
    BY <2>1, Workers, Slots
  <2>3. TypeOK'
    <3>1. /\ pc' \in [Worker -> {"idle", "pop", "store", "count", "load", "swap", "push",
                                 "visit", "call", "remove", "uncount", "free"}]
          /\ slot' \in [Worker -> Slot \cup {NoSlot}]
      BY <1>1, <2>1, Slots DEF TypeOK
    <3> QED
      BY <1>1, <2>1, <3>1 DEF TypeOK
  <2>4. PcShape'
    BY <2>1, <2>2 DEF ListInductive, PcShape, Inserting, Worker
  <2> QED
    BY <2>1, <2>2, <2>3, <2>4, QuietInductive DEF Takes, Worker
<1> QED
  BY <1>2, <1>3

\* A slot is loaded.
LEMMA LoadInductive ==
    ASSUME ListInductive, NEW c \in Chunk, LoadSlot(c)
    PROVE  ListInductive'
<1>1. /\ TypeOK /\ c \in Worker /\ pc[c] = "visit" /\ slot[c] \in Slot /\ walk # "none"
      /\ UNCHANGED <<values, free, head, chunks, estimate, item, seen, cllItem, walk, visits,
                     gone, present>>
  BY Workers DEF LoadSlot, ListInductive, PcShape
<1>2. CASE values[slot[c]] = Empty
  <2>1. /\ pc'[c] \in {"idle", "visit"} /\ Others(c) /\ UNCHANGED found
        /\ pc'[c] = "visit" => slot'[c] \in Slot
        /\ pc' \in [Worker -> {"idle", "pop", "store", "count", "load", "swap", "push",
                              "visit", "call", "remove", "uncount", "free"}]
        /\ slot' \in [Worker -> Slot \cup {NoSlot}]
    BY <1>1, <1>2, NextSlotStep DEF LoadSlot
  <2>2. TypeOK'
    BY <1>1, <2>1 DEF TypeOK
  <2>3. PcShape'
    BY <1>1, <2>1, Workers DEF ListInductive, PcShape, Inserting, Others
  <2> QED
    BY <1>1, <2>1, <2>2, <2>3, Workers, QuietInductive DEF Takes, Others
<1>3. CASE values[slot[c]] # Empty
  <2>1. /\ pc' = [pc EXCEPT ![c] = "call"] /\ UNCHANGED slot
        /\ found' = [found EXCEPT ![c] = values[slot[c]]] /\ values[slot[c]] \in Item
    BY <1>1, <1>3 DEF LoadSlot, TypeOK
  <2>2. pc'[c] = "call" /\ \A x \in Worker \ {c} : pc'[x] = pc[x]
    BY <1>1, <2>1 DEF TypeOK
  <2>3. TypeOK'
    BY <1>1, <2>1 DEF TypeOK
  <2>4. PcShape'
    BY <1>1, <2>1, <2>2, Workers DEF ListInductive, PcShape, Inserting, TypeOK
  <2> QED
    BY <1>1, <2>1, <2>2, <2>3, <2>4, Workers, QuietInductive DEF Takes
<1> QED
  BY <1>2, <1>3

\* What was loaded is visited and kept, or refused.
LEMMA VisitInductive ==
    ASSUME ListInductive, NEW c \in Chunk, VisitSlot(c) \/ RefuseSlot(c)
    PROVE  ListInductive'
<1>1. /\ TypeOK /\ c \in Worker /\ pc[c] = "call" /\ slot[c] \in Slot /\ walk # "none"
      /\ found[c] \in Item /\ visits' \in [Item -> Nat]
      /\ UNCHANGED <<values, free, head, chunks, estimate, item, seen, cllItem, walk, gone,
                     present>>
  <2>1. /\ TypeOK /\ c \in Worker /\ pc[c] = "call" /\ slot[c] \in Slot /\ walk # "none"
        /\ found[c] \in Item
    BY Workers DEF VisitSlot, RefuseSlot, Goto, ListInductive, PcShape
  <2>2. PICK v \in Item : v = found[c]
    BY <2>1
  <2>3. visits' = [visits EXCEPT ![v] = visits[v] + 1] /\ visits \in [Item -> Nat]
    BY <2>1, <2>2 DEF VisitSlot, RefuseSlot, Visit, TypeOK
  <2> QED
    BY <2>1, <2>2, <2>3 DEF VisitSlot, RefuseSlot
<1>2. CASE VisitSlot(c)
  <2>1. /\ pc'[c] \in {"idle", "visit"} /\ Others(c)
        /\ found' = [found EXCEPT ![c] = Empty]
        /\ pc'[c] = "visit" => slot'[c] \in Slot
        /\ pc' \in [Worker -> {"idle", "pop", "store", "count", "load", "swap", "push",
                              "visit", "call", "remove", "uncount", "free"}]
        /\ slot' \in [Worker -> Slot \cup {NoSlot}]
    BY <1>1, <1>2, NextSlotStep DEF VisitSlot
  <2>2. TypeOK'
    BY <1>1, <2>1 DEF TypeOK
  <2>3. PcShape'
    BY <1>1, <2>1, Workers DEF ListInductive, PcShape, Inserting, Others, TypeOK
  <2> QED
    BY <1>1, <2>1, <2>2, <2>3, Workers, QuietInductive DEF Takes, Others
<1>3. CASE RefuseSlot(c)
  <2>1. /\ pc'[c] = "remove" /\ \A x \in Worker \ {c} : pc'[x] = pc[x]
        /\ UNCHANGED <<slot, found>> /\ cllItem[found[c]] # NoSlot
    BY <1>1, <1>3, Step DEF RefuseSlot
  <2>2. TypeOK'
    BY <1>1, <1>3, <2>1 DEF TypeOK, RefuseSlot, Goto
  <2>3. PcShape'
    BY <1>1, <2>1, Workers DEF ListInductive, PcShape, Inserting, TypeOK
  <2> QED
    BY <1>1, <2>1, <2>2, <2>3, Workers, QuietInductive DEF Takes
<1> QED
  BY <1>2, <1>3

LEMMA RemoveRefusedInductive ==
    ASSUME ListInductive, NEW c \in Chunk, RemoveRefused(c)
    PROVE  ListInductive'
<1>1. /\ TypeOK /\ c \in Worker /\ pc[c] = "remove" /\ slot[c] \in Slot /\ walk # "none"
      /\ found[c] \in Item /\ cllItem[found[c]] # NoSlot
      /\ found' = [found EXCEPT ![c] = Empty]
      /\ UNCHANGED <<free, head, chunks, estimate, item, seen, cllItem, walk, visits>>
  BY Workers DEF RemoveRefused, ListInductive, PcShape
<1>2. \A b \in Chunk \ {c} : found'[b] = found[b]
  BY <1>1 DEF TypeOK
<1>3. CASE Clear(c, slot[c], found[c]) /\ pc' = [pc EXCEPT ![c] = "uncount"]
  <2>1. /\ Others(c) /\ pc'[c] = "uncount" /\ slot'[c] = slot[c] /\ UNCHANGED slot
        /\ values' = [values EXCEPT ![slot[c]] = Empty]
        /\ gone' = gone \cup {found[c]} /\ present' = present \ {found[c]}
    BY <1>1, <1>3 DEF Clear, Others, TypeOK
  <2>2. TypeOK'
    BY <1>1, <1>3, <2>1 DEF TypeOK
  <2>3. PcShape'
    BY <1>1, <1>2, <2>1, Workers DEF ListInductive, PcShape, Inserting, Others
  <2> QED
    BY <1>1, <1>3, <2>1, <2>2, <2>3, ClearInductive
<1>4. CASE NextSlot(c) /\ UNCHANGED <<values, gone, present>>
  <2>1. /\ pc'[c] \in {"idle", "visit"} /\ Others(c)
        /\ pc'[c] = "visit" => slot'[c] \in Slot
        /\ pc' \in [Worker -> {"idle", "pop", "store", "count", "load", "swap", "push",
                              "visit", "call", "remove", "uncount", "free"}]
        /\ slot' \in [Worker -> Slot \cup {NoSlot}]
    BY <1>1, <1>4, NextSlotStep
  <2>2. TypeOK'
    BY <1>1, <1>4, <2>1 DEF TypeOK
  <2>3. PcShape'
    BY <1>1, <1>2, <2>1, Workers DEF ListInductive, PcShape, Inserting, Others
  <2> QED
    BY <1>1, <1>4, <2>1, <2>2, <2>3, Workers, QuietInductive DEF Takes, Others
<1> QED
  BY <1>3, <1>4 DEF RemoveRefused

-----------------------------------------------------------------------------
\* The strengthening is an inductive invariant of the list.
THEOREM ListIsInductive == Spec => []ListInductive
<1>1. ASSUME ListInductive, Next PROVE ListInductive'
  <2>1. ASSUME NEW t \in Thread, InInsert(t) PROVE ListInductive'
    BY <1>1, <2>1, PopFreeInductive, StoreInductive, CountInsertInductive, LoadHeadInductive,
       SwapHeadInductive, PushSlotInductive DEF InInsert
  <2>2. ASSUME NEW t \in Thread, InRemove(t) PROVE ListInductive'
    BY <1>1, <2>2, Workers, UncountInductive, FreeInductive DEF InRemove
  <2>3. ASSUME NEW c \in Chunk, InWalk(c) PROVE ListInductive'
    BY <1>1, <2>3, Workers, LoadInductive, VisitInductive, RemoveRefusedInductive,
       UncountInductive, FreeInductive DEF InWalk
  <2> QED
    BY <1>1, <2>1, <2>2, <2>3, StartInsertInductive, RemoveInductive, WalkInductive DEF Next
<1>2. ListInductive /\ UNCHANGED vars => ListInductive'
  BY QuietInductive DEF vars, threadVars, walkVars, ListInductive, TypeOK, PcShape, Takes
<1> QED
  BY <1>1, <1>2, InitInductive, PTL DEF Spec

\* Every variable stays in its type.
THEOREM ListTypes == Spec => []TypeOK
<1>1. ListInductive => TypeOK
  BY DEF ListInductive
<1> QED
  BY <1>1, ListIsInductive, PTL

\* An item stays in its slot until it is taken out, by its own removal.
THEOREM ListKeepsItems == Spec => []NoItemLost
<1>1. ListInductive => NoItemLost
  BY DEF ListInductive
<1> QED
  BY <1>1, ListIsInductive, PTL

\* Every slot of the list is free once, or filled, or in one worker's hands.
THEOREM ListConservesSlots == Spec => []SlotsConserved
<1>1. ASSUME ListInductive PROVE SlotsConserved
  <2> SUFFICES ASSUME NEW s \in Slot
               PROVE  TimesFree(s) + One(values[s] # Empty) + One(Busy(s)) = One(InList(s[1]))
    BY DEF SlotsConserved
  <2>1. InList(s[1]) <=> IsFree(s) \/ Busy(s) \/ values[s] # Empty
    BY <1>1, Slots DEF ListInductive, ListShape, SlotShape
  <2>2. ~(IsFree(s) /\ values[s] # Empty) /\ ~(IsFree(s) /\ Busy(s))
        /\ ~(Busy(s) /\ values[s] # Empty)
    BY <1>1 DEF ListInductive, SlotShape
  <2>3. TimesFree(s) = One(IsFree(s))
    <3>1. CASE IsFree(s)
      <4>1. PICK i \in DOMAIN free : free[i] = s
        BY <3>1 DEF IsFree
      <4>2. {j \in DOMAIN free : free[j] = s} = {i}
        BY <1>1, <4>1 DEF ListInductive, SlotOnce
      <4> QED
        BY <3>1, <4>2, FS_Singleton DEF TimesFree, One
    <3>2. CASE ~IsFree(s)
      <4>1. {j \in DOMAIN free : free[j] = s} = {}
        BY <3>2 DEF IsFree
      <4> QED
        BY <3>2, <4>1, FS_EmptySet DEF TimesFree, One
    <3> QED
      BY <3>1, <3>2
  <2> QED
    BY <2>1, <2>2, <2>3 DEF One
<1> QED
  BY <1>1, ListIsInductive, PTL

-----------------------------------------------------------------------------
(* Walks.                                                                  *)

\* An item is put in one slot only, so what is in a slot is in no other.
LEMMA OnePut ==
    ASSUME ListInductive, NEW v \in Item, NEW r \in Slot, NEW s \in Slot, PutIn(v, r), PutIn(v, s)
    PROVE  r = s
<1>1. NoSlot \notin Slot /\ v # Empty
  BY ChunkAssumption DEF ChunkAssumption, Slot, NoSlot, Chunk
<1>2. \A t \in Thread : item[t] = v => cllItem[v] = NoSlot /\ \A u \in Thread : item[u] = v => u = t
  BY <1>1 DEF ListInductive, ItemShape
<1> QED
  BY <1>1, <1>2 DEF PutIn

LEMMA OnePlace ==
    ASSUME ListInductive, PlaceShape, NEW r \in Slot, NEW s \in Slot, values[r] # Empty, values[r] = values[s]
    PROVE  r = s
<1>1. values[r] \in Item
  BY DEF ListInductive, TypeOK
<1> QED
  BY <1>1, OnePut DEF PlaceShape

LEMMA PlaceInit == Init => PlaceShape /\ VisitShape /\ CallShape
BY ChunkAssumption, Workers DEF Init, PlaceShape, VisitShape, CallShape, Chunk, Index, Worker

\* Threads, and a walk that begins or ends, move what is in the slots.
LEMMA PlaceStep ==
    ASSUME ListInductive, ListInductive', PlaceShape, [Next]_vars
    PROVE  PlaceShape'
<1>1. CASE UNCHANGED <<values, gone, cllItem, item, pc, slot>>
  BY <1>1 DEF PlaceShape, PutIn
<1>2. ASSUME NEW t \in Thread, NEW v \in Item, StartInsert(t, v) PROVE PlaceShape'
  <2>1. /\ t \in Worker /\ pc[t] = "idle" /\ \A x \in Worker \ {t} : pc'[x] = pc[x]
        /\ item' = [item EXCEPT ![t] = v]
        /\ UNCHANGED <<values, gone, cllItem, slot>>
    BY <1>2, Workers, Step DEF StartInsert, ListInductive
  <2>2. \A u \in Thread \ {t} : item'[u] = item[u] /\ pc'[u] = pc[u]
    BY <2>1, Workers DEF ListInductive, TypeOK
  <2> QED
    BY <2>1, <2>2 DEF PlaceShape, PutIn
<1>3. ASSUME NEW t \in Thread, Store(t) PROVE PlaceShape'
  <2>1. /\ t \in Worker /\ pc[t] = "store" /\ pc'[t] = "count" /\ \A x \in Worker \ {t} : pc'[x] = pc[x]
        /\ values' = [values EXCEPT ![slot[t]] = item[t]] /\ item[t] # Empty
        /\ UNCHANGED <<item, gone, cllItem, slot>>
    BY <1>3, Workers, Step DEF Store, ListInductive, PcShape, Inserting
  <2>2. slot[t] \in Slot /\ cllItem[item[t]] = NoSlot /\ item[t] \notin gone
    BY <2>1 DEF ListInductive, PcShape, ItemShape, PlaceShape
  <2>3. /\ values'[slot[t]] = item[t]
        /\ \A s \in Slot : s # slot[t] => values'[s] = values[s]
    BY <2>1, <2>2 DEF ListInductive, TypeOK
  <2>4. \A u \in Thread : pc[u] = "count" => pc'[u] = "count"
    BY <2>1, Workers
  <2> QED
    BY <2>1, <2>2, <2>3, <2>4 DEF PlaceShape, PutIn
<1>4. ASSUME NEW t \in Thread, CountInsert(t) PROVE PlaceShape'
  <2>1. /\ t \in Worker /\ pc[t] = "count" /\ \A x \in Worker \ {t} : pc'[x] = pc[x]
        /\ item' = [item EXCEPT ![t] = Empty] /\ slot' = [slot EXCEPT ![t] = NoSlot]
        /\ cllItem' = [cllItem EXCEPT ![item[t]] = slot[t]] /\ item[t] \in Item
        /\ UNCHANGED <<values, gone>>
    BY <1>4, Workers, Step DEF CountInsert, ListInductive, PcShape, Inserting, TypeOK
  <2>2. slot[t] \in Slot /\ cllItem[item[t]] = NoSlot /\ values[slot[t]] = item[t]
    BY <2>1 DEF ListInductive, PcShape, ItemShape, Inserting
  <2>3. /\ cllItem'[item[t]] = slot[t] /\ slot[t] # NoSlot
        /\ \A v \in Item : v # item[t] => cllItem'[v] = cllItem[v]
        /\ \A u \in Thread \ {t} : pc'[u] = pc[u] /\ item'[u] = item[u] /\ slot'[u] = slot[u]
    BY <2>1, <2>2, Workers DEF ListInductive, TypeOK, Slot, NoSlot, Chunk
  <2>4. \A s \in Slot : values[s] # Empty => values[s] \in Item
    BY DEF ListInductive, TypeOK
  <2>5. \A s \in Slot : values[s] = item[t] => s = slot[t]
    BY <2>1, <2>2, <2>4, ChunkAssumption, OnePlace DEF ChunkAssumption
  <2>6. gone \subseteq Item
    BY DEF ListInductive, TypeOK
  <2> QED
    BY <2>1, <2>2, <2>3, <2>4, <2>5, <2>6 DEF PlaceShape, PutIn
<1>5. ASSUME NEW w \in Worker, NEW s \in Slot, NEW v \in Item, cllItem[v] # NoSlot, Clear(w, s, v),
             UNCHANGED <<item, cllItem>>, pc[w] \in {"idle", "remove"}, pc' = [pc EXCEPT ![w] = "uncount"]
      PROVE  PlaceShape'
  <2>1. /\ values[s] = v /\ values' = [values EXCEPT ![s] = Empty] /\ slot' = [slot EXCEPT ![w] = s]
        /\ gone' = gone \cup {v}
    BY <1>5 DEF Clear
  <2>2. /\ values'[s] = Empty /\ \A r \in Slot : r # s => values'[r] = values[r]
        /\ \A x \in Worker : x # w => slot'[x] = slot[x] /\ pc'[x] = pc[x]
    BY <1>5, <2>1 DEF ListInductive, TypeOK
  <2>3. \A u \in Thread : pc[u] = "count" => pc'[u] = "count" /\ slot'[u] = slot[u]
    BY <1>5, <2>2, Workers
  <2>4. v # Empty
    BY ChunkAssumption DEF ChunkAssumption
  <2>5. \A r \in Slot : values'[r] # Empty => values'[r] = values[r] /\ values[r] # v
    BY <2>1, <2>2, <2>4, OnePlace
  <2> QED
    BY <1>5, <2>1, <2>3, <2>5 DEF PlaceShape, PutIn
<1>6. ASSUME NEW t \in Thread, NEW v \in Item, Remove(t, v) PROVE PlaceShape'
  <2>1. t \in Worker /\ cllItem[v] \in Slot
    BY <1>6, Workers DEF Remove, ListInductive, TypeOK
  <2> QED
    BY <1>5, <1>6, <2>1 DEF Remove, Goto
<1>7. ASSUME NEW c \in Chunk, RemoveRefused(c), Clear(c, slot[c], found[c]) PROVE PlaceShape'
  <2>1. c \in Worker /\ slot[c] \in Slot /\ found[c] \in Item /\ cllItem[found[c]] # NoSlot
    BY <1>7, Workers DEF RemoveRefused, ListInductive, PcShape
  <2>2. pc[c] = "remove" /\ UNCHANGED <<item, cllItem>> /\ pc' = [pc EXCEPT ![c] = "uncount"]
    BY <1>7, <2>1 DEF RemoveRefused, Clear, ListInductive, TypeOK
  <2> QED
    BY <1>5, <1>7, <2>1, <2>2
<1>8. ASSUME UNCHANGED <<values, gone, cllItem, item>>,
             \A t \in Thread : pc[t] = "count" => pc'[t] = "count" /\ slot'[t] = slot[t]
      PROVE  PlaceShape'
  BY <1>8 DEF PlaceShape, PutIn
<1> DEFINE Still == /\ UNCHANGED <<values, gone, cllItem, item>>
                    /\ \A t \in Thread : pc[t] = "count" => pc'[t] = "count" /\ slot'[t] = slot[t]
<1>9. ASSUME NEW t \in Thread, PopFree(t) \/ LoadHead(t) \/ SwapHead(t) \/ PushSlot(t) PROVE Still
  BY <1>9, Workers DEF PopFree, LoadHead, SwapHead, PushSlot, Goto, ListInductive, TypeOK, walkVars
<1>10. ASSUME NEW w \in Worker, Uncount(w) \/ FreeRemoved(w) PROVE Still
  BY <1>10, Workers DEF Uncount, FreeRemoved, Goto, ListInductive, TypeOK, walkVars
<1>11. ASSUME NEW c \in Chunk, \/ LoadSlot(c) \/ VisitSlot(c) \/ RefuseSlot(c) \/ FreeRefused(c)
                              \/ (RemoveRefused(c) /\ NextSlot(c) /\ UNCHANGED <<values, gone>>)
       PROVE  Still
  <2>1. c \notin Thread /\ c \in Worker
    BY Workers
  <2>2. \A t \in Thread : pc'[t] = pc[t] /\ slot'[t] = slot[t]
    BY <1>11, <2>1, Workers DEF LoadSlot, VisitSlot, RefuseSlot, FreeRefused, RemoveRefused,
       NextSlot, Goto, ListInductive, TypeOK
  <2> QED
    BY <1>11, <2>2 DEF LoadSlot, VisitSlot, RefuseSlot, FreeRefused, RemoveRefused, walkVars
<1>12. ASSUME EndWalk \/ \E kind \in Walks : StartWalk(kind) PROVE Still
  BY <1>12, Workers DEF EndWalk, StartWalk, threadVars
<1>13. Still => PlaceShape'
  BY <1>8
<1> HIDE DEF Still
<1>14. ASSUME NEW t \in Thread, InInsert(t) \/ InRemove(t) PROVE PlaceShape'
  BY <1>3, <1>4, <1>9, <1>10, <1>13, <1>14, Workers DEF InInsert, InRemove
<1>15. ASSUME NEW c \in Chunk, InWalk(c) PROVE PlaceShape'
  <2>1. RemoveRefused(c) => \/ Clear(c, slot[c], found[c])
                            \/ (NextSlot(c) /\ UNCHANGED <<values, gone>>)
    BY DEF RemoveRefused
  <2> QED
    BY <1>7, <1>10, <1>11, <1>13, <1>15, <2>1, Workers DEF InWalk
<1> QED
  BY <1>1, <1>2, <1>6, <1>12, <1>13, <1>14, <1>15 DEF Next, vars, threadVars

\* Where no worker of the walk goes on, and no item leaves or enters but as it should, the
\* visits stay what they are.
LEMMA VisitKept ==
    ASSUME ListInductive, PlaceShape, VisitShape, gone \subseteq gone', present' = present \ gone',
           \A c \in Chunk : (pc'[c] # "idle" => slot'[c][1] = c),
           \A s \in Slot : Passed(s)' <=> Passed(s),
           UNCHANGED <<walk, visits>>,
           \A s \in Slot : values[s] # Empty /\ values[s] \notin gone' => values'[s] = values[s]
    PROVE  VisitShape'
<1>1. /\ walk = "none" => present = {} /\ \A v \in Item : visits[v] = 0
      /\ \A v \in Item : /\ visits[v] <= 1
                         /\ visits[v] = 1 => v \in gone \/ \E s \in Slot : values[s] = v /\ Passed(s)
      /\ \A v \in present : \E s \in Slot : values[s] = v /\ (Passed(s) => visits[v] = 1)
  BY DEF VisitShape
<1>2. present \subseteq Item
  BY DEF ListInductive, TypeOK
<1>3. ASSUME NEW v \in Item, visits[v] = 1
      PROVE  v \in gone' \/ \E s \in Slot : values'[s] = v /\ Passed(s)'
  BY <1>1, <1>3, ChunkAssumption DEF ChunkAssumption
<1>4. ASSUME NEW v \in present'
      PROVE  \E s \in Slot : values'[s] = v /\ (Passed(s)' => visits[v] = 1)
  <2>1. v \in present /\ v \notin gone' /\ v # Empty
    BY <1>2, <1>4, ChunkAssumption DEF ChunkAssumption
  <2>2. PICK s \in Slot : values[s] = v /\ (Passed(s) => visits[v] = 1)
    BY <1>1, <2>1
  <2> QED
    BY <2>1, <2>2
<1> QED
  BY <1>1, <1>3, <1>4 DEF VisitShape

\* What a worker of the walk is about to load has not been visited.
LEMMA NotVisited ==
    ASSUME ListInductive, PlaceShape, VisitShape, NEW c \in Chunk, NEW s \in Slot, slot[c] = s,
           pc[c] = "visit", NEW v \in Item, v = values[s]
    PROVE  visits[v] = 0
<1>1. ~Passed(s)
  <2>1. s[1] = c /\ s[2] \in Nat
    BY Slots DEF VisitShape, Index
  <2> QED
    BY <2>1 DEF Passed
<1> SUFFICES ASSUME visits[v] # 0
             PROVE  FALSE
  OBVIOUS
<1>2. visits[v] = 1
  BY DEF VisitShape, ListInductive, TypeOK
<1>3. v # Empty /\ v \notin gone
  BY ChunkAssumption DEF ChunkAssumption, PlaceShape
<1>4. PICK r \in Slot : values[r] = v /\ Passed(r)
  BY <1>2, <1>3 DEF VisitShape
<1>5. r = s
  BY <1>3, <1>4, OnePlace
<1> QED
  BY <1>1, <1>4, <1>5

\* A worker of the walk goes on from slot s, having called the function on what was there.
LEMMA VisitCounted ==
    ASSUME ListInductive, PlaceShape, VisitShape, CallShape, NEW c \in Chunk, NEW s \in Slot,
           slot[c] = s, pc[c] = "call", walk # "none", Visit(c),
           \A b \in Chunk : (pc'[b] # "idle" => slot'[b][1] = b),
           \A r \in Slot : Passed(r)' <=> Passed(r) \/ r = s,
           UNCHANGED <<values, gone, present, walk>>
    PROVE  VisitShape'
<1>1. /\ visits \in [Item -> Nat] /\ present \subseteq Item /\ found[c] \in Item
      /\ \A v \in Item : visits'[v] = IF v = found[c] THEN visits[v] + 1 ELSE visits[v]
  BY DEF Visit, ListInductive, TypeOK, PcShape
<1>2. /\ visits[found[c]] = 0 /\ (values[s] = found[c] \/ found[c] \in gone)
      /\ values[s] \in present => values[s] = found[c]
  BY DEF CallShape
<1>3. ASSUME NEW v \in Item
      PROVE  visits'[v] <= 1 /\ (visits'[v] = 1 => v \in gone \/ \E r \in Slot : values[r] = v /\ Passed(r)')
  <2>1. CASE v = found[c]
    BY <1>1, <1>2, <2>1
  <2>2. CASE v # found[c]
    BY <1>1, <2>2 DEF VisitShape
  <2> QED
    BY <2>1, <2>2
<1>4. ASSUME NEW v \in present
      PROVE  \E r \in Slot : values[r] = v /\ (Passed(r)' => visits'[v] = 1)
  <2>1. PICK r \in Slot : values[r] = v /\ (Passed(r) => visits[v] = 1)
    BY DEF VisitShape
  <2>2. v = found[c] => visits'[v] = 1
    BY <1>1, <1>2
  <2>3. v # found[c] => r # s /\ visits'[v] = visits[v]
    BY <1>1, <1>2, <2>1
  <2> QED
    BY <2>1, <2>2, <2>3
<1> QED
  BY <1>3, <1>4 DEF VisitShape

\* What NextSlot passes.
LEMMA NextPasses ==
    ASSUME ListInductive, VisitShape, NEW c \in Chunk, NEW s \in Slot, slot[c] = s, pc[c] # "idle", NextSlot(c)
    PROVE  /\ \A b \in Chunk : (pc'[b] # "idle" => slot'[b][1] = b)
           /\ \A r \in Slot : Passed(r)' <=> Passed(r) \/ r = s
<1>1. /\ c \in Worker /\ s[1] = c /\ s[2] \in Index /\ ChunkSize \in Nat
      /\ \A r \in Slot : r[1] \in Chunk /\ r[2] \in Index
  BY Workers, Slots, ChunkAssumption DEF VisitShape, ChunkAssumption
<1>2. \A b \in Chunk : b \in Worker
  BY Workers
<1>3. CASE s[2] < ChunkSize
  <2>1. /\ slot' = [slot EXCEPT ![c] = After(s)] /\ pc' = [pc EXCEPT ![c] = "visit"]
        /\ After(s)[1] = c /\ After(s)[2] = s[2] + 1
    BY <1>1, <1>3, Slots DEF NextSlot
  <2>2. /\ slot'[c] = After(s) /\ pc'[c] = "visit"
        /\ \A b \in Chunk \ {c} : slot'[b] = slot[b] /\ pc'[b] = pc[b]
    BY <1>1, <1>2, <2>1 DEF ListInductive, TypeOK
  <2>3. ASSUME NEW r \in Slot, r[1] = c
        PROVE  Passed(r)' <=> Passed(r) \/ r = s
    <3>1. r[2] \in Nat /\ s[2] \in Nat /\ (r = s <=> r[2] = s[2])
      BY <1>1, <2>3, Slots DEF Index
    <3>2. Passed(r)' <=> s[2] + 1 > r[2]
      BY <2>1, <2>2, <2>3, <3>1 DEF Passed
    <3>3. Passed(r) \/ r = s <=> s[2] >= r[2]
      BY <2>3, <3>1 DEF Passed
    <3> QED
      BY <3>1, <3>2, <3>3
  <2>4. ASSUME NEW r \in Slot, r[1] # c
        PROVE  Passed(r)' <=> Passed(r) \/ r = s
    BY <1>1, <2>2, <2>4 DEF Passed
  <2>5. \A b \in Chunk : (pc'[b] # "idle" => slot'[b][1] = b)
    BY <2>1, <2>2 DEF VisitShape
  <2> QED
    BY <2>3, <2>4, <2>5
<1>4. CASE ~(s[2] < ChunkSize)
  <2>1. slot' = [slot EXCEPT ![c] = NoSlot] /\ pc' = [pc EXCEPT ![c] = "idle"]
    BY <1>4 DEF NextSlot
  <2>2. /\ pc'[c] = "idle"
        /\ \A b \in Chunk \ {c} : slot'[b] = slot[b] /\ pc'[b] = pc[b]
    BY <1>1, <1>2, <2>1 DEF ListInductive, TypeOK
  <2>3. ASSUME NEW r \in Slot, r[1] = c
        PROVE  Passed(r)' <=> Passed(r) \/ r = s
    <3>1. /\ r[2] \in Nat /\ s[2] \in Nat /\ (r = s <=> r[2] = s[2])
          /\ r[2] <= ChunkSize /\ s[2] >= ChunkSize
      BY <1>1, <1>4, <2>3, Slots DEF Index
    <3>2. Passed(r)'
      BY <2>2, <2>3 DEF Passed
    <3>3. Passed(r) \/ r = s
      BY <1>1, <2>3, <3>1 DEF Passed, Index
    <3> QED
      BY <3>2, <3>3
  <2>4. ASSUME NEW r \in Slot, r[1] # c
        PROVE  Passed(r)' <=> Passed(r) \/ r = s
    BY <1>1, <2>2, <2>4 DEF Passed
  <2>5. \A b \in Chunk : (pc'[b] # "idle" => slot'[b][1] = b)
    BY <2>2 DEF VisitShape
  <2> QED
    BY <2>3, <2>4, <2>5
<1> QED
  BY <1>3, <1>4

\* What the threads do does not disturb the walk.
LEMMA ThreadVisits ==
    ASSUME ListInductive, PlaceShape, VisitShape, NEW t \in Thread,
           \/ InInsert(t) \/ InRemove(t)
           \/ \E v \in Item : StartInsert(t, v) \/ Remove(t, v)
    PROVE  VisitShape'
<1>1. /\ UNCHANGED <<walk, visits>>
      /\ \A c \in Chunk : pc'[c] = pc[c] /\ slot'[c] = slot[c]
  BY Workers DEF InInsert, InRemove, StartInsert, Remove, PopFree, Store, CountInsert, LoadHead, SwapHead,
     PushSlot, Uncount, FreeRemoved, Clear, Goto, ListInductive, TypeOK, walkVars
<1>2. \A s \in Slot : Passed(s)' <=> Passed(s)
  BY <1>1, Slots DEF Passed
<1>3. \A c \in Chunk : (pc'[c] # "idle" => slot'[c][1] = c)
  BY <1>1 DEF VisitShape
<1>4. present \cap gone = {} /\ present \subseteq Item
  BY ChunkAssumption DEF VisitShape, PlaceShape, ListInductive, TypeOK, ChunkAssumption
<1>5. CASE UNCHANGED <<values, cllItem, gone, present>>
  BY <1>1, <1>2, <1>3, <1>4, <1>5, VisitKept
<1>6. CASE Store(t)
  <2>1. /\ t \in Worker /\ pc[t] = "store" /\ slot[t] \in Slot /\ values' = [values EXCEPT ![slot[t]] = item[t]]
        /\ UNCHANGED <<cllItem, gone, present>>
    BY <1>6, Workers DEF Store, Goto, ListInductive, PcShape
  <2>2. values[slot[t]] = Empty
    BY <2>1 DEF ListInductive, SlotShape, Busy, Takes
  <2>3. \A s \in Slot : values[s] # Empty => values'[s] = values[s]
    BY <2>1, <2>2 DEF ListInductive, TypeOK
  <2> QED
    BY <1>1, <1>2, <1>3, <1>4, <2>1, <2>3, VisitKept
<1>7. CASE CountInsert(t)
  <2>1. /\ pc[t] = "count" /\ item[t] # Empty /\ cllItem' = [cllItem EXCEPT ![item[t]] = slot[t]]
        /\ UNCHANGED <<values, gone, present>>
    BY <1>7, Workers DEF CountInsert, Goto, ListInductive, PcShape, Inserting
  <2>2. \A v \in Item : cllItem[v] # NoSlot => cllItem'[v] = cllItem[v]
    BY <2>1 DEF ListInductive, ItemShape, TypeOK
  <2> QED
    BY <1>1, <1>2, <1>3, <1>4, <2>1, <2>2, VisitKept
<1>8. ASSUME NEW v \in Item, Remove(t, v)
      PROVE  VisitShape'
  <2>1. /\ cllItem[v] \in Slot /\ values[cllItem[v]] = v /\ values' = [values EXCEPT ![cllItem[v]] = Empty]
        /\ gone' = gone \cup {v} /\ present' = present \ {v} /\ UNCHANGED cllItem
    BY <1>8 DEF Remove, Clear, ListInductive, TypeOK
  <2>2. \A s \in Slot : values[s] # Empty /\ values[s] \notin gone' => values'[s] = values[s]
    BY <2>1 DEF ListInductive, TypeOK
  <2> QED
    BY <1>1, <1>2, <1>3, <1>4, <2>1, <2>2, VisitKept
<1>9. CASE \/ PopFree(t) \/ LoadHead(t) \/ SwapHead(t) \/ PushSlot(t) \/ InRemove(t)
           \/ \E v \in Item : StartInsert(t, v)
  BY <1>5, <1>9 DEF PopFree, LoadHead, SwapHead, PushSlot, InRemove, Uncount, FreeRemoved, StartInsert
<1> QED
  BY <1>6, <1>7, <1>8, <1>9 DEF InInsert

LEMMA WorkerVisits ==
    ASSUME ListInductive, PlaceShape, VisitShape, CallShape, NEW c \in Chunk, InWalk(c)
    PROVE  VisitShape'
<1>1. c \in Worker /\ pc[c] # "idle" /\ walk # "none"
  BY Workers DEF InWalk, LoadSlot, VisitSlot, RefuseSlot, RemoveRefused, Uncount, FreeRefused, Goto,
     ListInductive, PcShape
<1>2. PICK s \in Slot : s = slot[c]
  BY <1>1 DEF ListInductive, PcShape
<1>3. s[1] = c /\ s[2] \in Nat
  BY <1>1, <1>2, Slots DEF VisitShape, Index
<1>4. present \cap gone = {} /\ present \subseteq Item
  BY ChunkAssumption DEF VisitShape, PlaceShape, ListInductive, TypeOK, ChunkAssumption
\* The worker stays at s and has done with it.
<1>5. ASSUME NEW to \in {"remove", "uncount", "free"}, pc' = [pc EXCEPT ![c] = to], slot' = slot
      PROVE  /\ \A b \in Chunk : (pc'[b] # "idle" => slot'[b][1] = b)
             /\ \A r \in Slot : Passed(r)' <=> Passed(r) \/ r = s
  <2>1. pc'[c] = to /\ \A b \in Chunk \ {c} : pc'[b] = pc[b]
    BY <1>1, <1>5, Workers DEF ListInductive, TypeOK
  <2>2. \A r \in Slot : r[1] \in Chunk /\ r[2] \in Nat /\ (r[1] = c => (r = s <=> r[2] = s[2]))
    BY <1>3, Slots DEF Index
  <2>3. \A b \in Chunk : (pc'[b] # "idle" => slot'[b][1] = b)
    BY <1>2, <1>3, <1>5, <2>1 DEF VisitShape
  <2>4. ASSUME NEW r \in Slot, r[1] = c
        PROVE  Passed(r)' <=> Passed(r) \/ r = s
    <3>1. Passed(r)' <=> s[2] >= r[2]
      BY <1>2, <1>3, <1>5, <2>1, <2>2, <2>4 DEF Passed
    <3>2. Passed(r) \/ r = s <=> s[2] >= r[2]
      BY <1>1, <1>2, <1>3, <2>2, <2>4 DEF Passed
    <3> QED
      BY <3>1, <3>2
  <2>5. ASSUME NEW r \in Slot, r[1] # c
        PROVE  Passed(r)' <=> Passed(r) \/ r = s
    BY <1>3, <1>5, <2>1, <2>2, <2>5 DEF Passed
  <2> QED
    BY <2>3, <2>4, <2>5
<1>6. pc[c] \notin {"visit", "call"} => Passed(s)
  BY <1>2, <1>3 DEF Passed
<1>7. CASE VisitSlot(c)
  BY <1>1, <1>2, <1>7, NextPasses, VisitCounted DEF VisitSlot
<1>8. CASE RefuseSlot(c)
  BY <1>1, <1>2, <1>5, <1>8, VisitCounted DEF RefuseSlot, Goto
<1>9. CASE FreeRefused(c)
  <2>1. /\ UNCHANGED <<values, cllItem, gone, present, walk, visits>> /\ NextSlot(c)
        /\ pc[c] = "free"
    BY <1>9 DEF FreeRefused, walkVars
  <2>2. /\ \A b \in Chunk : (pc'[b] # "idle" => slot'[b][1] = b)
        /\ \A r \in Slot : Passed(r)' <=> Passed(r) \/ r = s
    BY <1>1, <1>2, <2>1, NextPasses
  <2> QED
    BY <1>4, <1>6, <2>1, <2>2, VisitKept
<1>10. CASE Uncount(c)
  <2>1. /\ UNCHANGED <<values, cllItem, gone, present, walk, visits>> /\ slot' = slot
        /\ pc' = [pc EXCEPT ![c] = "free"] /\ pc[c] = "uncount"
    BY <1>10 DEF Uncount, Goto, walkVars
  <2> QED
    BY <1>4, <1>5, <1>6, <2>1, VisitKept
<1>11. CASE RemoveRefused(c)
  <2>1. UNCHANGED <<cllItem, walk, visits>> /\ pc[c] = "remove" /\ found[c] \in Item
    BY <1>11 DEF RemoveRefused, ListInductive, PcShape
  <2>2. CASE Clear(c, slot[c], found[c]) /\ pc' = [pc EXCEPT ![c] = "uncount"]
    <3>1. /\ values[s] = found[c] /\ values' = [values EXCEPT ![s] = Empty]
          /\ gone' = gone \cup {found[c]} /\ present' = present \ {found[c]} /\ slot' = slot
      BY <1>1, <1>2, <2>2 DEF Clear, ListInductive, TypeOK
    <3>2. \A r \in Slot : values[r] # Empty /\ values[r] \notin gone' => values'[r] = values[r]
      BY <3>1 DEF ListInductive, TypeOK
    <3> QED
      BY <1>4, <1>5, <1>6, <2>1, <2>2, <3>1, <3>2, VisitKept
  <2>3. CASE NextSlot(c) /\ UNCHANGED <<values, gone, present>>
    <3>1. /\ \A b \in Chunk : (pc'[b] # "idle" => slot'[b][1] = b)
          /\ \A r \in Slot : Passed(r)' <=> Passed(r) \/ r = s
      BY <1>1, <1>2, <2>3, NextPasses
    <3> QED
      BY <1>4, <1>6, <2>1, <2>3, <3>1, VisitKept
  <2> QED
    BY <1>11, <2>2, <2>3 DEF RemoveRefused
\* The worker loads s, and goes on when nothing is there.
<1>12. CASE LoadSlot(c) /\ values[s] = Empty
  <2>1. /\ UNCHANGED <<values, cllItem, gone, present, walk, visits>> /\ NextSlot(c)
        /\ pc[c] = "visit"
    BY <1>2, <1>12 DEF LoadSlot
  <2>2. /\ \A b \in Chunk : (pc'[b] # "idle" => slot'[b][1] = b)
        /\ \A r \in Slot : Passed(r)' <=> Passed(r) \/ r = s
    BY <1>1, <1>2, <2>1, NextPasses
  <2>3. \A v \in Item : v # values[s]
    BY <1>12, ChunkAssumption DEF ChunkAssumption
  <2> QED
    BY <1>4, <2>1, <2>2, <2>3 DEF VisitShape
<1>13. CASE LoadSlot(c) /\ values[s] # Empty
  <2>1. /\ UNCHANGED <<values, cllItem, gone, present, walk, visits, slot>> /\ pc[c] = "visit"
        /\ pc'[c] = "call" /\ \A b \in Chunk \ {c} : pc'[b] = pc[b]
    BY <1>1, <1>2, <1>13, Workers DEF LoadSlot, ListInductive, TypeOK
  <2>2. \A r \in Slot : Passed(r)' <=> Passed(r)
    BY <2>1, Slots DEF Passed
  <2>3. \A b \in Chunk : (pc'[b] # "idle" => slot'[b][1] = b)
    BY <2>1 DEF VisitShape
  <2> QED
    BY <1>4, <2>1, <2>2, <2>3, VisitKept
<1> QED
  BY <1>7, <1>8, <1>9, <1>10, <1>11, <1>12, <1>13 DEF InWalk

LEMMA WalkVisits ==
    ASSUME ListInductive, PlaceShape, VisitShape, EndWalk \/ \E kind \in Walks : StartWalk(kind)
    PROVE  VisitShape'
<1>1. CASE EndWalk
  <2>1. /\ present' = {} /\ visits' = [v \in Item |-> 0] /\ UNCHANGED <<pc, slot>>
    BY <1>1 DEF EndWalk, threadVars
  <2> QED
    BY <2>1 DEF VisitShape
<1>2. ASSUME NEW kind \in Walks, StartWalk(kind) PROVE VisitShape'
  <2>1. /\ walk' = kind /\ kind # "none" /\ walk = "none"
        /\ pc' = [w \in Worker |-> IF w \in Chunk /\ InList(w) THEN "visit" ELSE pc[w]]
        /\ slot' = [w \in Worker |-> IF w \in Chunk /\ InList(w) THEN <<w, 1>> ELSE slot[w]]
        /\ visits' = [v \in Item |-> 0]
        /\ present' = Stored
        /\ UNCHANGED <<values, gone>>
    BY <1>2, ChunkAssumption DEF StartWalk, ChunkAssumption
  <2>2. /\ \A c \in Chunk : InList(c) => pc'[c] = "visit" /\ slot'[c] = <<c, 1>>
        /\ \A c \in Chunk : ~InList(c) => pc'[c] = "idle"
    BY <2>1, Workers DEF ListInductive, PcShape
  <2>3. ASSUME NEW s \in Slot, values[s] # Empty
        PROVE  ~Passed(s)'
    <3>1. s[1] \in Chunk /\ s[2] \in Index /\ InList(s[1])
      BY <2>3, Slots DEF ListInductive, SlotShape, ListShape
    <3>2. pc'[s[1]] = "visit" /\ slot'[s[1]][2] = 1
      BY <2>2, <3>1
    <3> QED
      BY <3>1, <3>2 DEF Passed, Index
  <2>5. \A v \in present' : \E s \in Slot : values'[s] = v /\ (Passed(s)' => visits'[v] = 1)
    BY <2>1, <2>3 DEF Stored
  <2>6. \A v \in Item : visits'[v] = 0
    BY <2>1
  <2>7. \A c \in Chunk : pc'[c] # "idle" => slot'[c][1] = c
    BY <2>2
  <2> QED
    BY <2>1, <2>5, <2>6, <2>7 DEF VisitShape
<1> QED
  BY <1>1, <1>2

\* Where an item has been put stays known.
LEMMA PutInStays ==
    ASSUME ListInductive, [Next]_vars, NEW v \in Item, NEW s \in Slot, PutIn(v, s)
    PROVE  PutIn(v, s)'
<1>1. NoSlot \notin Slot /\ v # Empty
  BY ChunkAssumption DEF ChunkAssumption, Slot, NoSlot, Chunk
<1>2. CASE UNCHANGED cllItem /\ \A t \in Thread : pc[t] = "count" => /\ pc'[t] = "count"
                                                                    /\ slot'[t] = slot[t]
                                                                    /\ item'[t] = item[t]
  BY <1>2 DEF PutIn
<1>3. ASSUME NEW t \in Thread, CountInsert(t) PROVE PutIn(v, s)'
  <2>1. /\ t \in Worker /\ pc[t] = "count" /\ \A x \in Worker \ {t} : pc'[x] = pc[x]
        /\ item' = [item EXCEPT ![t] = Empty] /\ slot' = [slot EXCEPT ![t] = NoSlot]
        /\ cllItem' = [cllItem EXCEPT ![item[t]] = slot[t]] /\ item[t] \in Item
    BY <1>3, Workers, Step DEF CountInsert, ListInductive, PcShape, Inserting, TypeOK
  <2>2. cllItem[item[t]] = NoSlot /\ \A u \in Thread \ {t} : item[u] # item[t]
    BY <2>1, ChunkAssumption DEF ListInductive, ItemShape, ChunkAssumption
  <2>3. /\ cllItem'[item[t]] = slot[t] /\ \A x \in Item : x # item[t] => cllItem'[x] = cllItem[x]
        /\ \A u \in Thread \ {t} : pc'[u] = pc[u] /\ item'[u] = item[u] /\ slot'[u] = slot[u]
    BY <2>1, Workers DEF ListInductive, TypeOK
  <2> QED
    BY <1>1, <2>1, <2>2, <2>3 DEF PutIn
<1>4. ASSUME NEW t \in Thread,
             \/ InRemove(t) \/ PopFree(t) \/ Store(t) \/ LoadHead(t) \/ SwapHead(t) \/ PushSlot(t)
             \/ \E x \in Item : StartInsert(t, x) \/ Remove(t, x)
      PROVE  PutIn(v, s)'
  BY <1>2, <1>4, Workers DEF InRemove, PopFree, Store, LoadHead, SwapHead, PushSlot, Uncount,
     FreeRemoved, StartInsert, Remove, Clear, Goto, ListInductive, TypeOK
<1>5. ASSUME NEW c \in Chunk, InWalk(c) PROVE PutIn(v, s)'
  <2>1. c \notin Thread /\ c \in Worker
    BY Workers
  <2>2. UNCHANGED <<item, cllItem>>
    BY <1>5 DEF InWalk, LoadSlot, VisitSlot, RefuseSlot, RemoveRefused, Uncount, FreeRefused
  <2>3. \A t \in Thread : pc'[t] = pc[t] /\ slot'[t] = slot[t]
    BY <1>5, <2>1, Workers DEF InWalk, LoadSlot, VisitSlot, RefuseSlot, RemoveRefused, Uncount,
       FreeRefused, NextSlot, Clear, Goto, ListInductive, TypeOK
  <2> QED
    BY <1>2, <2>2, <2>3
<1>6. ASSUME EndWalk \/ (\E kind \in Walks : StartWalk(kind)) \/ UNCHANGED vars PROVE PutIn(v, s)'
  BY <1>2, <1>6, Workers DEF EndWalk, StartWalk, vars, threadVars
<1> QED
  BY <1>3, <1>4, <1>5, <1>6 DEF Next, InInsert

\* During a walk a slot that held something holds it still or it is gone, and what has been
\* there all along was not put there by the step.
LEMMA SlotStep ==
    ASSUME ListInductive, PlaceShape, VisitShape, [Next]_vars, walk # "none", NEW s \in Slot
    PROVE  /\ gone \subseteq gone'
           /\ values'[s] = values[s] \/ values[s] = Empty \/ values[s] \in gone'
           /\ values'[s] \in present' => values'[s] = values[s] /\ values[s] \in present
<1>1. Empty \notin present
  BY ChunkAssumption DEF ListInductive, TypeOK, ChunkAssumption
<1>2. CASE UNCHANGED <<values, gone, present>> \/ EndWalk
  BY <1>2 DEF EndWalk
<1>3. ASSUME NEW t \in Thread, Store(t)
      PROVE  /\ values[slot[t]] = Empty /\ item[t] \notin present
             /\ values' = [values EXCEPT ![slot[t]] = item[t]] /\ UNCHANGED <<gone, present>>
  <2>1. /\ pc[t] = "store" /\ slot[t] \in Slot /\ t \in Worker
        /\ values' = [values EXCEPT ![slot[t]] = item[t]] /\ UNCHANGED <<gone, present>>
    BY <1>3, Workers DEF Store, Goto, ListInductive, PcShape
  <2>2. cllItem[item[t]] = NoSlot /\ \A u \in Thread : item[u] = item[t] => u = t
    BY <2>1, Workers DEF ListInductive, ItemShape, PcShape, Inserting
  <2>3. NoSlot \notin Slot
    BY ChunkAssumption DEF ChunkAssumption, Slot, NoSlot, Chunk
  <2>4. item[t] \in present => \E r \in Slot : values[r] = item[t]
    BY DEF VisitShape
  <2> QED
    BY <1>1, <2>1, <2>2, <2>3, <2>4 DEF ListInductive, SlotShape, Busy, Takes, PlaceShape, PutIn
<1>4. ASSUME NEW w \in Worker, NEW r \in Slot, NEW v \in Item, Clear(w, r, v)
      PROVE  /\ gone \subseteq gone'
             /\ values'[s] = values[s] \/ values[s] = Empty \/ values[s] \in gone'
             /\ values'[s] \in present' => values'[s] = values[s] /\ values[s] \in present
  BY <1>1, <1>4 DEF Clear, ListInductive, TypeOK
<1>5. ASSUME NEW t \in Thread, NEW v \in Item, Remove(t, v)
      PROVE  t \in Worker /\ cllItem[v] \in Slot /\ Clear(t, cllItem[v], v)
  BY <1>5, Workers DEF Remove, ListInductive, TypeOK
<1>6. ASSUME NEW c \in Chunk, InWalk(c)
      PROVE  \/ UNCHANGED <<values, gone, present>>
             \/ c \in Worker /\ slot[c] \in Slot /\ found[c] \in Item /\ Clear(c, slot[c], found[c])
  BY <1>6, Workers DEF InWalk, LoadSlot, VisitSlot, RefuseSlot, RemoveRefused, Uncount, FreeRefused,
     ListInductive, PcShape
<1>7. ASSUME NEW t \in Thread, InInsert(t) \/ InRemove(t), ~Store(t)
      PROVE  UNCHANGED <<values, gone, present>>
  BY <1>7 DEF InInsert, InRemove, PopFree, CountInsert, LoadHead, SwapHead, PushSlot, Uncount, FreeRemoved
<1>8. ASSUME NEW t \in Thread, NEW v \in Item, StartInsert(t, v)
      PROVE  UNCHANGED <<values, gone, present>>
  BY <1>8 DEF StartInsert
<1>9. CASE \E t \in Thread : Store(t)
  <2>1. PICK t \in Thread : Store(t)
    BY <1>9
  <2>2. /\ values[slot[t]] = Empty /\ item[t] \notin present
        /\ values' = [values EXCEPT ![slot[t]] = item[t]] /\ UNCHANGED <<gone, present>>
    BY <1>3, <2>1
  <2>3. values \in [Slot -> Item \cup {Empty}]
    BY DEF ListInductive, TypeOK
  <2>4. CASE s = slot[t]
    BY <2>2, <2>3, <2>4
  <2>5. CASE s # slot[t]
    BY <2>2, <2>3, <2>5
  <2> QED
    BY <2>4, <2>5
<1>10. ~\E kind \in Walks : StartWalk(kind)
  BY DEF StartWalk
<1>11. UNCHANGED vars => UNCHANGED <<values, gone, present>>
  BY DEF vars
<1> QED
  BY <1>2, <1>4, <1>5, <1>6, <1>7, <1>8, <1>9, <1>10, <1>11 DEF Next

\* No two workers have loaded the same.
LEMMA OneCall ==
    ASSUME ListInductive, VisitShape, CallShape, NEW b \in Chunk, NEW c \in Chunk,
           pc[b] = "call", pc[c] = "call", found[b] = found[c]
    PROVE  b = c
<1>1. /\ found[c] \in Item /\ slot[b] \in Slot /\ slot[c] \in Slot
      /\ slot[b][1] = b /\ slot[c][1] = c
  BY Workers DEF ListInductive, PcShape, VisitShape
<1>2. slot[b] = slot[c]
  BY <1>1, OnePut DEF CallShape
<1> QED
  BY <1>1, <1>2

\* A worker that is about to call the function has just loaded its slot, or was about to
\* before; a call in another worker is on something else.
LEMMA CallStep ==
    ASSUME ListInductive, VisitShape, CallShape, [Next]_vars, NEW c \in Chunk, pc'[c] = "call",
           ~LoadSlot(c)
    PROVE  /\ pc[c] = "call" /\ found'[c] = found[c] /\ slot'[c] = slot[c]
           /\ visits'[found[c]] = 0
<1>1. /\ c \in Worker /\ c \notin Thread /\ \A b \in Chunk : b \in Worker /\ b \notin Thread
      /\ TypeOK /\ (pc[c] = "call" => found[c] \in Item /\ visits[found[c]] = 0)
  BY Workers DEF ListInductive, PcShape, CallShape
<1>2. ASSUME UNCHANGED visits, UNCHANGED found, pc'[c] = pc[c], slot'[c] = slot[c]
      PROVE  /\ pc[c] = "call" /\ found'[c] = found[c] /\ slot'[c] = slot[c]
             /\ visits'[found[c]] = 0
  BY <1>1, <1>2
<1>3. ASSUME NEW t \in Thread,
             \/ InInsert(t) \/ InRemove(t)
             \/ \E v \in Item : StartInsert(t, v) \/ Remove(t, v)
      PROVE  UNCHANGED visits /\ UNCHANGED found /\ pc'[c] = pc[c] /\ slot'[c] = slot[c]
  BY <1>1, <1>3, Workers DEF InInsert, InRemove, StartInsert, Remove, PopFree, Store, CountInsert,
     LoadHead, SwapHead, PushSlot, Uncount, FreeRemoved, Clear, Goto, TypeOK, walkVars
<1>4. ~\E kind \in Walks : StartWalk(kind)
  BY <1>1 DEF StartWalk, ListInductive, PcShape
<1>5. ~EndWalk
  BY <1>1 DEF EndWalk, WalkOver, threadVars
<1>6. ASSUME NEW b \in Chunk, InWalk(b), b # c
      PROVE  /\ pc[c] = "call" /\ found'[c] = found[c] /\ slot'[c] = slot[c]
             /\ visits'[found[c]] = 0
  <2>1. pc'[c] = pc[c] /\ slot'[c] = slot[c]
    BY <1>1, <1>6 DEF InWalk, LoadSlot, VisitSlot, RefuseSlot, RemoveRefused, Uncount, FreeRefused,
       NextSlot, Clear, Goto, TypeOK
  <2>2. found'[c] = found[c]
    BY <1>1, <1>6 DEF InWalk, LoadSlot, VisitSlot, RefuseSlot, RemoveRefused, Uncount, FreeRefused,
       walkVars, TypeOK
  <2>3. UNCHANGED visits \/ (pc[b] = "call" /\ Visit(b))
    BY <1>6 DEF InWalk, LoadSlot, VisitSlot, RefuseSlot, RemoveRefused, Uncount, FreeRefused,
       walkVars, Goto
  <2>4. pc[b] = "call" => found[b] # found[c]
    BY <1>6, <2>1, OneCall
  <2> QED
    BY <1>1, <2>1, <2>2, <2>3, <2>4 DEF Visit, TypeOK
<1>7. ~InWalk(c)
  BY <1>1 DEF InWalk, VisitSlot, RefuseSlot, RemoveRefused, Uncount, FreeRefused, NextSlot, Goto, TypeOK
<1>8. UNCHANGED vars => UNCHANGED visits /\ UNCHANGED found /\ pc'[c] = pc[c] /\ slot'[c] = slot[c]
  BY DEF vars, threadVars, walkVars
<1> QED
  BY <1>2, <1>3, <1>4, <1>5, <1>6, <1>7, <1>8 DEF Next

LEMMA CallKept ==
    ASSUME ListInductive, PlaceShape, VisitShape, CallShape, [Next]_vars
    PROVE  CallShape'
<1> SUFFICES ASSUME NEW c \in Chunk, pc'[c] = "call"
             PROVE  /\ PutIn(found[c], slot[c])'
                    /\ visits'[found'[c]] = 0
                    /\ values'[slot'[c]] = found'[c] \/ found'[c] \in gone'
                    /\ values'[slot'[c]] \in present' => values'[slot'[c]] = found'[c]
  BY DEF CallShape
<1>1. CASE LoadSlot(c)
  <2>1. /\ c \in Worker /\ pc[c] = "visit" /\ slot[c] \in Slot
        /\ UNCHANGED <<values, item, cllItem, visits, gone, present>>
    BY <1>1, Workers DEF LoadSlot, ListInductive, PcShape
  <2>2. values[slot[c]] # Empty
    BY <1>1, <2>1 DEF LoadSlot, NextSlot, ListInductive, TypeOK
  <2>3. /\ pc' = [pc EXCEPT ![c] = "call"] /\ UNCHANGED slot
        /\ found'[c] = values[slot[c]] /\ values[slot[c]] \in Item
    BY <1>1, <2>1, <2>2 DEF LoadSlot, ListInductive, TypeOK
  <2>4. visits[values[slot[c]]] = 0
    BY <2>1, <2>3, NotVisited
  <2>5. PutIn(values[slot[c]], slot[c])
    BY <2>1, <2>2 DEF PlaceShape
  <2>6. PutIn(found[c], slot[c])'
    BY <2>1, <2>3, <2>5, Workers DEF PutIn, ListInductive, TypeOK
  <2> QED
    BY <2>1, <2>3, <2>4, <2>6
<1>2. CASE ~LoadSlot(c)
  <2>1. /\ pc[c] = "call" /\ found'[c] = found[c] /\ slot'[c] = slot[c]
        /\ visits'[found[c]] = 0
    BY <1>2, CallStep
  <2>2. found[c] \in Item /\ slot[c] \in Slot /\ walk # "none" /\ found[c] # Empty
    BY <2>1, Workers, ChunkAssumption DEF ListInductive, PcShape, ChunkAssumption
  <2>3. PutIn(found[c], slot[c])'
    BY <2>1, <2>2, PutInStays DEF CallShape, PutIn
  <2> QED
    BY <2>1, <2>2, <2>3, SlotStep DEF CallShape
<1> QED
  BY <1>1, <1>2

\* With it, the strengthening is an inductive invariant of list and walks.
THEOREM WalksAreInductive == Spec => []WalksInductive
<1>1. Init => PlaceShape /\ VisitShape /\ CallShape
  BY PlaceInit
<1>2. /\ ListInductive /\ ListInductive' /\ PlaceShape /\ VisitShape /\ CallShape /\ [Next]_vars
      => PlaceShape' /\ VisitShape' /\ CallShape'
  <2> SUFFICES ASSUME ListInductive, ListInductive', PlaceShape, VisitShape, CallShape, [Next]_vars
               PROVE  VisitShape'
    BY PlaceStep, CallKept
  <2>1. CASE UNCHANGED vars
    BY <2>1 DEF vars, threadVars, walkVars, VisitShape, Passed
  <2> QED
    BY <2>1, ThreadVisits, WorkerVisits, WalkVisits DEF Next
<1> QED
  BY <1>1, <1>2, ListIsInductive, PTL DEF Spec, WalksInductive

-----------------------------------------------------------------------------
(* The estimated length.                                                   *)

Counting   == {t \in Thread : pc[t] = "count"}
Uncounting == {w \in Worker : pc[w] = "uncount"}
Counted ==
    /\ IsFiniteSet(Stored)
    /\ estimate + Cardinality(Counting) = Cardinality(Stored) + Cardinality(Uncounting)

LEMMA WorkersFinite == IsFiniteSet(Worker)
<1>1. IsFiniteSet(Chunk)
  BY FS_Interval, ChunkAssumption DEF Chunk, ChunkAssumption
<1> QED
  BY <1>1, FS_Union, ChunkAssumption DEF Worker, ChunkAssumption

LEMMA CountingFinite ==
    /\ \A T \in SUBSET Worker : IsFiniteSet(T) /\ Cardinality(T) \in Nat
    /\ Counting \in SUBSET Worker /\ Uncounting \in SUBSET Worker
    /\ Counting' \in SUBSET Worker /\ Uncounting' \in SUBSET Worker
<1>1. /\ Counting \in SUBSET Worker /\ Uncounting \in SUBSET Worker
      /\ Counting' \in SUBSET Worker /\ Uncounting' \in SUBSET Worker
  BY Workers DEF Counting, Uncounting
<1>2. \A T \in SUBSET Worker : IsFiniteSet(T) /\ Cardinality(T) \in Nat
  BY WorkersFinite, FS_Subset, FS_CardinalityType
<1> QED
  BY <1>1, <1>2

\* The threads about to count have stored an item each, so there are no more of them.
LEMMA EstimateNotNegative == WalksInductive /\ Counted => EstimateExact
<1> SUFFICES ASSUME WalksInductive, Counted PROVE EstimateExact
  OBVIOUS
<1>1. estimate \in Int /\ Cardinality(Stored) \in Nat /\ Cardinality(Counting) \in Nat
      /\ Cardinality(Uncounting) \in Nat
  BY CountingFinite, FS_CardinalityType DEF Counted, WalksInductive, ListInductive, TypeOK
<1>2. [t \in Counting |-> item[t]] \in Injection(Counting, Stored)
  <2>1. \A t \in Counting : /\ t \in Thread /\ item[t] # Empty /\ item[t] \in Stored
                            /\ \A u \in Counting : item[u] = item[t] => u = t
    BY Workers DEF Counting, Stored, WalksInductive, ListInductive, PcShape, ItemShape, Inserting
  <2> QED
    BY <2>1 DEF Injection, IsInjective
<1>3. Cardinality(Counting) <= Cardinality(Stored)
  BY <1>2, FS_Injection DEF Counted
<1>4. estimate >= 0
  BY <1>1, <1>3 DEF Counted
<1> QED
  BY <1>4 DEF EstimateExact, Counted, Counting, Uncounting

LEMMA EstimateInit == Init => Counted
<1> SUFFICES ASSUME Init PROVE Counted
  OBVIOUS
<1>1. Stored = {} /\ Counting = {} /\ Uncounting = {} /\ estimate = 0
  BY Workers DEF Init, Stored, Counting, Uncounting
<1>2. IsFiniteSet({}) /\ Cardinality({}) = 0
  BY FS_EmptySet
<1> QED
  BY <1>1, <1>2 DEF Counted

\* An item stored in an empty slot, and one taken out of the one slot it is in.
LEMMA StoredMore ==
    ASSUME ListInductive, NEW s \in Slot, NEW v \in Item, values[s] = Empty,
           values' = [values EXCEPT ![s] = v]
    PROVE  Stored' = Stored \cup {v}
<1>1. v # Empty /\ values'[s] = v /\ \A r \in Slot \ {s} : values'[r] = values[r]
  BY ChunkAssumption DEF ListInductive, TypeOK, ChunkAssumption
<1> QED
  BY <1>1 DEF Stored

LEMMA StoredLess ==
    ASSUME ListInductive, PlaceShape, NEW s \in Slot, values[s] # Empty,
           values' = [values EXCEPT ![s] = Empty]
    PROVE  Stored' = Stored \ {values[s]}
<1>1. values'[s] = Empty /\ \A r \in Slot \ {s} : values'[r] = values[r]
  BY DEF ListInductive, TypeOK
<1>2. \A r \in Slot : values[r] = values[s] => r = s
  BY OnePlace
<1> QED
  BY <1>1, <1>2 DEF Stored

\* An item whose insertion has not stored it is in no slot.
LEMMA NotStored ==
    ASSUME ListInductive, PlaceShape, NEW t \in Thread, pc[t] = "store"
    PROVE  item[t] \in Item /\ item[t] \notin Stored
<1>1. item[t] \in Item /\ item[t] # Empty
  BY Workers DEF ListInductive, TypeOK, PcShape, Inserting
<1>2. cllItem[item[t]] = NoSlot /\ \A u \in Thread : item[u] = item[t] => u = t
  BY <1>1 DEF ListInductive, ItemShape
<1>3. NoSlot \notin Slot
  BY ChunkAssumption DEF ChunkAssumption, Slot, NoSlot, Chunk
<1> QED
  BY <1>1, <1>2, <1>3 DEF PlaceShape, PutIn, Stored

\* Steps that count nothing and move no item.
LEMMA CountedKept ==
    ASSUME Counted, Stored' = Stored, estimate' = estimate,
           \A w \in Worker : /\ pc'[w] = "count" <=> pc[w] = "count"
                             /\ pc'[w] = "uncount" <=> pc[w] = "uncount"
    PROVE  Counted'
<1>1. Counting' = Counting /\ Uncounting' = Uncounting
  BY Workers DEF Counting, Uncounting
<1> QED
  BY <1>1 DEF Counted

\* Who starts or ends to count.
LEMMA Counters ==
    ASSUME TypeOK, NEW w \in Worker, NEW from, NEW to, Goto(w, from, to), w \in Thread \/ to # "count"
    PROVE  /\ Counting' = (IF to = "count" THEN Counting \cup {w} ELSE Counting \ {w})
           /\ Uncounting' = (IF to = "uncount" THEN Uncounting \cup {w} ELSE Uncounting \ {w})
           /\ from # "count" => w \notin Counting
           /\ from # "uncount" => w \notin Uncounting
           /\ from = "count" /\ w \in Thread => w \in Counting
           /\ from = "uncount" => w \in Uncounting
<1>1. pc[w] = from /\ pc'[w] = to /\ \A x \in Worker \ {w} : pc'[x] = pc[x]
  BY Step
<1> QED
  BY <1>1, Workers DEF Counting, Uncounting

LEMMA StoreCounts ==
    ASSUME ListInductive, PlaceShape, Counted, NEW t \in Thread, Store(t)
    PROVE  Counted'
<1>1. /\ t \in Worker /\ pc[t] = "store" /\ item[t] \in Item /\ slot[t] \in Slot
      /\ values' = [values EXCEPT ![slot[t]] = item[t]] /\ estimate' = estimate
      /\ Goto(t, "store", "count")
  BY Workers DEF Store, Goto, ListInductive, TypeOK, PcShape, Inserting
<1>2. values[slot[t]] = Empty
  BY <1>1 DEF ListInductive, SlotShape, Busy, Takes
<1>3. item[t] \notin Stored
  BY <1>1, NotStored
<1>4. Stored' = Stored \cup {item[t]}
  BY <1>1, <1>2, StoredMore
<1>5. IsFiniteSet(Stored') /\ Cardinality(Stored') = Cardinality(Stored) + 1
  BY <1>3, <1>4, FS_AddElement DEF Counted
<1>6. Uncounting' = Uncounting /\ Counting' = Counting \cup {t} /\ t \notin Counting
  BY <1>1, Counters DEF ListInductive
<1>7. Cardinality(Counting') = Cardinality(Counting) + 1
  BY <1>6, CountingFinite, FS_AddElement
<1> QED
  <2>1. estimate \in Int /\ Cardinality(Stored) \in Nat /\ Cardinality(Counting) \in Nat
        /\ Cardinality(Uncounting) \in Nat
    BY CountingFinite, FS_CardinalityType DEF Counted, ListInductive, TypeOK
  <2> QED
    BY <1>1, <1>5, <1>6, <1>7, <2>1 DEF Counted

LEMMA CountCounts ==
    ASSUME ListInductive, Counted, NEW t \in Thread, CountInsert(t)
    PROVE  Counted'
<1>1. /\ t \in Worker /\ values' = values /\ estimate' = estimate + 1 /\ Goto(t, "count", "idle")
  BY Workers DEF CountInsert
<1>2. Uncounting' = Uncounting /\ Counting' = Counting \ {t} /\ t \in Counting
  BY <1>1, Counters DEF ListInductive
<1>3. Cardinality(Counting') = Cardinality(Counting) - 1
  BY <1>2, CountingFinite, FS_RemoveElement
<1>4. estimate \in Int /\ Cardinality(Stored) \in Nat /\ Cardinality(Counting) \in Nat
      /\ Cardinality(Uncounting) \in Nat
  BY CountingFinite, FS_CardinalityType DEF Counted, ListInductive, TypeOK
<1>5. Stored' = Stored
  BY <1>1 DEF Stored
<1> QED
  BY <1>1, <1>2, <1>3, <1>4, <1>5 DEF Counted

LEMMA ClearCounts ==
    ASSUME ListInductive, PlaceShape, Counted, NEW w \in Worker, NEW s \in Slot, NEW from,
           Goto(w, from, "uncount"), from \notin {"count", "uncount"}, values[s] # Empty,
           values' = [values EXCEPT ![s] = Empty], estimate' = estimate
    PROVE  Counted'
<1>1. Stored' = Stored \ {values[s]} /\ values[s] \in Stored
  BY StoredLess DEF Stored
<1>2. IsFiniteSet(Stored') /\ Cardinality(Stored') = Cardinality(Stored) - 1
  BY <1>1, FS_RemoveElement DEF Counted
<1>3. Counting' = Counting /\ Uncounting' = Uncounting \cup {w} /\ w \notin Uncounting
  BY Counters DEF ListInductive
<1>4. Cardinality(Uncounting') = Cardinality(Uncounting) + 1
  BY <1>3, CountingFinite, FS_AddElement
<1>5. estimate \in Int /\ Cardinality(Stored) \in Nat /\ Cardinality(Counting) \in Nat
      /\ Cardinality(Uncounting) \in Nat
  BY CountingFinite, FS_CardinalityType DEF Counted, ListInductive, TypeOK
<1> QED
  BY <1>2, <1>3, <1>4, <1>5 DEF Counted

LEMMA UncountCounts ==
    ASSUME ListInductive, Counted, NEW w \in Worker, Uncount(w)
    PROVE  Counted'
<1>1. /\ values' = values /\ estimate' = estimate - 1 /\ Goto(w, "uncount", "free")
  BY DEF Uncount
<1>2. Counting' = Counting /\ Uncounting' = Uncounting \ {w} /\ w \in Uncounting
  BY <1>1, Counters DEF ListInductive
<1>3. Cardinality(Uncounting') = Cardinality(Uncounting) - 1
  BY <1>2, CountingFinite, FS_RemoveElement
<1>4. estimate \in Int /\ Cardinality(Stored) \in Nat /\ Cardinality(Counting) \in Nat
      /\ Cardinality(Uncounting) \in Nat
  BY CountingFinite, FS_CardinalityType DEF Counted, ListInductive, TypeOK
<1>5. Stored' = Stored
  BY <1>1 DEF Stored
<1> QED
  BY <1>1, <1>2, <1>3, <1>4, <1>5 DEF Counted

LEMMA StepCounts ==
    ASSUME ListInductive, PlaceShape, Counted, [Next]_vars
    PROVE  Counted'
<1>1. ASSUME NEW t \in Thread, InInsert(t) \/ InRemove(t)
      PROVE  Counted'
  <2>1. CASE PopFree(t) \/ LoadHead(t) \/ SwapHead(t) \/ PushSlot(t) \/ FreeRemoved(t)
    <3>1. t \in Worker /\ values' = values /\ estimate' = estimate
      BY <2>1, Workers DEF PopFree, LoadHead, SwapHead, PushSlot, FreeRemoved
    <3>2. \E from, to \in {"pop", "store", "load", "swap", "push", "free", "idle"} : Goto(t, from, to)
      BY <2>1 DEF PopFree, LoadHead, SwapHead, PushSlot, FreeRemoved
    <3> QED
      BY <3>1, <3>2, Step, CountedKept DEF Stored, ListInductive
  <2> QED
    BY <1>1, <2>1, StoreCounts, CountCounts, UncountCounts, Workers DEF InInsert, InRemove
<1>2. ASSUME NEW t \in Thread, NEW v \in Item, StartInsert(t, v)
      PROVE  Counted'
  BY <1>2, Workers, Step, CountedKept DEF StartInsert, Stored, ListInductive
<1>3. ASSUME NEW t \in Thread, NEW v \in Item, Remove(t, v)
      PROVE  Counted'
  <2>1. /\ cllItem[v] \in Slot /\ values[cllItem[v]] = v /\ v # Empty /\ t \in Worker
        /\ values' = [values EXCEPT ![cllItem[v]] = Empty] /\ estimate' = estimate
        /\ Goto(t, "idle", "uncount")
    BY <1>3, Workers, ChunkAssumption DEF Remove, Clear, ListInductive, TypeOK, ChunkAssumption
  <2> QED
    BY <2>1, ClearCounts
<1>4. ASSUME NEW c \in Chunk, InWalk(c)
      PROVE  Counted'
  <2>1. c \in Worker
    BY Workers
  <2>2. CASE LoadSlot(c) \/ VisitSlot(c) \/ FreeRefused(c)
    BY <2>1, <2>2, CountedKept DEF LoadSlot, VisitSlot, FreeRefused, NextSlot, Goto, Stored,
       ListInductive, TypeOK, Worker
  <2>3. CASE RefuseSlot(c)
    BY <2>1, <2>3, Step, CountedKept DEF RefuseSlot, Stored, ListInductive
  <2>4. CASE RemoveRefused(c)
    <3>1. /\ pc[c] = "remove" /\ slot[c] \in Slot /\ found[c] \in Item /\ found[c] # Empty
          /\ estimate' = estimate
      BY <2>1, <2>4, ChunkAssumption DEF RemoveRefused, ListInductive, PcShape, ChunkAssumption
    <3>2. CASE Clear(c, slot[c], found[c]) /\ pc' = [pc EXCEPT ![c] = "uncount"]
      BY <2>1, <3>1, <3>2, ClearCounts DEF Clear, Goto
    <3>3. CASE NextSlot(c) /\ UNCHANGED <<values, gone, present>>
      BY <2>1, <3>1, <3>3, CountedKept DEF NextSlot, Stored, ListInductive, TypeOK
    <3> QED
      BY <2>4, <3>2, <3>3 DEF RemoveRefused
  <2> QED
    BY <1>4, <2>1, <2>2, <2>3, <2>4, UncountCounts DEF InWalk
<1>5. ASSUME NEW kind \in Walks, StartWalk(kind)
      PROVE  Counted'
  <2>1. \A c \in Chunk : pc[c] = "idle"
    BY <1>5 DEF StartWalk, ListInductive, PcShape
  <2>2. \A w \in Worker : /\ pc'[w] = "count" <=> pc[w] = "count"
                          /\ pc'[w] = "uncount" <=> pc[w] = "uncount"
    BY <1>5, <2>1 DEF StartWalk
  <2> QED
    BY <1>5, <2>2, CountedKept DEF StartWalk, Stored
<1>6. CASE EndWalk \/ UNCHANGED vars
  BY <1>6, CountedKept DEF EndWalk, vars, threadVars, walkVars, Stored
<1> QED
  BY <1>1, <1>2, <1>3, <1>4, <1>5, <1>6 DEF Next

\* estimated_len is exact but for the calls in progress and never wraps, for any number of
\* threads and chunks.
THEOREM ListEstimates == Spec => []EstimateExact
<1>1. Spec => []Counted
  <2>1. WalksInductive /\ Counted /\ [Next]_vars => Counted'
    BY StepCounts DEF WalksInductive
  <2> QED
    BY <2>1, EstimateInit, WalksAreInductive, PTL DEF Spec
<1> QED
  BY <1>1, WalksAreInductive, EstimateNotNegative, PTL

-----------------------------------------------------------------------------
(* The list as a set that is walked over.                                  *)

\* Where no worker loads or calls, the same is loaded.
LEMMA LoadedKept ==
    ASSUME \A c \in Chunk : pc'[c] = "call" <=> pc[c] = "call",
           \A c \in Chunk : pc[c] = "call" => found'[c] = found[c]
    PROVE  Loaded' = Loaded
BY DEF Loaded

LEMMA ThreadLoads ==
    ASSUME TypeOK, NEW t \in Thread,
           \/ InInsert(t) \/ InRemove(t)
           \/ \E v \in Item : StartInsert(t, v) \/ Remove(t, v)
    PROVE  Loaded' = Loaded
<1>1. \A c \in Chunk : pc'[c] = pc[c]
  BY Workers DEF InInsert, InRemove, StartInsert, Remove, PopFree, Store, CountInsert, LoadHead,
     SwapHead, PushSlot, Uncount, FreeRemoved, Goto, TypeOK
<1>2. UNCHANGED found
  BY DEF InInsert, InRemove, StartInsert, Remove, PopFree, Store, CountInsert, LoadHead,
     SwapHead, PushSlot, Uncount, FreeRemoved, walkVars
<1> QED
  BY <1>1, <1>2, LoadedKept

LEMMA StoreRefines ==
    ASSUME WalksInductive, NEW t \in Thread, Store(t)
    PROVE  Promise!Insert(item[t])
<1>1. /\ pc[t] = "store" /\ slot[t] \in Slot /\ values' = [values EXCEPT ![slot[t]] = item[t]]
      /\ UNCHANGED <<walk, present, visits>> /\ Loaded' = Loaded
  BY Workers, ThreadLoads DEF Store, Goto, InInsert, walkVars, WalksInductive, ListInductive, PcShape
<1>2. values[slot[t]] = Empty
  BY <1>1, Workers DEF WalksInductive, ListInductive, SlotShape, Busy, Takes
<1>3. item[t] \in Item \ Stored
  BY <1>1, NotStored DEF WalksInductive
<1>4. Stored' = Stored \cup {item[t]}
  BY <1>1, <1>2, <1>3, StoredMore DEF WalksInductive
<1> QED
  BY <1>1, <1>3, <1>4 DEF Promise!Insert

LEMMA ClearRefines ==
    ASSUME WalksInductive, NEW w \in Worker, NEW s \in Slot, NEW v \in Item, Clear(w, s, v),
           UNCHANGED <<walk, visits>>, Loaded' = Loaded
    PROVE  Promise!Remove(v)
<1>1. /\ values[s] = v /\ v # Empty /\ values' = [values EXCEPT ![s] = Empty]
      /\ present' = present \ {v}
  BY ChunkAssumption DEF Clear, ChunkAssumption
<1>2. Stored' = Stored \ {v} /\ v \in Stored
  BY <1>1, StoredLess DEF WalksInductive, Stored
<1> QED
  BY <1>1, <1>2 DEF Promise!Remove

\* A worker loads what nobody has loaded or visited, or finds its slot empty.
LEMMA LoadRefines ==
    ASSUME WalksInductive, NEW c \in Chunk, LoadSlot(c)
    PROVE  \/ \E v \in Item : Promise!LoadItem(v)
           \/ UNCHANGED Promise!enumerationVars
<1>1. /\ TypeOK /\ c \in Worker /\ pc[c] = "visit" /\ slot[c] \in Slot /\ slot[c][1] = c
      /\ walk # "none" /\ UNCHANGED <<walk, present, visits>> /\ UNCHANGED Stored
  BY Workers DEF LoadSlot, WalksInductive, ListInductive, PcShape, VisitShape, Stored
<1>2. CASE values[slot[c]] = Empty
  <2>1. /\ UNCHANGED found /\ pc'[c] \in {"idle", "visit"}
        /\ \A b \in Chunk \ {c} : pc'[b] = pc[b]
    BY <1>1, <1>2, Workers DEF LoadSlot, NextSlot, TypeOK
  <2>2. Loaded' = Loaded
    BY <1>1, <2>1, LoadedKept
  <2> QED
    BY <1>1, <2>2 DEF Promise!enumerationVars
<1>3. CASE values[slot[c]] # Empty
  <2>1. PICK v \in Item : v = values[slot[c]]
    BY <1>1, <1>3 DEF TypeOK
  <2>2. /\ pc'[c] = "call" /\ found'[c] = v
        /\ \A b \in Chunk \ {c} : pc'[b] = pc[b] /\ found'[b] = found[b]
    BY <1>1, <1>3, <2>1, Workers DEF LoadSlot, TypeOK
  <2>3. Loaded' = Loaded \cup {v}
    <3>1. \A b \in Chunk : pc'[b] = "call" <=> b = c \/ pc[b] = "call"
      BY <2>2
    <3> QED
      BY <1>1, <2>2, <3>1 DEF Loaded
  <2>4. v \in Stored /\ visits[v] = 0
    BY <1>1, <1>3, <2>1, NotVisited DEF Stored, WalksInductive
  <2>5. ASSUME NEW b \in Chunk, pc[b] = "call", found[b] = v
        PROVE  FALSE
    <3>1. slot[b] \in Slot /\ slot[b][1] = b /\ PutIn(v, slot[b])
      BY <2>5, Workers DEF WalksInductive, ListInductive, PcShape, VisitShape, CallShape
    <3>2. PutIn(v, slot[c])
      BY <1>1, <1>3, <2>1 DEF WalksInductive, PlaceShape
    <3>3. slot[b] = slot[c]
      BY <1>1, <3>1, <3>2, OnePut DEF WalksInductive
    <3> QED
      BY <1>1, <2>5, <3>1, <3>3
  <2>6. v \notin Loaded
    BY <2>5 DEF Loaded
  <2> QED
    BY <1>1, <2>3, <2>4, <2>6 DEF Promise!LoadItem
<1> QED
  BY <1>2, <1>3

LEMMA VisitRefines ==
    ASSUME WalksInductive, NEW c \in Chunk, VisitSlot(c) \/ RefuseSlot(c)
    PROVE  \E v \in Item : Promise!VisitItem(v)
<1>1. /\ TypeOK /\ c \in Worker /\ pc[c] = "call" /\ Visit(c)
      /\ UNCHANGED <<values, walk, present>> /\ UNCHANGED Stored
  BY Workers DEF VisitSlot, RefuseSlot, Goto, WalksInductive, ListInductive, Stored
<1>2. PICK v \in Item : v = found[c] /\ visits[v] = 0
  BY <1>1 DEF WalksInductive, ListInductive, PcShape, CallShape
<1>3. visits' = [visits EXCEPT ![v] = 1]
  BY <1>1, <1>2 DEF Visit
<1>4. /\ pc'[c] # "call" /\ \A b \in Chunk \ {c} : pc'[b] = pc[b] /\ found'[b] = found[b]
  BY <1>1, Workers DEF VisitSlot, RefuseSlot, NextSlot, Goto, TypeOK
<1>5. \A b \in Chunk : pc[b] = "call" /\ found[b] = v => b = c
  BY <1>1, <1>2, OneCall DEF WalksInductive
<1>6. Loaded' = Loaded \ {v} /\ v \in Loaded
  <2>1. \A b \in Chunk : pc'[b] = "call" <=> b # c /\ pc[b] = "call"
    BY <1>4
  <2> QED
    BY <1>1, <1>2, <1>4, <1>5, <2>1 DEF Loaded
<1> QED
  BY <1>1, <1>3, <1>6 DEF Promise!VisitItem

\* When all workers are done they have visited everything.
LEMMA EndRefines ==
    ASSUME WalksInductive, EndWalk
    PROVE  Promise!EndWalk
<1>1. /\ walk # "none" /\ walk' = "none" /\ visits' = [v \in Item |-> 0] /\ present' = {}
      /\ UNCHANGED Stored /\ \A c \in Chunk : pc[c] = "idle" /\ pc'[c] = "idle"
  BY DEF EndWalk, WalkOver, Stored, threadVars
<1>2. \A s \in Slot : Passed(s)
  BY <1>1, Slots DEF Passed
<1>3. \A v \in present : visits[v] = 1
  BY <1>2 DEF WalksInductive, VisitShape
<1>4. Loaded = {} /\ Loaded' = {}
  BY <1>1 DEF Loaded
<1> QED
  BY <1>1, <1>3, <1>4 DEF Promise!EndWalk, Promise!NoVisits

LEMMA StepRefines ==
    ASSUME WalksInductive, [Next]_vars
    PROVE  [Promise!EnumerationNext]_(Promise!enumerationVars)
<1>1. CASE UNCHANGED <<values, walk, present, visits>> /\ Loaded' = Loaded
  BY <1>1 DEF Stored, Promise!enumerationVars
<1>2. ASSUME NEW t \in Thread, InInsert(t) \/ InRemove(t)
      PROVE  [Promise!EnumerationNext]_(Promise!enumerationVars)
  <2>1. CASE Store(t)
    BY <2>1, StoreRefines, NotStored DEF Store, Goto, Promise!EnumerationNext, WalksInductive
  <2>2. CASE ~Store(t)
    <3>1. Loaded' = Loaded
      BY <1>2, ThreadLoads DEF WalksInductive, ListInductive
    <3> QED
      BY <1>1, <1>2, <2>2, <3>1 DEF InInsert, InRemove, PopFree, CountInsert, LoadHead, SwapHead,
         PushSlot, Uncount, FreeRemoved, walkVars
  <2> QED
    BY <2>1, <2>2
<1>3. ASSUME NEW t \in Thread, NEW v \in Item, StartInsert(t, v) \/ Remove(t, v)
      PROVE  [Promise!EnumerationNext]_(Promise!enumerationVars)
  <2>1. Loaded' = Loaded
    BY <1>3, ThreadLoads DEF WalksInductive, ListInductive
  <2>2. CASE StartInsert(t, v)
    BY <1>1, <2>1, <2>2 DEF StartInsert, walkVars
  <2>3. CASE Remove(t, v)
    <3>1. t \in Worker /\ cllItem[v] \in Slot /\ Clear(t, cllItem[v], v) /\ UNCHANGED <<walk, visits>>
      BY <2>3, Workers DEF Remove, walkVars, WalksInductive, ListInductive, TypeOK
    <3> QED
      BY <2>1, <3>1, ClearRefines DEF Promise!EnumerationNext
  <2> QED
    BY <1>3, <2>2, <2>3
<1>4. ASSUME NEW c \in Chunk, InWalk(c)
      PROVE  [Promise!EnumerationNext]_(Promise!enumerationVars)
  <2>1. CASE LoadSlot(c) \/ VisitSlot(c) \/ RefuseSlot(c)
    BY <2>1, LoadRefines, VisitRefines DEF Promise!EnumerationNext
  <2>2. CASE RemoveRefused(c)
    <3>1. /\ c \in Worker /\ slot[c] \in Slot /\ found[c] \in Item /\ UNCHANGED <<walk, visits>>
          /\ pc[c] = "remove" /\ TypeOK
      BY <2>2, Workers DEF RemoveRefused, WalksInductive, ListInductive, PcShape
    <3>2. /\ pc'[c] # "call"
          /\ \A b \in Chunk \ {c} : pc'[b] = pc[b] /\ found'[b] = found[b]
      BY <2>2, <3>1, Workers DEF RemoveRefused, NextSlot, TypeOK
    <3>3. Loaded' = Loaded
      BY <3>1, <3>2, LoadedKept
    <3>4. CASE Clear(c, slot[c], found[c])
      BY <3>1, <3>3, <3>4, ClearRefines DEF Promise!EnumerationNext
    <3>5. CASE UNCHANGED <<values, gone, present>>
      BY <1>1, <3>1, <3>3, <3>5
    <3> QED
      BY <2>2, <3>4, <3>5 DEF RemoveRefused
  <2>3. CASE Uncount(c) \/ FreeRefused(c)
    <3>1. /\ c \in Worker /\ pc[c] # "call" /\ pc'[c] # "call" /\ UNCHANGED found
          /\ \A b \in Chunk \ {c} : pc'[b] = pc[b]
      BY <2>3, Workers DEF Uncount, FreeRefused, NextSlot, Goto, WalksInductive, ListInductive,
         TypeOK, walkVars
    <3>2. Loaded' = Loaded
      BY <3>1, LoadedKept
    <3> QED
      BY <1>1, <2>3, <3>2 DEF Uncount, FreeRefused, walkVars
  <2> QED
    BY <1>4, <2>1, <2>2, <2>3 DEF InWalk
<1>5. ASSUME NEW kind \in Walks, StartWalk(kind)
      PROVE  Promise!BeginWalk
  <2>1. \A c \in Chunk : pc[c] # "call" /\ pc'[c] # "call"
    BY <1>5, Workers DEF StartWalk, WalksInductive, ListInductive, PcShape
  <2>2. Loaded' = Loaded
    BY <2>1 DEF Loaded
  <2> QED
    BY <1>5, <2>2, ChunkAssumption DEF StartWalk, Stored, Promise!BeginWalk, Promise!NoVisits,
       ChunkAssumption
<1>6. UNCHANGED vars => UNCHANGED <<values, walk, present, visits>> /\ Loaded' = Loaded
  BY DEF vars, threadVars, walkVars, Loaded
<1> QED
  BY <1>1, <1>2, <1>3, <1>4, <1>5, <1>6, EndRefines DEF Next, Promise!EnumerationNext

\* The list implements Enumeration, for any chunk size: insertions and removals take effect
\* at one instant, and walks miss nothing that stays, call their function on nothing twice,
\* and on nothing that was not in the list when its slot was loaded.
THEOREM ListRefinement == Spec => ImplementsEnumeration
<1>1. Init => Promise!EnumerationInit
  BY Workers DEF Init, Stored, Loaded, Promise!EnumerationInit, Promise!NoVisits
<1>2. WalksInductive /\ [Next]_vars => [Promise!EnumerationNext]_(Promise!enumerationVars)
  BY StepRefines
<1> QED
  BY <1>1, <1>2, WalksAreInductive, PTL DEF Spec, ImplementsEnumeration, Promise!EnumerationSpec

=============================================================================
