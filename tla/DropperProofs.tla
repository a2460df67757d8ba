---------------------------- MODULE DropperProofs ----------------------------
(* Lemmas about the drop thread, for the modules that own one: each of its steps, and  *)
(* each step of those who send to it, preserves DropperInductive.                      *)
EXTENDS Dropper, TLAPS

\* The message at the head is taken out of the channel.
LEMMA ChannelTail ==
    ASSUME channel \in Seq(DropMessage), channel # <<>>, channel' = Tail(channel)
    PROVE  /\ channel' \in Seq(DropMessage)
           /\ Head(channel) = channel[1] /\ channel[1] \in DropMessage
           /\ Len(channel) \in Nat \ {0} /\ Len(channel') = Len(channel) - 1
           /\ DOMAIN channel = 1 .. Len(channel) /\ DOMAIN channel' = 1 .. Len(channel')
           /\ \A i \in DOMAIN channel' : i + 1 \in DOMAIN channel /\ channel'[i] = channel[i + 1]
           /\ \A i \in DOMAIN channel : i # 1 => i - 1 \in DOMAIN channel'
                                                 /\ channel'[i - 1] = channel[i]
OBVIOUS

\* A message is put at the end of the channel.
LEMMA ChannelAppend ==
    ASSUME channel \in Seq(DropMessage), NEW m \in DropMessage, channel' = Append(channel, m)
    PROVE  /\ channel' \in Seq(DropMessage)
           /\ Len(channel) \in Nat /\ Len(channel') = Len(channel) + 1
           /\ DOMAIN channel = 1 .. Len(channel) /\ DOMAIN channel' = 1 .. Len(channel')
           /\ \A i \in DOMAIN channel : i \in DOMAIN channel' /\ channel'[i] = channel[i]
           /\ \A i \in DOMAIN channel' : i \notin DOMAIN channel => i = Len(channel')
           /\ channel'[Len(channel')] = m /\ Len(channel') \in DOMAIN channel'
OBVIOUS

\* Data messages and SyncUps.
LEMMA Messages ==
    /\ \A S \in SUBSET Data : DataToDrop(S) \in DropMessage /\ DataToDrop(S).kind = "data"
                              /\ DataToDrop(S).items = S
    /\ \A c \in Client : SyncUp(c) \in DropMessage /\ SyncUp(c).kind = "sync"
                         /\ SyncUp(c).from = c
    /\ \A m \in DropMessage : \/ m.kind = "data" /\ m.items \in SUBSET Data
                              \/ m.kind = "sync" /\ m.from \in Client
BY DEF DataToDrop, SyncUp, DropMessage

LEMMA DropperInitInductive == DropperInit => DropperInductive
BY DEF DropperInit, DropperInductive, DropperTypeOK, DropperShape, DropperOnce, SyncsOnce

\* What is not at the head of the channel stays in it when the head is taken.
LEMMA RequestsKept ==
    ASSUME channel \in Seq(DropMessage), channel # <<>>, channel' = Tail(channel),
           NEW c, Requested(c), IsSync(1) => channel[1].from # c
    PROVE  Requested(c)'
<1>1. PICK i \in DOMAIN channel : IsSync(i) /\ channel[i].from = c
  BY DEF Requested
<1>2. i # 1
  BY <1>1
<1> QED
  BY <1>1, <1>2, ChannelTail DEF Requested, IsSync

LEMMA ReceiveDataInductive ==
    ASSUME DropperInductive, ReceiveData
    PROVE  DropperInductive'
<1>1. /\ channel \in Seq(DropMessage) /\ channel # <<>> /\ channel' = Tail(channel)
      /\ Head(channel).kind = "data" /\ stage = "recv" /\ stage' = "flag"
      /\ batch' = Head(channel).items /\ pending' = Head(channel).items
      /\ UNCHANGED <<running, deallocated, destroyed, sync, sent>>
  BY DEF ReceiveData, DropperInductive, DropperTypeOK
<1>2. /\ batch = {} /\ running = {} /\ IsData(1) /\ batch' = channel[1].items
      /\ destroyed' = destroyed
  BY <1>1, ChannelTail DEF DropperInductive, DropperShape, IsData
<1>3. channel[1].items \in SUBSET Data
  BY <1>1, <1>2, ChannelTail, Messages DEF IsData
<1>4. DropperTypeOK'
  BY <1>1, <1>2, <1>3, ChannelTail DEF DropperInductive, DropperTypeOK
<1>5. DropperShape'
  <2>1. \A d \in sent : d \in batch' \cup destroyed \/ InChannel(d)'
    <3> SUFFICES ASSUME NEW d \in sent, d \notin destroyed, d \notin channel[1].items
                 PROVE  InChannel(d)'
      BY <1>2
    <3>1. PICK i \in DOMAIN channel : IsData(i) /\ d \in channel[i].items
      BY <1>2 DEF DropperInductive, DropperShape, InChannel
    <3>2. i # 1
      BY <3>1
    <3> QED
      BY <1>1, <3>1, <3>2, ChannelTail DEF InChannel, IsData
  <2> QED
    BY <1>1, <1>2, <2>1 DEF DropperShape
<1>6. DropperOnce'
  <2>1. \A i \in DOMAIN channel' : IsData(i)' => IsData(i + 1) /\ i + 1 # 1
                                   /\ i + 1 \in DOMAIN channel /\ channel'[i] = channel[i + 1]
    BY <1>1, ChannelTail DEF IsData
  <2>2. \A i \in DOMAIN channel : IsData(i) =>
           channel[i].items \subseteq sent \ destroyed
           /\ (i # 1 => channel[i].items \cap channel[1].items = {})
    BY <1>1, <1>2, ChannelTail DEF DropperInductive, DropperOnce
  <2>3. \A i \in DOMAIN channel' : IsData(i)' =>
           channel'[i].items \subseteq sent \ (batch' \cup destroyed)
    BY <1>2, <2>1, <2>2
  <2>4. \A i, j \in DOMAIN channel' : IsData(i)' /\ IsData(j)' /\ i # j
           => channel'[i].items \cap channel'[j].items = {}
    <3> SUFFICES ASSUME NEW i \in DOMAIN channel', NEW j \in DOMAIN channel',
                        IsData(i)', IsData(j)', i # j
                 PROVE  channel'[i].items \cap channel'[j].items = {}
      OBVIOUS
    <3>1. i + 1 # j + 1
      BY <1>1, ChannelTail
    <3> QED
      BY <2>1, <3>1 DEF DropperInductive, DropperOnce
  <2>5. batch' \subseteq sent \ destroyed
    BY <1>1, <1>2, <2>2, ChannelTail
  <2> QED
    BY <1>1, <1>2, <2>3, <2>4, <2>5 DEF DropperInductive, DropperOnce
<1>7. SyncsOnce'
  <2>1. \A i \in DOMAIN channel' : IsSync(i)' => IsSync(i + 1)
                                   /\ i + 1 \in DOMAIN channel /\ channel'[i] = channel[i + 1]
    BY <1>1, ChannelTail DEF IsSync
  <2>2. \A i, j \in DOMAIN channel' : i + 1 = j + 1 => i = j
    BY <1>1, ChannelTail
  <2>3. ~IsSync(1)
    BY <1>1, ChannelTail DEF IsSync
  <2>4. \A c \in Client : sync'[c] = "waiting" => Requested(c)'
    BY <1>1, <2>3, RequestsKept DEF DropperInductive, SyncsOnce
  <2> QED
    BY <1>1, <2>1, <2>2, <2>4 DEF DropperInductive, SyncsOnce
<1> QED
  BY <1>4, <1>5, <1>6, <1>7 DEF DropperInductive

LEMMA AnswerSyncInductive ==
    ASSUME DropperInductive, AnswerSync
    PROVE  DropperInductive'
<1>1. /\ channel \in Seq(DropMessage) /\ channel # <<>> /\ channel' = Tail(channel)
      /\ Head(channel).kind = "sync"
      /\ sync' = [sync EXCEPT ![Head(channel).from] = "answered"]
      /\ UNCHANGED <<stage, batch, pending, running, deallocated, destroyed, sent>>
  BY DEF AnswerSync, DropperInductive, DropperTypeOK
<1>2. IsSync(1) /\ ~IsData(1) /\ channel[1].from \in Client /\ destroyed' = destroyed
      /\ sync' = [sync EXCEPT ![channel[1].from] = "answered"]
  BY <1>1, ChannelTail, Messages DEF IsSync, IsData
<1>3. \A i \in DOMAIN channel' : i + 1 \in DOMAIN channel /\ channel'[i] = channel[i + 1]
                                 /\ IsData(i)' = IsData(i + 1) /\ IsSync(i)' = IsSync(i + 1)
                                 /\ i + 1 # 1
  BY <1>1, ChannelTail DEF IsData, IsSync
<1>4. DropperTypeOK'
  BY <1>1, <1>2, ChannelTail DEF DropperInductive, DropperTypeOK
<1>5. DropperShape'
  <2>1. \A d : InChannel(d) => InChannel(d)'
    <3> SUFFICES ASSUME NEW d, NEW i \in DOMAIN channel, IsData(i), d \in channel[i].items
                 PROVE  InChannel(d)'
      BY DEF InChannel
    <3>1. i # 1
      BY <1>2
    <3> QED
      BY <1>1, <3>1, ChannelTail DEF InChannel, IsData
  <2> QED
    BY <1>1, <1>2, <2>1 DEF DropperInductive, DropperShape
<1>6. \A i, j \in DOMAIN channel' : i + 1 = j + 1 => i = j
  BY <1>1, ChannelTail
<1>7. DropperOnce'
  BY <1>1, <1>2, <1>3, <1>6 DEF DropperInductive, DropperOnce
<1>8. SyncsOnce'
  <2>1. \A i \in DOMAIN channel' : IsSync(i)' => channel'[i].from # channel[1].from
    BY <1>1, <1>2, <1>3, ChannelTail DEF DropperInductive, SyncsOnce
  <2>2. \A i \in DOMAIN channel' : IsSync(i)' => channel'[i].from \in Client
    BY <1>1, ChannelTail, Messages DEF IsSync
  <2>3. \A i \in DOMAIN channel' : IsSync(i)' => sync'[channel'[i].from] = "waiting"
    BY <1>2, <1>3, <2>1, <2>2 DEF DropperInductive, SyncsOnce, DropperTypeOK
  <2>4. \A c \in Client : sync'[c] = "waiting" => Requested(c)'
    BY <1>1, <1>2, RequestsKept DEF DropperInductive, SyncsOnce, DropperTypeOK
  <2> QED
    BY <1>3, <1>6, <2>3, <2>4 DEF DropperInductive, SyncsOnce
<1> QED
  BY <1>4, <1>5, <1>7, <1>8 DEF DropperInductive

\* The passes over a batch leave the channel alone.
LEMMA PassesInductive ==
    ASSUME DropperInductive,
           StartDrops \/ EndBatch \/ \E d \in Data : FlagDeallocated(d) \/ StartDeallocate(d)
    PROVE  DropperInductive'
<1>1. /\ UNCHANGED <<channel, sync, sent, destroyed>> /\ destroyed' = destroyed
      /\ batch' \subseteq batch
  BY DEF StartDrops, EndBatch, FlagDeallocated, StartDeallocate
<1>2. \A i \in DOMAIN channel : IsData(i)' = IsData(i) /\ IsSync(i)' = IsSync(i)
  BY <1>1 DEF IsData, IsSync
<1>3. \A d : InChannel(d)' = InChannel(d)
  BY <1>1 DEF InChannel, IsData
<1>4. DropperTypeOK'
  BY DEF StartDrops, EndBatch, FlagDeallocated, StartDeallocate, DropperInductive,
     DropperTypeOK
<1>5. DropperShape'
  BY <1>1, <1>3 DEF StartDrops, EndBatch, FlagDeallocated, StartDeallocate, DropperInductive,
     DropperShape, DropperTypeOK
<1>6. /\ running' \cap destroyed = {}
      /\ stage' = "flag" => batch' \cap destroyed = {} /\ batch' \ pending' \subseteq deallocated'
      /\ stage' = "drop" => /\ batch' \subseteq deallocated'
                            /\ pending' \cap (running' \cup destroyed) = {}
  BY DEF StartDrops, EndBatch, FlagDeallocated, StartDeallocate, DropperInductive,
     DropperShape, DropperOnce, DropperTypeOK
<1>7. DropperOnce'
  BY <1>1, <1>2, <1>6 DEF DropperInductive, DropperOnce
<1>8. SyncsOnce'
  BY <1>1, <1>2 DEF DropperInductive, SyncsOnce, Requested
<1> QED
  BY <1>4, <1>5, <1>7, <1>8 DEF DropperInductive

LEMMA DropThreadInductive ==
    ASSUME DropperInductive, DropThread
    PROVE  DropperInductive'
BY ReceiveDataInductive, AnswerSyncInductive, PassesInductive DEF DropThread

\* A destructor ends, in a panic or not.
LEMMA EndDeallocateInductive ==
    ASSUME DropperInductive, NEW d \in Data, NEW panicked \in BOOLEAN,
           EndDeallocate(d, panicked)
    PROVE  DropperInductive'
<1>1. /\ UNCHANGED <<channel, sync, sent, stage, batch, pending, deallocated>>
      /\ d \in running /\ running' = running \ {d} /\ destroyed' = destroyed \cup {d}
      /\ destroyed' \subseteq destroyed \cup {d}
  BY DEF EndDeallocate
<1>2. stage = "drop" /\ d \in batch
  BY <1>1 DEF DropperInductive, DropperShape, DropperTypeOK
<1>3. \A i \in DOMAIN channel : IsData(i)' = IsData(i) /\ IsSync(i)' = IsSync(i)
  BY <1>1 DEF IsData, IsSync
<1>4. \A e : InChannel(e)' = InChannel(e)
  BY <1>1 DEF InChannel, IsData
<1>5. DropperTypeOK'
  BY <1>1 DEF DropperInductive, DropperTypeOK
<1>6. DropperShape'
  BY <1>1, <1>4 DEF DropperInductive, DropperShape
<1>7. DropperOnce'
  BY <1>1, <1>2, <1>3 DEF DropperInductive, DropperOnce
<1>8. SyncsOnce'
  BY <1>1, <1>3 DEF DropperInductive, SyncsOnce, Requested
<1> QED
  BY <1>5, <1>6, <1>7, <1>8 DEF DropperInductive

\* A batch is sent that was never sent before.
LEMMA SendDataInductive ==
    ASSUME DropperInductive, NEW S \in SUBSET Data, S \cap sent = {}, SendData(S)
    PROVE  DropperInductive'
<1>1. /\ channel \in Seq(DropMessage) /\ channel' = Append(channel, DataToDrop(S))
      /\ sent' = sent \cup S /\ DataToDrop(S) \in DropMessage
      /\ UNCHANGED <<stage, batch, pending, running, deallocated, destroyed, sync>>
  BY Messages DEF SendData, DropperInductive, DropperTypeOK
<1> DEFINE last == Len(channel')
<1>2. \A i \in DOMAIN channel' : \/ i = last /\ IsData(i)' /\ ~IsSync(i)' /\ channel'[i].items = S
                                 \/ /\ i \in DOMAIN channel /\ channel'[i] = channel[i]
                                    /\ IsData(i)' = IsData(i) /\ IsSync(i)' = IsSync(i)
  BY <1>1, ChannelAppend, Messages DEF IsData, IsSync
<1>3. \A d : InChannel(d) \/ d \in S => InChannel(d)'
  BY <1>1, ChannelAppend, Messages DEF InChannel, IsData
<1>4. DropperTypeOK' /\ destroyed' = destroyed
  BY <1>1, ChannelAppend DEF DropperInductive, DropperTypeOK
<1>5. DropperShape'
  BY <1>1, <1>3, <1>4 DEF DropperInductive, DropperShape
<1>6. \A i \in DOMAIN channel : IsData(i) => channel[i].items \cap S = {}
  BY DEF DropperInductive, DropperOnce
<1>7. DropperOnce'
  <2>1. \A i \in DOMAIN channel' : IsData(i)'
           => channel'[i].items \subseteq sent' \ (batch \cup destroyed)
    BY <1>1, <1>2 DEF DropperInductive, DropperOnce
  <2>2. \A i, j \in DOMAIN channel' : IsData(i)' /\ IsData(j)' /\ i # j
           => channel'[i].items \cap channel'[j].items = {}
    BY <1>2, <1>6 DEF DropperInductive, DropperOnce
  <2> QED
    BY <1>1, <1>4, <2>1, <2>2 DEF DropperInductive, DropperOnce
<1>8. SyncsOnce'
  <2>1. \A c : Requested(c) => Requested(c)'
    BY <1>1, ChannelAppend DEF Requested, IsSync
  <2> QED
    BY <1>1, <1>2, <2>1 DEF DropperInductive, SyncsOnce
<1> QED
  BY <1>4, <1>5, <1>7, <1>8 DEF DropperInductive

\* A client sends a SyncUp and waits.
LEMMA SendSyncInductive ==
    ASSUME DropperInductive, NEW c \in Client, SendSync(c)
    PROVE  DropperInductive'
<1>1. /\ channel \in Seq(DropMessage) /\ channel' = Append(channel, SyncUp(c))
      /\ sync[c] = "none" /\ sync' = [sync EXCEPT ![c] = "waiting"]
      /\ SyncUp(c) \in DropMessage /\ destroyed' = destroyed
      /\ UNCHANGED <<stage, batch, pending, running, deallocated, destroyed, sent>>
  BY Messages DEF SendSync, DropperInductive, DropperTypeOK
<1> DEFINE last == Len(channel')
<1>2. \A i \in DOMAIN channel' : \/ i = last /\ ~IsData(i)' /\ IsSync(i)' /\ channel'[i].from = c
                                 \/ /\ i \in DOMAIN channel /\ channel'[i] = channel[i]
                                    /\ IsData(i)' = IsData(i) /\ IsSync(i)' = IsSync(i)
  BY <1>1, ChannelAppend, Messages DEF IsData, IsSync
<1>3. \A d : InChannel(d) => InChannel(d)'
  BY <1>1, ChannelAppend DEF InChannel, IsData
<1>4. DropperTypeOK'
  BY <1>1, ChannelAppend DEF DropperInductive, DropperTypeOK
<1>5. DropperShape'
  BY <1>1, <1>3 DEF DropperInductive, DropperShape
<1>6. DropperOnce'
  BY <1>1, <1>2 DEF DropperInductive, DropperOnce
<1>7. \A i \in DOMAIN channel : IsSync(i) => channel[i].from # c /\ channel[i].from \in Client
  BY <1>1, Messages DEF DropperInductive, SyncsOnce, IsSync
<1>8. SyncsOnce'
  <2>1. Requested(c)' /\ \A b : Requested(b) => Requested(b)'
    BY <1>1, ChannelAppend, Messages DEF Requested, IsSync
  <2>2. \A b \in Client : sync'[b] = "waiting" => Requested(b)'
    BY <1>1, <2>1 DEF DropperInductive, SyncsOnce, DropperTypeOK
  <2> QED
    BY <1>1, <1>2, <1>7, <2>2 DEF DropperInductive, SyncsOnce, DropperTypeOK
<1> QED
  BY <1>4, <1>5, <1>6, <1>8 DEF DropperInductive

LEMMA SyncReturnsInductive ==
    ASSUME DropperInductive, NEW c \in Client, SyncReturns(c)
    PROVE  DropperInductive'
<1>1. /\ sync[c] = "answered" /\ sync' = [sync EXCEPT ![c] = "none"]
      /\ UNCHANGED <<channel, stage, batch, pending, running, deallocated, destroyed, sent>>
      /\ destroyed' = destroyed
  BY DEF SyncReturns
<1>2. DropperTypeOK' /\ DropperShape' /\ DropperOnce'
  BY <1>1 DEF DropperInductive, DropperTypeOK, DropperShape, DropperOnce, InChannel, IsData
<1>3. \A i \in DOMAIN channel : IsSync(i) => channel[i].from # c /\ channel[i].from \in Client
  BY <1>1, Messages DEF DropperInductive, SyncsOnce, IsSync, DropperTypeOK
<1>4. SyncsOnce'
  BY <1>1, <1>3 DEF DropperInductive, SyncsOnce, Requested, IsSync, DropperTypeOK
<1> QED
  BY <1>2, <1>4 DEF DropperInductive

LEMMA DropperUnchanged ==
    ASSUME DropperInductive, UNCHANGED dropperVars
    PROVE  DropperInductive'
BY DEF dropperVars, DropperInductive, DropperTypeOK, DropperShape, DropperOnce, SyncsOnce,
   Requested, InChannel, IsData, IsSync

\* What the invariant is for.
LEMMA DropperPromises == DropperInductive => FlagsBeforeDrops /\ DestroyedOnce
BY DEF DropperInductive, DropperTypeOK, DropperShape, DropperOnce, FlagsBeforeDrops,
   DestroyedOnce

=============================================================================
