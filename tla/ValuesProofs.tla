---------------------------- MODULE ValuesProofs -----------------------------
(* Proofs about Values, for values of any number of parts.                   *)
EXTENDS Values, TLAPS

\* What being a value says of its parts.
LEMMA ValueFacts ==
    ASSUME ValuesTypeOK
    PROVE  /\ Size \in Nat /\ Size >= 1 /\ Parts = 1 .. Size
           /\ \A p \in Parts : /\ value.kind[p] \in Leaves \cup Containers
                               /\ value.last[p] \in Parts /\ value.last[p] >= p
                               /\ value.kind[p] \in Leaves => value.last[p] = p
           /\ \A p, q \in Parts : Inside(q, p) => value.last[q] <= value.last[p]
<1>1. Size \in Nat /\ Size >= 1 /\ Parts = 1 .. Size
  BY DEF ValuesTypeOK, Parts
<1>2. /\ value.kind \in [1 .. Size -> Leaves \cup Containers]
      /\ value.last \in Trees(Size)
      /\ \A p \in 1 .. Size : value.kind[p] \in Leaves => value.last[p] = p
  BY DEF ValuesTypeOK, ValuesOf
<1> QED
  BY <1>1, <1>2 DEF Trees, Inside

LEMMA KindsDiffer == Leaves \cap Containers = {}
BY DEF Leaves, Containers, ReadOut, Buffers

\* A value that may be allocated has the parts the counters are for.
LEMMA ValuesFacts ==
    ASSUME NEW v \in Values
    PROVE  /\ v.last[1] \in Nat /\ v.last[1] >= 1 /\ v \in ValuesOf(v.last[1])
           /\ DOMAIN v.kind = 1 .. v.last[1]
<1>1. PICK n \in 1 .. MaxParts : v \in ValuesOf(n)
  BY DEF Values
<1>2. n \in Nat \ {0} /\ v.last[1] = n /\ v.kind \in [1 .. n -> Leaves \cup Containers]
  BY <1>1, ValuesAssumption DEF ValuesAssumption, ValuesOf, Trees
<1> QED
  BY <1>1, <1>2

LEMMA ValuesInitInductive == ValuesInit => ValuesInductive
<1> SUFFICES ASSUME ValuesInit PROVE ValuesInductive
  OBVIOUS
<1>1. Size = 1 /\ Parts = 1 .. 1
  BY DEF ValuesInit, ValuesOf, Trees, Size, Parts
<1>2. ValuesTypeOK
  <2>1. Size \in Nat /\ Size >= 1 /\ value \in ValuesOf(Size)
    BY <1>1 DEF ValuesInit
  <2>2. ended \in [Parts -> Nat] /\ freed \in [Parts -> Nat]
    BY DEF ValuesInit
  <2>3. at \in 1 .. Size + 1 /\ owner \in 0 .. Size /\ culprit \in 0 .. Size
    BY <1>1 DEF ValuesInit
  <2>4. /\ open = {} /\ invalidated \subseteq Parts /\ leaked \subseteq Parts
        /\ action \in Actions /\ stage = "none" /\ released \in BOOLEAN
    BY DEF ValuesInit, Actions
  <2> QED
    BY <2>1, <2>2, <2>3, <2>4 DEF ValuesTypeOK
<1>3. StageShape /\ LeakShape /\ PassShape /\ HandlesReleased
  BY DEF ValuesInit, StageShape, LeakShape, PassShape, HandlesReleased
<1>4. EndsOnce
  BY DEF ValuesInit, EndsOnce
<1> QED
  BY <1>2, <1>3, <1>4 DEF ValuesInductive

-----------------------------------------------------------------------------
(* Allocation, and the beginning of deallocation.                            *)

LEMMA AllocateInductive ==
    ASSUME ValuesInductive, stage = "none", NEW v \in Values, NEW does \in Actions,
           Allocate(v, does)
    PROVE  ValuesInductive'
<1>1. /\ Size' \in Nat /\ Size' >= 1 /\ value' \in ValuesOf(Size)' /\ Parts' = 1 .. Size'
      /\ ended' = [p \in Parts' |-> 0] /\ freed' = [p \in Parts' |-> 0]
      /\ stage' = "allocated" /\ action' = does
      /\ UNCHANGED <<at, open, owner, culprit, invalidated, leaked, released>>
  BY ValuesFacts DEF Allocate, Size, Parts, placeVars, ValuesOf
<1>2. at = 1 /\ open = {} /\ owner = 0 /\ culprit = 0 /\ leaked = {} /\ released = FALSE
  <2>1. culprit = 0 /\ at = 1 /\ open = {} /\ owner = 0 /\ released = FALSE
    BY DEF ValuesInductive, StageShape
  <2> QED
    BY <2>1 DEF ValuesInductive, LeakShape
<1>3. invalidated = {}
  BY DEF ValuesInductive, StageShape
<1>4. ValuesTypeOK'
  <2>1. ended' \in [Parts' -> Nat] /\ freed' \in [Parts' -> Nat]
    BY <1>1
  <2>2. at' \in 1 .. Size' + 1 /\ owner' \in 0 .. Size' /\ culprit' \in 0 .. Size'
    BY <1>1, <1>2 DEF Size
  <2>3. open' = {} /\ invalidated' = {} /\ leaked' = {} /\ released' \in BOOLEAN
    BY <1>1, <1>2, <1>3
  <2> QED
    BY <1>1, <2>1, <2>2, <2>3 DEF ValuesTypeOK
<1>5. StageShape' /\ LeakShape' /\ PassShape' /\ HandlesReleased'
  BY <1>1, <1>2, <1>3 DEF StageShape, LeakShape, PassShape, HandlesReleased
<1>6. EndsOnce'
  BY <1>1, <1>2 DEF EndsOnce
<1> QED
  BY <1>4, <1>5, <1>6 DEF ValuesInductive

\* The parts, and what is inside what, change with the value only.
LEMMA SameValue ==
    ASSUME UNCHANGED value
    PROVE  /\ Size' = Size /\ Parts' = Parts /\ Scan' = Scan
           /\ \A p, c : Inside(p, c)' <=> Inside(p, c)
           /\ \A p, kinds : KindIn(p, kinds)' <=> KindIn(p, kinds)
BY DEF Size, Parts, Scan, Inside, KindIn

\* A finalizer's panic stays what it is.
LEMMA BotchedStays ==
    ASSUME UNCHANGED <<value, action>>, culprit # 0 => culprit' = culprit
    PROVE  Botched => Botched'
BY SameValue DEF Botched

\* Where a part is lost does not change while the panic stays what it is.
LEMMA SameLoss ==
    ASSUME UNCHANGED <<value, action, owner, culprit>>
    PROVE  \A p : (Stopped(p)' <=> Stopped(p)) /\ (LostInTable(p)' <=> LostInTable(p))
BY SameValue DEF Stopped, LostInTable

LEMMA LeakStays ==
    ASSUME LeakShape, UNCHANGED <<value, action, leaked>>,
           leaked = {} \/ UNCHANGED <<owner, culprit>>
    PROVE  LeakShape'
BY SameLoss DEF LeakShape

\* While nothing is done and the parts do not change, what has been done once stays so.
LEMMA SameEffects ==
    ASSUME EndsOnce, UNCHANGED <<value, action, owner, culprit, ended, freed, leaked>>, released' = FALSE,
           stage' # "deallocated"
    PROVE  EndsOnce'
<1>1. Botched' <=> Botched
  BY SameValue DEF Botched
<1>2. \A p : Done(p)' <=> Done(p)
  BY SameLoss DEF Done, KindIn
<1> QED
  BY <1>1, <1>2, SameValue DEF EndsOnce

LEMMA BeginInductive ==
    ASSUME ValuesInductive, DoNothing \/ RunDrop \/ RunFinalizer \/ BoxDrop
    PROVE  ValuesInductive'
<1>1. /\ stage = "allocated" /\ stage' \in {"end", "drop", "finalize"}
      /\ UNCHANGED <<value, action, at, open, owner, culprit, ended, freed, leaked, released>>
      /\ invalidated' = Scan \/ invalidated' = invalidated
      /\ action \in {"DoNothing", "RunFinalizer"} => invalidated' = Scan
      /\ stage' = "end" => action = "DoNothing"
      /\ stage' = "finalize" => action = "RunFinalizer"
      /\ stage' = "drop" => action \in {"RunDrop", "BoxDrop"}
  BY DEF DoNothing, RunDrop, RunFinalizer, BoxDrop, Begin, InvalidateHandles, placeVars
<1>2. /\ at = 1 /\ open = {} /\ owner = 0 /\ culprit = 0 /\ leaked = {} /\ released = FALSE
      /\ \A p \in Parts : ended[p] = 0 /\ freed[p] = 0
  BY <1>1 DEF ValuesInductive, StageShape, LeakShape
<1>3. Scan \subseteq Parts
  BY DEF Scan
<1>4. ValuesTypeOK'
  BY <1>1, <1>3, SameValue DEF ValuesTypeOK, ValuesInductive
<1>5. StageShape' /\ LeakShape' /\ HandlesReleased'
  BY <1>1, <1>2, SameValue DEF StageShape, LeakShape, HandlesReleased
<1>6. PassShape'
  <2>1. \A c \in Parts : ~(c < 1)
    BY ValueFacts DEF ValuesInductive
  <2> QED
    BY <1>1, <1>2, <2>1, SameValue DEF PassShape, Reached
<1>7. EndsOnce'
  BY <1>1, <1>2, SameEffects DEF ValuesInductive
<1> QED
  BY <1>4, <1>5, <1>6, <1>7 DEF ValuesInductive

-----------------------------------------------------------------------------
(* The end of deallocation.                                                  *)

\* When a pass has come to the end, every part has been ended.
LEMMA PassComplete ==
    ASSUME ValuesInductive, stage \in {"finalize", "drop"}, at \notin Parts, open = {}, ~Botched
    PROVE  \A p \in Parts : Done(p)
<1>1. \A p \in Parts : p < at
  BY ValueFacts DEF ValuesInductive, ValuesTypeOK
<1>2. Reached = at
  BY DEF Reached
<1> QED
  BY <1>1, <1>2 DEF ValuesInductive, LeakShape, PassShape, Done

LEMMA EndDeallocateInductive == ASSUME ValuesInductive, EndDeallocate PROVE ValuesInductive'
<1>1. /\ UNCHANGED <<value, action, at, open, owner, culprit, invalidated, ended, freed, leaked>>
      /\ stage' = "deallocated" /\ released' = (culprit = 0 \/ action = "BoxDrop")
      /\ stage \notin {"none", "allocated"}
  BY DEF EndDeallocate, placeVars
<1>2. ValuesTypeOK'
  BY <1>1, SameValue DEF ValuesTypeOK, ValuesInductive
<1>3. StageShape' /\ LeakShape' /\ PassShape'
  BY <1>1, SameValue, LeakStays DEF StageShape, PassShape, ValuesInductive
<1>4. /\ Botched' <=> Botched
      /\ \A p : Done(p)' <=> Done(p)
      /\ \A p : LostInTable(p)' <=> LostInTable(p)
  BY <1>1, SameValue, SameLoss DEF Botched, Done
<1>5. action \in {"RunDrop", "BoxDrop"} \/ culprit = 0 => ~Botched
  BY DEF Botched
<1>6. ASSUME action \in {"RunDrop", "BoxDrop"} \/ (action = "RunFinalizer" /\ culprit = 0)
      PROVE  \A p \in Parts : Done(p)
  <2>1. stage \in {"finalize", "drop"} /\ at \notin Parts /\ open = {}
    BY <1>6 DEF EndDeallocate, ValuesInductive, StageShape
  <2> QED
    BY <1>5, <1>6, <2>1, PassComplete
<1>7. HandlesReleased'
  <2>1. CASE action \in {"DoNothing", "RunFinalizer"}
    BY <1>1, <2>1, SameValue DEF HandlesReleased, ValuesInductive, StageShape
  <2>2. CASE action \in {"RunDrop", "BoxDrop"}
    <3>1. \A p \in Scan : p \in Parts /\ KindIn(p, Leaves) /\ value.kind[p] # "table"
      BY DEF Scan, KindIn, Leaves
    <3>2. \A p \in Scan : ended[p] = 1 \/ LostInTable(p)
      BY <1>6, <2>2, <3>1 DEF Done, Stopped
    <3> QED
      BY <1>1, <1>4, <3>2, SameValue DEF HandlesReleased
  <2> QED
    BY <2>1, <2>2 DEF ValuesInductive, ValuesTypeOK, Actions
<1>8. EndsOnce'
  BY <1>1, <1>4, <1>6, SameValue DEF EndsOnce, ValuesInductive, ValuesTypeOK, Actions
<1> QED
  BY <1>2, <1>3, <1>7, <1>8 DEF ValuesInductive

-----------------------------------------------------------------------------
(* Going over the parts.                                                     *)

\* What has been treated in a pass is ended once.
LEMMA PassEnds ==
    ValuesTypeOK /\ StageShape /\ LeakShape /\ PassShape
        /\ stage \in {"finalize", "drop", "unwind"} => EndsOnce
<1> SUFFICES ASSUME ValuesTypeOK, StageShape, LeakShape, PassShape,
                    stage \in {"finalize", "drop", "unwind"}, ~Botched
             PROVE  EndsOnce
  BY DEF EndsOnce
<1>1. /\ \A p \in Parts : value.kind[p] \in Leaves \cup Containers /\ value.last[p] \in Nat
      /\ \A p, q \in Parts : Inside(q, p) => value.last[q] <= value.last[p]
      /\ \A p \in Parts : value.last[p] >= p /\ p \in Nat
      /\ \A p \in Parts : KindIn(p, Leaves) => value.last[p] = p
  BY ValueFacts DEF KindIn
<1>2. Reached \in Nat
  BY DEF Reached, ValuesTypeOK
<1>3. \A p \in Parts : ended[p] <= 1 /\ freed[p] <= 1
  <2> TAKE p \in Parts
  <2>1. ended[p] = 0 \/ ended[p] = 1
    BY DEF PassShape
  <2>2. freed[p] = 0 \/ freed[p] = 1
    BY DEF PassShape
  <2> QED
    BY <2>1, <2>2
<1>4. ASSUME NEW c \in Parts, NEW p \in Parts, freed[c] = 1, Inside(p, c)
      PROVE  Done(p)
  <2>1. KindIn(c, Buffers) /\ c < Reached /\ c \notin open
    BY <1>4 DEF PassShape
  <2>2. value.last[c] < Reached
    BY <2>1 DEF PassShape, KindIn, Containers, ReadOut, Buffers
  <2>3. p < Reached
    BY <1>1, <1>2, <1>4, <2>2 DEF Inside
  <2>4. p \notin open
    BY <1>4, <2>1 DEF PassShape
  <2> QED
    BY <2>3, <2>4 DEF Done, LeakShape, PassShape
<1> QED
  BY <1>3, <1>4 DEF EndsOnce, StageShape

\* A step within a pass preserves the invariant if it preserves the first four parts.
LEMMA PassSuffices ==
    ASSUME ValuesTypeOK', StageShape', LeakShape', PassShape',
           stage' \in {"finalize", "drop", "unwind"}
    PROVE  ValuesInductive'
<1>1. /\ ValuesTypeOK' /\ StageShape' /\ LeakShape' /\ PassShape'
      /\ (stage \in {"finalize", "drop", "unwind"})'
  OBVIOUS
<1>3. EndsOnce'
  BY <1>1, PassEnds, PTL
<1>2. HandlesReleased'
  BY DEF HandlesReleased
<1> QED
  BY <1>3, <1>2 DEF ValuesInductive

\* The pass comes to a part: what that part is inside is open.
LEMMA ReachInside ==
    ASSUME ValuesInductive, stage \in {"finalize", "drop"}, ~Botched, at \in Parts
    PROVE  \A c \in Parts : Inside(at, c) => c \in open
<1> TAKE c \in Parts
<1> SUFFICES ASSUME Inside(at, c), c \notin open PROVE FALSE
  OBVIOUS
<1>1. c \in Nat /\ at \in Nat /\ value.last[c] \in Nat /\ c < at /\ at <= value.last[c]
  BY ValueFacts DEF ValuesInductive, Inside
<1>2. KindIn(c, Containers)
  BY <1>1, ValueFacts DEF ValuesInductive, KindIn
<1>3. value.last[c] < at
  BY <1>1, <1>2 DEF ValuesInductive, PassShape, Reached
<1> QED
  BY <1>1, <1>3

\* It enters the part,
LEMMA EnterInductive == ASSUME ValuesInductive, Enter PROVE ValuesInductive'
<1>1. /\ stage \in {"finalize", "drop"} /\ at \in Parts /\ KindIn(at, Containers)
      /\ \A o \in open : at <= value.last[o]
      /\ open' = open \cup {at} /\ at' = at + 1
      /\ UNCHANGED <<value, action, stage, owner, culprit, invalidated, ended, freed, leaked, released>>
  BY DEF Enter, Reach, effectVars
<1>2. Size \in Nat /\ Parts = 1 .. Size /\ at \in Nat /\ \A p \in Parts : p \in Nat
  BY <1>1, ValueFacts DEF ValuesInductive
<1>3. ValuesTypeOK'
  <2>1. at' \in 1 .. Size + 1
    BY <1>1, <1>2
  <2>2. open' \subseteq Parts /\ \A c \in open' : KindIn(c, Containers)
    BY <1>1 DEF ValuesTypeOK, ValuesInductive
  <2> QED
    BY <1>1, <2>1, <2>2, SameValue DEF ValuesTypeOK, ValuesInductive
<1>4. Botched' <=> Botched
  BY <1>1, SameValue DEF Botched
<1>5. StageShape'
  <2>1. culprit \in Nat /\ (culprit < at => culprit < at + 1)
    BY <1>2 DEF ValuesTypeOK, ValuesInductive
  <2> QED
    BY <1>1, <1>4, <2>1, SameValue DEF StageShape, ValuesInductive
<1>6. ASSUME ~Botched PROVE PassShape'
  <2>1. Reached = at /\ Reached' = at + 1
    BY <1>1 DEF Reached
  <2>2. ~KindIn(at, Leaves)
    BY <1>1, KindsDiffer DEF KindIn
  <2>3. \A c \in Parts : Inside(at, c) => c \in open
    BY <1>1, <1>6, ReachInside
  <2>4. \A p \in Parts : p < at + 1 <=> p < at \/ p = at
    BY <1>2
  <2>5. at \notin open /\ ~(at < at) /\ at \notin leaked
    BY <1>1, <1>2, <1>6, <2>1 DEF ValuesInductive, PassShape
  <2>6. \A p \in Parts :
            /\ KindIn(p, Leaves) => ended[p] = IF p < at + 1 /\ p \notin leaked THEN 1 ELSE 0
            /\ ~KindIn(p, Leaves) => ended[p] = 0
    BY <1>1, <1>6, <2>1, <2>2, <2>4 DEF ValuesInductive, PassShape
  <2>7. \A c \in Parts :
            /\ KindIn(c, Buffers)
                   => freed[c] = IF c < at + 1 /\ c \notin open' \cup leaked THEN 1 ELSE 0
            /\ ~KindIn(c, Buffers) => freed[c] = 0
            /\ c \in leaked => c < at + 1 /\ c \notin open'
    BY <1>1, <1>6, <2>1, <2>4, <2>5 DEF ValuesInductive, PassShape
  <2>8. \A c \in Parts : KindIn(c, Containers) /\ c < at + 1 /\ c \notin open'
            => value.last[c] < at + 1
    BY <1>1, <1>2, <1>6, <2>1, <2>4, ValueFacts DEF ValuesInductive, PassShape
  <2>9. \A o \in open' : /\ o < at + 1 /\ at + 1 <= value.last[o] + 1
                          /\ \A c \in Parts : Inside(o, c) => c \in open'
    <3>1. \A o \in open' : at <= value.last[o] /\ value.last[o] \in Nat
      BY <1>1, <1>2, ValueFacts DEF ValuesInductive, ValuesTypeOK
    <3>2. \A o \in open' : o < at + 1 /\ \A c \in Parts : Inside(o, c) => c \in open'
      BY <1>1, <1>2, <1>6, <2>1, <2>3 DEF ValuesInductive, ValuesTypeOK, PassShape
    <3> QED
      BY <1>2, <3>1, <3>2
  <2> QED
    BY <1>1, <2>1, <2>6, <2>7, <2>8, <2>9, SameValue DEF PassShape
<1>7. LeakShape'
  BY <1>1, LeakStays DEF ValuesInductive
<1> QED
  BY <1>1, <1>3, <1>4, <1>5, <1>6, <1>7, PassSuffices DEF PassShape

\* ends it if it is a leaf,
LEMMA LeafPass ==
    ASSUME ValuesInductive, stage \in {"finalize", "drop"}, ~Botched, Reach(Leaves), EndPart(at),
           at' = at + 1, UNCHANGED <<value, action, stage, open, freed, leaked>>
    PROVE  PassShape'
<1>1. at \in Parts /\ KindIn(at, Leaves) /\ ~KindIn(at, Containers)
  BY KindsDiffer DEF Reach, KindIn
<1>2. Size \in Nat /\ Parts = 1 .. Size /\ at \in Nat /\ \A p \in Parts : p \in Nat
  BY <1>1, ValueFacts DEF ValuesInductive
<1>3. Reached = at /\ Reached' = at + 1
  BY DEF Reached
<1>4. \A p \in Parts : p < at + 1 <=> p < at \/ p = at
  BY <1>2
<1>5. at \notin open /\ ~(at < at) /\ at \notin leaked
  BY <1>1, <1>2, <1>3 DEF ValuesInductive, PassShape
<1>6. ~KindIn(at, Buffers)
  BY <1>1 DEF KindIn, Leaves, Buffers
<1>7. \A p \in Parts : ended'[p] = IF p = at THEN ended[at] + 1 ELSE ended[p]
  BY <1>1 DEF EndPart, ValuesInductive, ValuesTypeOK
<1>8. ended[at] = 0
  BY <1>1, <1>3, <1>5 DEF ValuesInductive, PassShape
<1>9. \A p \in Parts :
          /\ KindIn(p, Leaves) => ended'[p] = IF p < at + 1 /\ p \notin leaked THEN 1 ELSE 0
          /\ ~KindIn(p, Leaves) => ended'[p] = 0
  BY <1>1, <1>3, <1>4, <1>5, <1>7, <1>8 DEF ValuesInductive, PassShape
<1>10. \A c \in Parts :
           /\ KindIn(c, Buffers)
                  => freed[c] = IF c < at + 1 /\ c \notin open \cup leaked THEN 1 ELSE 0
           /\ ~KindIn(c, Buffers) => freed[c] = 0
           /\ c \in leaked => c < at + 1 /\ c \notin open
  BY <1>3, <1>4, <1>6 DEF ValuesInductive, PassShape
<1>11. \A c \in Parts : KindIn(c, Containers) /\ c < at + 1 /\ c \notin open
           => value.last[c] < at + 1
  BY <1>1, <1>2, <1>3, <1>4, ValueFacts DEF ValuesInductive, PassShape
<1>12. \A o \in open : /\ o < at + 1 /\ at + 1 <= value.last[o] + 1
                       /\ \A c \in Parts : Inside(o, c) => c \in open
  <2>1. \A o \in open : at <= value.last[o] /\ value.last[o] \in Nat
    BY <1>2, ValueFacts DEF Reach, ValuesInductive, ValuesTypeOK
  <2>2. \A o \in open : o < at + 1 /\ \A c \in Parts : Inside(o, c) => c \in open
    BY <1>2, <1>3 DEF ValuesInductive, ValuesTypeOK, PassShape
  <2> QED
    BY <1>2, <2>1, <2>2
<1> QED
  BY <1>3, <1>9, <1>10, <1>11, <1>12, SameValue DEF PassShape

\* and leaves the innermost part that it is through.
LEMMA LeavePass ==
    ASSUME ValuesInductive, stage \in {"finalize", "drop"}, ~Botched, NEW c, Through(c), Leave(c),
           FreeBuffer(c), UNCHANGED <<value, action, stage, at, ended, leaked>>
    PROVE  PassShape'
<1>1. /\ c \in open /\ c \in Parts /\ KindIn(c, Containers) /\ open' = open \ {c}
      /\ value.last[c] < at /\ \A o \in open : o <= c
  BY DEF Through, Innermost, Leave, ValuesInductive, ValuesTypeOK
<1>2. /\ Size \in Nat /\ Parts = 1 .. Size /\ at \in Nat
      /\ \A p \in Parts : p \in Nat /\ value.last[p] \in Nat
  BY ValueFacts DEF ValuesInductive, ValuesTypeOK
<1>3. Reached = at /\ Reached' = at
  BY DEF Reached
<1>4. c < at /\ c \notin leaked
  BY <1>1, <1>3 DEF ValuesInductive, PassShape
<1>5. \A p \in Parts :
          freed'[p] = IF p = c /\ KindIn(c, Buffers) THEN freed[c] + 1 ELSE freed[p]
  BY <1>1 DEF FreeBuffer, ValuesInductive, ValuesTypeOK
<1>6. KindIn(c, Buffers) => freed[c] = 0
  BY <1>1, <1>3 DEF ValuesInductive, PassShape
<1>7. \A p \in Parts :
          /\ KindIn(p, Buffers)
                 => freed'[p] = IF p < at /\ p \notin open' \cup leaked THEN 1 ELSE 0
          /\ ~KindIn(p, Buffers) => freed'[p] = 0
          /\ p \in leaked => p < at /\ p \notin open'
  BY <1>1, <1>3, <1>4, <1>5, <1>6 DEF ValuesInductive, PassShape
<1>8. \A p \in Parts : KindIn(p, Containers) /\ p < at /\ p \notin open' => value.last[p] < at
  BY <1>1, <1>3 DEF ValuesInductive, PassShape
<1>9. \A o \in open' : ~Inside(o, c)
  <2> TAKE o \in open'
  <2>1. o \in Nat /\ c \in Nat /\ o <= c
    BY <1>1, <1>2 DEF ValuesInductive, ValuesTypeOK
  <2> QED
    BY <2>1 DEF Inside
<1>10. \A o \in open' : /\ o < at /\ at <= value.last[o] + 1
                        /\ \A p \in Parts : Inside(o, p) => p \in open'
  BY <1>1, <1>3, <1>9 DEF ValuesInductive, PassShape
<1>11. \A p \in Parts :
           /\ KindIn(p, Leaves) => ended[p] = IF p < at /\ p \notin leaked THEN 1 ELSE 0
           /\ ~KindIn(p, Leaves) => ended[p] = 0
  BY <1>3 DEF ValuesInductive, PassShape
<1> QED
  BY <1>3, <1>7, <1>8, <1>10, <1>11, SameValue DEF PassShape

\* The types of a step that ends a part, or leaves one.
LEMMA LeafTypes ==
    ASSUME ValuesInductive, Reach(Leaves), EndPart(at), at' = at + 1, culprit' \in 0 .. Size,
           UNCHANGED <<value, action, stage, open, owner, invalidated, freed, leaked, released>>
    PROVE  ValuesTypeOK'
<1>1. at' \in 1 .. Size + 1
  BY ValueFacts DEF Reach, ValuesInductive
<1>2. ended' \in [Parts -> Nat]
  BY DEF EndPart, Reach, ValuesInductive, ValuesTypeOK
<1> QED
  BY <1>1, <1>2, SameValue DEF ValuesInductive, ValuesTypeOK

LEMMA LeaveTypes ==
    ASSUME ValuesInductive, NEW c \in open, Leave(c), FreeBuffer(c),
           at' \in 1 .. Size + 1, owner' \in 0 .. Size,
           stage' \in {"finalize", "unwind", "drop"},
           UNCHANGED <<value, action, culprit, invalidated, ended, leaked, released>>
    PROVE  ValuesTypeOK'
<1>1. open' \subseteq Parts /\ \A o \in open' : KindIn(o, Containers)
  BY DEF Leave, ValuesInductive, ValuesTypeOK
<1>2. freed' \in [Parts -> Nat]
  BY DEF FreeBuffer, ValuesInductive, ValuesTypeOK
<1> QED
  BY <1>1, <1>2, SameValue DEF ValuesInductive, ValuesTypeOK

-----------------------------------------------------------------------------
(* The steps of a finalizer.                                                 *)

LEMMA FinalizeLeafInductive == ASSUME ValuesInductive, FinalizeLeaf PROVE ValuesInductive'
<1>1. /\ stage = "finalize" /\ Reach(Leaves) /\ action = "RunFinalizer" /\ culprit = 0
      /\ owner = 0 /\ at \in Parts /\ \A o \in open : at <= value.last[o]
      /\ UNCHANGED <<value, action, open, owner, invalidated, freed, leaked, released>>
      /\ leaked = {}
  BY DEF FinalizeLeaf, Reach, ValuesInductive, StageShape, LeakShape
<1>2. ~Botched
  BY <1>1 DEF Botched
<1> LeakShape'
  BY <1>1, LeakStays DEF ValuesInductive
<1>3. CASE EndPart(at) /\ at' = at + 1 /\ UNCHANGED <<stage, culprit>>
  <2>1. ValuesTypeOK'
    BY <1>1, <1>3, LeafTypes DEF ValuesInductive, ValuesTypeOK
  <2>2. StageShape'
    BY <1>1, <1>3, SameValue DEF StageShape, ValuesInductive
  <2>3. PassShape'
    BY <1>1, <1>2, <1>3, LeafPass
  <2> QED
    BY <1>1, <1>3, <2>1, <2>2, <2>3, PassSuffices
<1>4. CASE /\ value.kind[at] = "user" /\ culprit' = at /\ stage' = "unwind"
           /\ UNCHANGED <<at, ended>>
  <2>1. /\ Size \in Nat /\ Parts = 1 .. Size /\ at \in Nat
        /\ Reached = at /\ Reached' = at
    BY <1>1, <1>4, ValueFacts DEF ValuesInductive, Reached
  <2>2. at \in 0 .. Size /\ at # 0
    BY <1>1, <2>1
  <2>3. ValuesTypeOK'
    BY <1>1, <1>4, <2>2, SameValue DEF ValuesInductive, ValuesTypeOK
  <2>4. StageShape'
    BY <1>1, <1>4, <2>2, SameValue DEF StageShape, ValuesInductive
  <2>5. \A o \in open : Inside(at, o)
    BY <1>1, <1>2, <2>1 DEF Inside, ValuesInductive, PassShape
  <2>6. PassShape'
    BY <1>1, <1>2, <1>4, <2>1, <2>5, SameValue DEF ValuesInductive, PassShape
  <2> QED
    BY <1>4, <2>3, <2>4, <2>6, PassSuffices
<1> QED
  BY <1>3, <1>4 DEF FinalizeLeaf

\* All inside a part has been finalized, or it is finalized in place: nothing is dropped.
LEMMA FinalizedInductive ==
    ASSUME ValuesInductive, stage = "finalize", NEW c \in open, Through(c), Leave(c),
           FreeBuffer(c), UNCHANGED <<value, action, stage, owner, at>>,
           UNCHANGED <<culprit, invalidated, ended, leaked, released>>
    PROVE  ValuesInductive'
<1>1. action = "RunFinalizer" /\ culprit = 0 /\ owner = 0 /\ ~Botched
  BY DEF ValuesInductive, StageShape, Botched
<1>2. ValuesTypeOK'
  BY LeaveTypes DEF ValuesInductive, ValuesTypeOK
<1>3. StageShape'
  BY <1>1, SameValue DEF StageShape, ValuesInductive
<1>4. PassShape'
  BY <1>1, LeavePass
<1>5. LeakShape'
  BY LeakStays DEF ValuesInductive
<1> QED
  BY <1>2, <1>3, <1>4, <1>5, PassSuffices

LEMMA UnwindInPlaceInductive ==
    ASSUME ValuesInductive, stage = "unwind", NEW c \in open, value.kind[c] = "struct",
           Innermost(c), Leave(c), at' = c, UNCHANGED <<value, action, stage, owner, effectVars>>
    PROVE  ValuesInductive'
<1>1. /\ UNCHANGED <<culprit, invalidated, ended, freed, leaked, released>> /\ open' = open \ {c}
      /\ c \in Parts /\ \A o \in open : o <= c
      /\ ~KindIn(c, Buffers) /\ FreeBuffer(c)
  BY DEF effectVars, Leave, Innermost, ValuesInductive, ValuesTypeOK, FreeBuffer, KindIn,
     Buffers
<1>2. /\ Size \in Nat /\ Parts = 1 .. Size
      /\ \A p \in Parts : p \in Nat /\ value.last[p] \in Nat
  BY ValueFacts DEF ValuesInductive
<1>3. ValuesTypeOK'
  <2>1. c \in 1 .. Size + 1
    BY <1>1, <1>2
  <2> QED
    BY <1>1, <2>1, LeaveTypes DEF ValuesInductive, ValuesTypeOK
<1>4. Botched' <=> Botched
  BY <1>1, SameValue DEF Botched
<1>5. StageShape'
  BY <1>1, <1>4, SameValue DEF StageShape, ValuesInductive
<1>6. ASSUME ~Botched PROVE PassShape'
  <2>1. Reached = culprit /\ Reached' = culprit
    BY <1>1 DEF Reached
  <2>2. \A o \in open' : ~Inside(o, c)
    <3> TAKE o \in open'
    <3>1. o \in Nat /\ c \in Nat /\ o <= c
      BY <1>1, <1>2 DEF ValuesInductive, ValuesTypeOK
    <3> QED
      BY <3>1 DEF Inside
  <2>3. \A p \in Parts :
            /\ KindIn(p, Leaves)
                   => ended[p] = IF p < culprit /\ p \notin leaked THEN 1 ELSE 0
            /\ ~KindIn(p, Leaves) => ended[p] = 0
            /\ KindIn(p, Buffers)
                   => freed[p] = IF p < culprit /\ p \notin open' \cup leaked THEN 1 ELSE 0
            /\ ~KindIn(p, Buffers) => freed[p] = 0
            /\ p \in leaked => p < culprit /\ p \notin open'
    BY <1>1, <1>6, <2>1 DEF ValuesInductive, PassShape
  <2>4. \A p \in Parts : KindIn(p, Containers) /\ p < culprit /\ p \notin open'
            => value.last[p] < culprit \/ value.kind[p] = "struct"
    BY <1>1, <1>6, <2>1 DEF ValuesInductive, PassShape
  <2>5. \A o \in open' : /\ o < culprit /\ culprit <= value.last[o] + 1 /\ Inside(culprit, o)
                          /\ \A p \in Parts : Inside(o, p) => p \in open'
    BY <1>1, <1>6, <2>1, <2>2 DEF ValuesInductive, PassShape
  <2> QED
    BY <1>1, <2>1, <2>3, <2>4, <2>5, SameValue DEF PassShape
<1>7. LeakShape'
  BY <1>1, LeakStays DEF ValuesInductive
<1> QED
  BY <1>3, <1>4, <1>5, <1>6, <1>7, PassSuffices DEF PassShape

\* Unwinding comes out of a part that was read out of its place: that panic is botched.
LEMMA DropFromInductive ==
    ASSUME ValuesInductive, stage = "unwind", NEW c \in open, KindIn(c, ReadOut),
           NEW p \in 1 .. Size + 1, DropFrom(c, p), UNCHANGED <<value, action, effectVars>>
    PROVE  ValuesInductive'
<1>1. /\ stage' = "drop" /\ owner' = c /\ at' = p /\ c \in Parts
      /\ UNCHANGED <<value, action, open, culprit, invalidated, ended, freed, leaked, released>>
  BY DEF DropFrom, effectVars, ValuesInductive, ValuesTypeOK
<1>2. c \in 0 .. Size /\ c # 0
  BY <1>1, ValueFacts DEF ValuesInductive
<1>3. Botched
  BY <1>1 DEF ValuesInductive, StageShape, PassShape, Botched
<1>4. Botched'
  BY <1>1, <1>3, SameValue DEF Botched
<1>5. ValuesTypeOK'
  BY <1>1, <1>2, SameValue DEF ValuesInductive, ValuesTypeOK
<1>6. StageShape'
  BY <1>1, <1>2, <1>4, SameValue DEF StageShape, ValuesInductive
<1>7. LeakShape'
  <2>1. leaked = {}
    BY DEF ValuesInductive, StageShape, LeakShape
  <2> QED
    BY <1>1, <2>1, LeakStays DEF ValuesInductive
<1> QED
  BY <1>1, <1>4, <1>5, <1>6, <1>7, PassSuffices DEF PassShape

LEMMA FinalizeInductive == ASSUME ValuesInductive, Finalize PROVE ValuesInductive'
<1>1. ASSUME NEW c \in open, FinalizeInPlace(c) PROVE ValuesInductive'
  <2>1. CASE stage = "finalize" /\ Through(c) /\ UNCHANGED at
    BY <1>1, <2>1, FinalizedInductive DEF FinalizeInPlace, FreeBuffer, KindIn, Buffers,
       effectVars
  <2>2. CASE stage = "unwind" /\ Innermost(c) /\ at' = c
    BY <1>1, <2>2, UnwindInPlaceInductive DEF FinalizeInPlace
  <2> QED
    BY <1>1, <2>1, <2>2 DEF FinalizeInPlace
<1>2. ASSUME NEW c \in open PROVE c + 1 \in 1 .. Size + 1 /\ at \in 1 .. Size + 1
  BY ValueFacts DEF ValuesInductive, ValuesTypeOK
<1>3. ASSUME NEW c \in open, FinalizeTuple(c) PROVE ValuesInductive'
  <2>1. CASE stage = "finalize"
    BY <1>3, <2>1, FinalizedInductive DEF FinalizeTuple, FreeBuffer, KindIn, Buffers,
       effectVars
  <2>2. CASE stage = "unwind"
    BY <1>2, <1>3, <2>2, DropFromInductive DEF FinalizeTuple, KindIn, ReadOut
  <2> QED
    BY <1>3, <2>1, <2>2 DEF FinalizeTuple
<1>4. ASSUME NEW c \in open, FinalizeElements(c) PROVE ValuesInductive'
  <2>1. CASE stage = "finalize"
    BY <1>4, <2>1, FinalizedInductive DEF FinalizeElements
  <2>2. CASE stage = "unwind"
    BY <1>2, <1>4, <2>2, DropFromInductive DEF FinalizeElements, KindIn, ReadOut, effectVars
  <2> QED
    BY <1>4, <2>1, <2>2 DEF FinalizeElements
<1> QED
  BY <1>1, <1>3, <1>4, FinalizeLeafInductive DEF Finalize

-----------------------------------------------------------------------------
(* The steps of a drop.                                                      *)

LEMMA DropLeafInductive == ASSUME ValuesInductive, DropLeaf PROVE ValuesInductive'
<1>1. /\ stage = "drop" /\ Reach(Leaves) /\ EndPart(at) /\ at' = at + 1 /\ at \in Parts
      /\ UNCHANGED <<value, action, stage, open, owner, invalidated, freed, leaked, released>>
      /\ culprit' = culprit \/ (culprit = 0 /\ culprit' = at)
  BY DEF DropLeaf, Reach
<1>2. culprit' \in 0 .. Size
  BY <1>1, ValueFacts DEF ValuesInductive, ValuesTypeOK
<1>3. ValuesTypeOK'
  BY <1>1, <1>2, LeafTypes
<1>4. Botched' <=> Botched
  BY <1>1, SameValue DEF Botched, ValuesInductive, StageShape
<1>5. StageShape'
  <2>1. at \in Nat /\ culprit \in Nat
    BY <1>1, ValueFacts DEF ValuesInductive, ValuesTypeOK
  <2>2. owner = 0 => culprit' < at'
    BY <1>1, <2>1 DEF StageShape, ValuesInductive
  <2> QED
    BY <1>1, <1>4, <2>2, SameValue DEF StageShape, ValuesInductive
<1>6. ~Botched => PassShape'
  BY <1>1, LeafPass
<1>7. LeakShape'
  BY <1>1, LeakStays DEF ValuesInductive, LeakShape
<1> QED
  BY <1>1, <1>3, <1>4, <1>5, <1>6, <1>7, PassSuffices DEF PassShape

LEMMA DropContainerInductive ==
    ASSUME ValuesInductive, NEW c \in open, DropContainer(c)
    PROVE  ValuesInductive'
<1>1. /\ stage = "drop" /\ Through(c) /\ Leave(c) /\ FreeBuffer(c)
      /\ UNCHANGED <<value, action, culprit, invalidated, ended, leaked, released>>
      /\ IF c = owner THEN stage' = "unwind" /\ owner' = 0 /\ at' = c
                      ELSE UNCHANGED <<stage, owner, at>>
  BY DEF DropContainer
<1>2. c \in 1 .. Size + 1 /\ c # 0 /\ 0 \in 0 .. Size
  BY ValueFacts DEF ValuesInductive, ValuesTypeOK
<1>3. ValuesTypeOK'
  BY <1>1, <1>2, LeaveTypes DEF ValuesInductive, ValuesTypeOK
<1>4. Botched' <=> Botched
  BY <1>1, SameValue DEF Botched
<1>5. StageShape'
  BY <1>1, <1>2, <1>4, SameValue DEF StageShape, ValuesInductive, Botched
<1>6. ~Botched => PassShape'
  <2>1. ~Botched => c # owner
    BY <1>1, <1>2 DEF ValuesInductive, StageShape
  <2> QED
    BY <1>1, <2>1, LeavePass
<1>7. LeakShape'
  BY <1>1, <1>2, LeakStays DEF ValuesInductive, LeakShape
<1> QED
  BY <1>1, <1>3, <1>4, <1>5, <1>6, <1>7, PassSuffices DEF PassShape

LEMMA AbandonTableInductive ==
    ASSUME ValuesInductive, NEW c \in open, AbandonTable(c)
    PROVE  ValuesInductive'
<1>1. /\ stage = "drop" /\ Innermost(c) /\ Stopped(c) /\ open' = open \ {c}
      /\ at' = value.last[c] + 1
      /\ leaked' = leaked \cup {c} \cup at .. value.last[c]
      /\ UNCHANGED <<value, action, stage, owner, culprit, invalidated, ended, freed, released>>
  BY DEF AbandonTable, Leave
<1>2. /\ Size \in Nat /\ Parts = 1 .. Size /\ at \in 1 .. Size + 1 /\ c \in Parts
      /\ \A p \in Parts : p \in Nat /\ value.last[p] \in Parts
      /\ \A p, q \in Parts : Inside(q, p) => value.last[q] <= value.last[p]
      /\ culprit \in Nat /\ leaked \subseteq Parts /\ open \subseteq Parts
  BY ValueFacts DEF ValuesInductive, ValuesTypeOK
<1>3. /\ action \in {"RunDrop", "BoxDrop"} /\ owner = 0 /\ culprit # 0 /\ ~Botched
      /\ culprit < at /\ c < culprit /\ culprit <= value.last[c] /\ value.kind[c] = "table"
  BY <1>1 DEF ValuesInductive, StageShape, Stopped, Botched, Inside
<1> at <= value.last[c] + 1
  BY <1>1, <1>3 DEF ValuesInductive, PassShape, Reached
<1>4. /\ c < at /\ c < at' /\ at <= at' /\ at' \in 1 .. Size + 1
      /\ \A p \in at .. value.last[c] : p \in Parts /\ Inside(p, c) /\ culprit < p
      /\ \A p \in Parts : p < at' => p < at \/ p \in at .. value.last[c]
      /\ \A p \in Parts : p \in at .. value.last[c] => ~(p < at) /\ p < at'
      /\ \A p \in Parts : p < at => p < at'
  BY <1>1, <1>2, <1>3 DEF Inside
<1>5. ValuesTypeOK'
  <2>1. leaked' \subseteq Parts /\ open' \subseteq Parts
    BY <1>1, <1>2, <1>4
  <2> QED
    BY <1>1, <1>4, <2>1, SameValue DEF ValuesInductive, ValuesTypeOK
<1>6. Botched' <=> Botched
  BY <1>1, SameValue DEF Botched
<1>7. StageShape'
  BY <1>1, <1>2, <1>3, <1>4, <1>6, SameValue DEF StageShape, ValuesInductive
<1>8. LeakShape'
  <2>1. \A p \in at .. value.last[c] : LostInTable(p)
    BY <1>2, <1>3, <1>4 DEF LostInTable, Inside
  <2>2. \A p \in leaked' : Stopped(p) \/ LostInTable(p)
    BY <1>1, <2>1 DEF ValuesInductive, LeakShape
  <2> QED
    BY <1>1, <1>3, <2>2, SameLoss DEF LeakShape
<1>9. PassShape'
  <2>1. Reached = at /\ Reached' = at'
    BY <1>1 DEF Reached
  <2>2. ~KindIn(c, Leaves) /\ KindIn(c, Buffers)
    BY <1>3 DEF KindIn, Leaves, Buffers
  <2>3. \A p \in Parts :
            /\ KindIn(p, Leaves)
                   => ended[p] = IF p < at' /\ p \notin leaked' THEN 1 ELSE 0
            /\ ~KindIn(p, Leaves) => ended[p] = 0
    BY <1>1, <1>3, <1>4, <2>1, <2>2 DEF ValuesInductive, PassShape
  <2>4. \A p \in Parts :
            /\ KindIn(p, Buffers)
                   => freed[p] = IF p < at' /\ p \notin open' \cup leaked' THEN 1 ELSE 0
            /\ ~KindIn(p, Buffers) => freed[p] = 0
    BY <1>1, <1>3, <1>4, <2>1 DEF ValuesInductive, PassShape
  <2>5. \A p \in leaked' : p < at' /\ p \notin open'
    BY <1>1, <1>2, <1>3, <1>4, <2>1 DEF ValuesInductive, PassShape
  <2>6. \A p \in Parts : KindIn(p, Containers) /\ p < at' /\ p \notin open'
            => value.last[p] < at'
    <3> TAKE p \in Parts
    <3> HAVE KindIn(p, Containers) /\ p < at' /\ p \notin open'
    <3>1. CASE p = c
      BY <1>1, <1>2, <3>1
    <3>2. CASE p # c /\ p < at
      <4>1. value.last[p] < at
        BY <1>1, <1>3, <2>1, <3>2 DEF ValuesInductive, PassShape
      <4> QED
        BY <1>2, <1>4, <4>1
    <3>3. CASE p \in at .. value.last[c]
      <4>1. value.last[p] <= value.last[c]
        BY <1>2, <1>4, <3>3
      <4> QED
        BY <1>1, <1>2, <4>1
    <3> QED
      BY <1>4, <3>1, <3>2, <3>3
  <2>7. \A o \in open' : ~Inside(o, c)
    <3> TAKE o \in open'
    <3>1. o \in Nat /\ c \in Nat /\ o <= c
      BY <1>1, <1>2 DEF Innermost
    <3> QED
      BY <3>1 DEF Inside
  <2>8. \A o \in open' : o < at' /\ \A p \in Parts : Inside(o, p) => p \in open'
    BY <1>1, <1>2, <1>3, <1>4, <2>1, <2>7 DEF ValuesInductive, PassShape
  <2>9. \A o \in open' : at' <= value.last[o] + 1
    <3> TAKE o \in open'
    <3>1. o \in Parts /\ o < c /\ at <= value.last[o] + 1
      BY <1>1, <1>2, <1>3, <2>1 DEF Innermost, ValuesInductive, PassShape
    <3>2. Inside(c, o)
      BY <1>2, <1>4, <3>1 DEF Inside
    <3> QED
      BY <1>1, <1>2, <3>1, <3>2
  <2> QED
    BY <1>1, <2>1, <2>3, <2>4, <2>5, <2>6, <2>8, <2>9, SameValue DEF PassShape
<1> QED
  BY <1>1, <1>5, <1>7, <1>8, <1>9, PassSuffices

-----------------------------------------------------------------------------
LEMMA ValuesStutter == ASSUME ValuesInductive, UNCHANGED vars PROVE ValuesInductive'
<1>1. UNCHANGED <<value, action, stage, at, open, owner, culprit, invalidated, ended, freed,
                  leaked, released>>
  BY DEF vars, placeVars, effectVars
<1>2. ValuesTypeOK' /\ LeakShape' /\ HandlesReleased'
  BY <1>1, SameValue, SameLoss, LeakStays DEF ValuesInductive, ValuesTypeOK, HandlesReleased
<1>3. StageShape'
  BY <1>1 DEF ValuesInductive, StageShape, Botched, Parts, Size, Scan, KindIn, Inside
<1>4. PassShape'
  BY <1>1 DEF ValuesInductive, PassShape, Botched, Reached, Parts, Size, KindIn, Inside
<1>5. EndsOnce'
  <2>1. \A p : Done(p)' <=> Done(p)
    BY <1>1, SameLoss DEF Done, KindIn
  <2> QED
    BY <1>1, <2>1 DEF ValuesInductive, EndsOnce, Botched, Parts, Size, KindIn, Inside
<1> QED
  BY <1>2, <1>3, <1>4, <1>5 DEF ValuesInductive

\* The strengthening is an inductive invariant of Values, for values of any number of parts.
THEOREM ValuesIsInductive == ValuesSpec => []ValuesInductive
<1>1. ASSUME ValuesInductive, [ValuesNext]_vars PROVE ValuesInductive'
  <2>1. ASSUME New \/ NewNoDrop \/ NewWithFinalizer \/ FromBox PROVE ValuesInductive'
    BY <1>1, <2>1, AllocateInductive DEF New, NewNoDrop, NewWithFinalizer, FromBox, Actions
  <2>2. ASSUME Drop PROVE ValuesInductive'
    BY <1>1, <2>2, DropLeafInductive, DropContainerInductive, AbandonTableInductive DEF Drop
  <2> QED
    BY <1>1, <2>1, <2>2, BeginInductive, EndDeallocateInductive, EnterInductive,
       FinalizeInductive, ValuesStutter DEF ValuesNext
<1> QED
  BY <1>1, ValuesInitInductive, PTL DEF ValuesSpec

\* Deallocation releases every handle in the value, whatever panics on the way, but for
\* those that a HashMap or HashSet leaks when a destructor panics inside it.
THEOREM ValuesReleaseHandles == ValuesSpec => []HandlesReleased
<1>1. ValuesInductive => HandlesReleased
  BY DEF ValuesInductive
<1> QED
  BY <1>1, ValuesIsInductive, PTL

\* Each part ends once and before what it is in is freed, unless a finalizer panics
\* inside a tuple or a collection; or it is leaked, untouched, by a HashMap or HashSet that
\* a destructor panicked in.
THEOREM ValuesEndOnce == ValuesSpec => []EndsOnce
<1>1. ValuesInductive => EndsOnce
  BY DEF ValuesInductive
<1> QED
  BY <1>1, ValuesIsInductive, PTL

=============================================================================
