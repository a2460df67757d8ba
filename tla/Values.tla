-------------------------------- MODULE Values --------------------------------
(***************************************************************************)
(* What happens to one value from its allocation (GcAllocation, alloc.rs)  *)
(* to its deallocation by the drop thread: which handles are invalidated,  *)
(* and what its destructor or its finalizer does to each part, when one    *)
(* user-written part may panic.                                            *)
(*                                                                         *)
(* A value is a tree.  Its parts are numbered in the order in which they   *)
(* are scanned, finalized and dropped: part 1 is the whole value, and the  *)
(* parts p + 1 to last[p] are inside part p.  The trait implementations    *)
(* for the types of std call each other recursively over the value; here   *)
(* `at` is the part their calls have come to, and the calls in progress    *)
(* are those on the parts in `open`.                                       *)
(*                                                                         *)
(* A part without parts is a Gc, an AtomicGc (which stands for all that is *)
(* not GcDrop), or user data whose drop or finalize may panic.  A "struct" *)
(* is finalized in place (a derived Finalize, Option, RefCell, Mutex,      *)
(* RwLock); a "tuple" and the collections (a map is one of pairs) are read *)
(* out of their place first.  A collection is a "vec", or it is a "table": *)
(* a HashMap or HashSet, which std drops without a guard against panics.   *)
(***************************************************************************)
EXTENDS Naturals

CONSTANT MaxParts    \* most parts of a value

ASSUME ValuesAssumption == MaxParts \in Nat

VARIABLES
    value,       \* the kind of each part, and its last part
    action,      \* deallocation_action
    stage,       \* what the drop thread is doing with it
    at,          \* the next part it comes to; in unwinding the one it comes from
    open,        \* the parts it is inside
    owner,       \* the part whose finalizer's local variables unwinding drops, or 0
    culprit,     \* the part that panicked, or 0
    invalidated, \* the parts whose handles have been invalidated
    ended,       \* how often each part was dropped, or its finalizer returned
    freed,       \* how often the buffer of each collection was freed
    leaked,      \* the parts a table has leaked
    released     \* is the memory of the allocation returned?

placeVars == <<at, open, owner>>
effectVars == <<culprit, invalidated, ended, freed, leaked, released>>
vars == <<value, action, stage, placeVars, effectVars>>

Leaves == {"gc", "atomic", "user"}
Buffers == {"vec", "table"}
ReadOut == {"tuple"} \cup Buffers
Containers == {"struct"} \cup ReadOut
Actions == {"DoNothing", "RunDrop", "RunFinalizer", "BoxDrop"}

(* The trees of n parts: what is inside p ends where p does, or before. *)
Trees(n) ==
    {last \in [1 .. n -> 1 .. n] :
        /\ last[1] = n
        /\ \A p \in 1 .. n : last[p] >= p
        /\ \A p, q \in 1 .. n : p < q /\ q <= last[p] => last[q] <= last[p]}

(* Only a collection may be empty. *)
ValuesOf(n) ==
    {v \in [kind : [1 .. n -> Leaves \cup Containers], last : Trees(n)] :
        \A p \in 1 .. n :
            /\ v.kind[p] \in Leaves => v.last[p] = p
            /\ v.kind[p] \in {"struct", "tuple"} => v.last[p] > p}

Values == UNION {ValuesOf(n) : n \in 1 .. MaxParts}

Size == value.last[1]
Parts == 1 .. Size
KindIn(p, kinds) == value.kind[p] \in kinds
Inside(p, c) == c < p /\ p <= value.last[c]

(* The marker GcDrop: nothing inside needs a finalizer. *)
GcDrop(v) == \A p \in DOMAIN v.kind : v.kind[p] # "atomic"

ValuesInit ==
    /\ value \in ValuesOf(1)
    /\ action = "DoNothing" /\ stage = "none"
    /\ at = 1 /\ open = {} /\ owner = 0 /\ culprit = 0
    /\ invalidated = {} /\ leaked = {} /\ released = FALSE
    /\ ended = [p \in Parts |-> 0] /\ freed = [p \in Parts |-> 0]

-------------------------------------------------------------------------------
(* Allocation.                                                             *)

Allocate(v, does) ==
    /\ stage' = "allocated"
    /\ value' = v /\ action' = does
    /\ ended' = [p \in DOMAIN v.kind |-> 0]
    /\ freed' = [p \in DOMAIN v.kind |-> 0]
    /\ UNCHANGED <<placeVars, culprit, invalidated, leaked, released>>

New == stage = "none" /\ \E v \in Values : GcDrop(v) /\ Allocate(v, "RunDrop")

NewNoDrop == stage = "none" /\ \E v \in Values : Allocate(v, "DoNothing")

NewWithFinalizer == stage = "none" /\ \E v \in Values : Allocate(v, "RunFinalizer")

FromBox == stage = "none" /\ \E v \in Values : GcDrop(v) /\ Allocate(v, "BoxDrop")

-------------------------------------------------------------------------------
(* Deallocation begins with what the deallocation_action says.             *)

(* The Gcs and AtomicGcs that scanning value reports. *)
Scan == {p \in Parts : KindIn(p, {"gc", "atomic"})}

(* Mutant: the value is not asked for its handles. *)
MutantInvalidateNone == UNCHANGED invalidated

InvalidateHandles == invalidated' = Scan

Begin(does, next) ==
    /\ stage = "allocated" /\ action = does /\ stage' = next
    /\ UNCHANGED <<value, action, placeVars, culprit, ended, freed, leaked, released>>

DoNothing == Begin("DoNothing", "end") /\ InvalidateHandles

RunDrop == Begin("RunDrop", "drop") /\ UNCHANGED invalidated

RunFinalizer == Begin("RunFinalizer", "finalize") /\ InvalidateHandles

BoxDrop == Begin("BoxDrop", "drop") /\ UNCHANGED invalidated

(* A panic unwinds past dealloc; a Box frees its own memory even so. *)
EndDeallocate ==
    /\ \/ stage = "end"
       \/ stage \in {"finalize", "drop"} /\ at \notin Parts /\ open = {}
       \/ stage = "unwind" /\ open = {}
    /\ stage' = "deallocated"
    /\ released' = (culprit = 0 \/ action = "BoxDrop")
    /\ UNCHANGED <<value, action, placeVars, culprit, invalidated, ended, freed, leaked>>

-------------------------------------------------------------------------------
(* Going over the parts.                                                   *)

Innermost(c) == c \in open /\ \A o \in open : o <= c

(* A destructor has panicked inside the table c. *)
Stopped(c) == value.kind[c] = "table" /\ culprit # 0 /\ Inside(culprit, c) /\ owner = 0

(* The next part is of these kinds. *)
Reach(kinds) ==
    /\ at \in Parts /\ KindIn(at, kinds)
    /\ \A o \in open : at <= value.last[o] /\ ~(Innermost(o) /\ Stopped(o))

(* All inside c has been treated. *)
Through(c) == Innermost(c) /\ value.last[c] < at

Leave(c) == open' = open \ {c}

EndPart(p) == ended' = [ended EXCEPT ![p] = @ + 1]

FreeBuffer(c) ==
    freed' = IF KindIn(c, Buffers) THEN [freed EXCEPT ![c] = @ + 1] ELSE freed

(* A call on the next part, which goes on to the parts inside. *)
Enter ==
    /\ stage \in {"finalize", "drop"} /\ Reach(Containers)
    /\ open' = open \cup {at} /\ at' = at + 1
    /\ UNCHANGED <<value, action, stage, owner, effectVars>>

-------------------------------------------------------------------------------
(* Finalize.                                                               *)

FinalizeLeaf ==
    /\ stage = "finalize" /\ Reach(Leaves)
    /\ \/ /\ EndPart(at)
          /\ at' = at + 1
          /\ UNCHANGED <<stage, culprit>>
       \/ /\ value.kind[at] = "user"
          /\ culprit' = at /\ stage' = "unwind"
          /\ UNCHANGED <<at, ended>>
    /\ UNCHANGED <<value, action, open, owner, invalidated, freed, leaked, released>>

(* Fields finalized where they are: a panic leaves the others alone. *)
FinalizeInPlace(c) ==
    /\ value.kind[c] = "struct" /\ Leave(c)
    /\ \/ stage = "finalize" /\ Through(c) /\ UNCHANGED at
       \/ stage = "unwind" /\ Innermost(c) /\ at' = c
    /\ UNCHANGED <<value, action, stage, owner, effectVars>>

(* Unwinding drops the parts of c from p on. *)
DropFrom(c, p) == stage' = "drop" /\ owner' = c /\ at' = p /\ UNCHANGED open

(* let (mut A, mut B) = read(self): the fields become local variables,     *)
(* forgotten once all are finalized; a panic drops every one of them.      *)
FinalizeTuple(c) ==
    /\ value.kind[c] = "tuple"
    /\ \/ stage = "finalize" /\ Through(c) /\ Leave(c) /\ UNCHANGED <<stage, owner, at>>
       \/ stage = "unwind" /\ Innermost(c) /\ DropFrom(c, c + 1)
    /\ UNCHANGED <<value, action, effectVars>>

(* Mutant: the elements are finalized but not forgotten. *)
MutantFinalizeKept(c) ==
    /\ KindIn(c, Buffers) /\ stage = "finalize" /\ Through(c) /\ Leave(c) /\ FreeBuffer(c)
    /\ ended' = [p \in Parts |-> ended[p] + IF Inside(p, c) THEN 1 ELSE 0]
    /\ UNCHANGED <<value, action, stage, owner, at, culprit, invalidated, leaked, released>>

(* for mut e in read(self): each element is finalized and forgotten, then  *)
(* the iterator frees the buffer.  A panic drops the element and the       *)
(* iterator, which drops the rest and frees the buffer.                    *)
FinalizeElements(c) ==
    /\ KindIn(c, Buffers)
    /\ \/ stage = "finalize" /\ Through(c) /\ Leave(c) /\ FreeBuffer(c)
          /\ UNCHANGED <<stage, owner, at>>
       \/ stage = "unwind" /\ Innermost(c) /\ DropFrom(c, at) /\ UNCHANGED freed
    /\ UNCHANGED <<value, action, culprit, invalidated, ended, leaked, released>>

Finalize ==
    \/ FinalizeLeaf
    \/ \E c \in open : FinalizeInPlace(c) \/ FinalizeTuple(c) \/ FinalizeElements(c)

-------------------------------------------------------------------------------
(* Drop: the compiler's glue, and std's collections.  They go on with the  *)
(* other parts when one panics, and a collection then frees its buffer;    *)
(* but a table stops there.  What unwinding drops does not panic again,    *)
(* which would abort.                                                      *)

DropLeaf ==
    /\ stage = "drop" /\ Reach(Leaves)
    /\ EndPart(at)
    /\ at' = at + 1
    /\ culprit' \in {culprit} \cup {p \in {at} : culprit = 0 /\ value.kind[p] = "user"}
    /\ UNCHANGED <<value, action, stage, open, owner, invalidated, freed, leaked, released>>

(* With the last local variable dropped, unwinding leaves the finalizer. *)
DropContainer(c) ==
    /\ stage = "drop" /\ Through(c) /\ ~Stopped(c)
    /\ Leave(c) /\ FreeBuffer(c)
    /\ IF c = owner THEN stage' = "unwind" /\ owner' = 0 /\ at' = c
                    ELSE UNCHANGED <<stage, owner, at>>
    /\ UNCHANGED <<value, action, culprit, invalidated, ended, leaked, released>>

(* The element that panicked is dropped to its end; the elements after it, *)
(* and the table's buffer, are leaked.                                     *)
AbandonTable(c) ==
    /\ stage = "drop" /\ Innermost(c) /\ Stopped(c)
    /\ Leave(c)
    /\ at' = value.last[c] + 1
    /\ leaked' = leaked \cup {c} \cup at .. value.last[c]
    /\ UNCHANGED <<value, action, stage, owner, culprit, invalidated, ended, freed, released>>

Drop == DropLeaf \/ \E c \in open : DropContainer(c) \/ AbandonTable(c)

-------------------------------------------------------------------------------
ValuesNext ==
    \/ New \/ NewNoDrop \/ NewWithFinalizer \/ FromBox
    \/ DoNothing \/ RunDrop \/ RunFinalizer \/ BoxDrop \/ EndDeallocate
    \/ Enter \/ Finalize \/ Drop

ValuesSpec == ValuesInit /\ [][ValuesNext]_vars

-------------------------------------------------------------------------------
(***************************************************************************)
(* Deallocation takes every Gc of the value out of the handle list, on     *)
(* each of its four paths and whatever panics on the way: a finalizer that *)
(* panics half-way or forgets a field leaves no handle to freed data.  But *)
(* a destructor that panics in a HashMap or HashSet may leave the handles  *)
(* of what comes after it there in the list, roots for ever: nothing was   *)
(* invalidated beforehand.                                                 *)
(***************************************************************************)
LostInTable(p) ==
    /\ action \in {"RunDrop", "BoxDrop"} /\ culprit # 0 /\ culprit < p
    /\ \E c \in Parts : value.kind[c] = "table" /\ Inside(culprit, c) /\ Inside(p, c)

HandlesReleased ==
    stage = "deallocated" =>
        \A p \in Scan : p \in invalidated \/ ended[p] > 0 \/ LostInTable(p)

(* A panic in a finalizer unwinds through a finalizer that has local variables. *)
Botched ==
    /\ action = "RunFinalizer" /\ culprit # 0
    /\ \E c \in Parts : KindIn(c, ReadOut) /\ Inside(culprit, c)

(* A part has been dropped or finalized and its buffer freed, or it has    *)
(* been leaked as it was by a table that a destructor panicked in.         *)
Done(p) ==
    IF p \in leaked THEN /\ ended[p] = 0 /\ freed[p] = 0
                         /\ Stopped(p) \/ LostInTable(p)
                    ELSE /\ KindIn(p, Leaves) => ended[p] = 1
                         /\ KindIn(p, Buffers) => freed[p] = 1

(***************************************************************************)
(* Unless a finalizer panics inside a tuple or a collection, each part is  *)
(* ended and each buffer freed at most once; when a buffer is freed, or    *)
(* the allocation, all inside it has been ended; and when a destructor or  *)
(* a finalizer was to be run and no finalizer panicked, nothing is left:   *)
(* except for what a HashMap or HashSet leaks, untouched, when a           *)
(* destructor panics inside.                                               *)
(* So nothing is touched after it, or what it is in, is freed.             *)
(***************************************************************************)
EndsOnce ==
    ~Botched =>
        /\ \A p \in Parts : ended[p] <= 1 /\ freed[p] <= 1
        /\ \A c, p \in Parts : freed[c] = 1 /\ Inside(p, c) => Done(p)
        /\ action = "DoNothing" => \A p \in Parts : ended[p] = 0 /\ freed[p] = 0
        /\ stage = "deallocated" /\ action # "DoNothing"
               /\ ~(action = "RunFinalizer" /\ culprit # 0) => \A p \in Parts : Done(p)
        /\ released => action = "DoNothing" \/ \A p \in Parts : Done(p)

(***************************************************************************)
(* finalize.rs:39-41: after finalize "no further operations may be         *)
(* performed with this object. You may not even drop this object!".        *)
(* Nothing is dropped whose finalizer has returned, or that was dropped.   *)
(***************************************************************************)
NotDroppedAfterItsEnd == \A p \in Parts : ended[p] <= 1

-------------------------------------------------------------------------------
(* What makes HandlesReleased and EndsOnce inductive.                      *)

ValuesTypeOK ==
    /\ Size \in Nat /\ Size >= 1 /\ value \in ValuesOf(Size)
    /\ action \in Actions
    /\ stage \in {"none", "allocated", "finalize", "unwind", "drop", "end", "deallocated"}
    /\ at \in 1 .. Size + 1
    /\ open \subseteq Parts /\ \A c \in open : KindIn(c, Containers)
    /\ owner \in 0 .. Size /\ culprit \in 0 .. Size
    /\ invalidated \subseteq Parts
    /\ ended \in [Parts -> Nat] /\ freed \in [Parts -> Nat]
    /\ leaked \subseteq Parts
    /\ released \in BOOLEAN

(* What each stage says of the rest of the state. *)
StageShape ==
    /\ stage \in {"none", "allocated"}
           => at = 1 /\ open = {} /\ owner = 0 /\ culprit = 0 /\ invalidated = {}
    /\ stage \in {"none", "allocated", "end"} => \A p \in Parts : ended[p] = 0 /\ freed[p] = 0
    /\ stage = "end" => action = "DoNothing"
    /\ stage = "finalize" => action = "RunFinalizer" /\ culprit = 0 /\ owner = 0
    /\ stage = "unwind" => action = "RunFinalizer" /\ culprit # 0 /\ owner = 0
    /\ stage = "drop" => IF owner = 0 THEN action \in {"RunDrop", "BoxDrop"} /\ culprit < at
                                      ELSE Botched
    /\ stage # "deallocated" => released = FALSE
    /\ stage \notin {"none", "allocated"} /\ action \in {"DoNothing", "RunFinalizer"}
           => invalidated = Scan

(* Tables leak only when a destructor panicked inside. *)
LeakShape ==
    /\ leaked # {} => action \in {"RunDrop", "BoxDrop"} /\ culprit # 0 /\ owner = 0
    /\ \A p \in leaked : Stopped(p) \/ LostInTable(p)

(* All parts before this one have been treated, all others have not. *)
Reached == IF stage = "unwind" THEN culprit ELSE at

PassShape ==
    stage \in {"finalize", "drop", "unwind"} /\ ~Botched =>
        /\ \A p \in Parts : KindIn(p, Leaves)
               => ended[p] = IF p < Reached /\ p \notin leaked THEN 1 ELSE 0
        /\ \A c \in Parts : KindIn(c, Buffers)
               => freed[c] = IF c < Reached /\ c \notin open \cup leaked THEN 1 ELSE 0
        /\ \A p \in Parts : /\ ~KindIn(p, Leaves) => ended[p] = 0
                            /\ ~KindIn(p, Buffers) => freed[p] = 0
                            /\ p \in leaked => p < Reached /\ p \notin open
        /\ \A c \in Parts : KindIn(c, Containers) /\ c < Reached /\ c \notin open
               => value.last[c] < Reached \/ (stage = "unwind" /\ value.kind[c] = "struct")
        /\ \A o \in open : o < Reached /\ Reached <= value.last[o] + 1
        /\ \A o \in open, c \in Parts : Inside(o, c) => c \in open
        /\ stage = "unwind" => \A o \in open : Inside(culprit, o)

ValuesInductive ==
    ValuesTypeOK /\ StageShape /\ LeakShape /\ PassShape /\ HandlesReleased /\ EndsOnce
===============================================================================
