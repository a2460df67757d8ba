----------------------------- MODULE AbstractGc ------------------------------
(***************************************************************************)
(* What a garbage collector promises its users, with no collection in      *)
(* sight: programs act on what they can reach, data is reclaimed in sets   *)
(* nobody can reach, and a Gc dies only when its owner drops it or when    *)
(* the reclaimed data it is inside is destroyed.  The public face of       *)
(* src/lib.rs and smart_ptr/gc.rs; Collector implements it.                *)
(***************************************************************************)
EXTENDS Naturals

CONSTANTS Data, Handle, Stack, Gone, Nothing

VARIABLES holder,     \* where each Gc is
          points,     \* what it points to
          allocated,  \* data that has been allocated
          reclaimed   \* data given up, to be destroyed in the background

abstractVars == <<holder, points, allocated, reclaimed>>

AbstractInit ==
    /\ holder = [h \in Handle |-> Gone]
    /\ points = [h \in Handle |-> Nothing]
    /\ allocated = {}
    /\ reclaimed = {}

\* What can be got at from the stacks, or from inside data awaiting destruction:
\* destructors are programs too.
Closed(S) ==
    \A h \in Handle : holder[h] \in S \cup {Stack} \cup reclaimed => points[h] \in S
Accessible == {d \in Data : \A S \in SUBSET Data : Closed(S) => d \in S}

Fresh(H) == \A h \in H : holder[h] = Gone

\* New data, and the handles H to it.
Allocate(H, d) ==
    /\ d \notin allocated
    /\ H # {} /\ Fresh(H)
    /\ allocated' = allocated \cup {d}
    /\ holder' = [h \in Handle |-> IF h \in H THEN Stack ELSE holder[h]]
    /\ points' = [h \in Handle |-> IF h \in H THEN d ELSE points[h]]
    /\ UNCHANGED reclaimed

\* New data whose value holds Gcs the program had.
AllocateWith(h, d, S) ==
    /\ d \notin allocated
    /\ Fresh({h})
    /\ \A g \in S : holder[g] = Stack
    /\ allocated' = allocated \cup {d}
    /\ holder' = [g \in Handle |-> IF g = h THEN Stack ELSE IF g \in S THEN d ELSE holder[g]]
    /\ points' = [points EXCEPT ![h] = d]
    /\ UNCHANGED reclaimed

\* Gcs move between a stack and data the program can reach.
Move(S, from, to) ==
    /\ Stack \in {from, to}
    /\ S # {} /\ \A h \in S : holder[h] = from
    /\ {from, to} \subseteq Accessible \cup {Stack}
    /\ holder' = [h \in Handle |-> IF h \in S THEN to ELSE holder[h]]
    /\ UNCHANGED <<points, allocated, reclaimed>>

\* A copy of a Gc the program can reach, or that is in data its destructor destroys; it never
\* points to reclaimed data.
CloneGc(h, g) ==
    /\ Fresh({g})
    /\ holder[h] \in Accessible \cup {Stack} \cup reclaimed
    /\ points[h] \notin reclaimed
    /\ holder' = [holder EXCEPT ![g] = Stack]
    /\ points' = [points EXCEPT ![g] = points[h]]
    /\ UNCHANGED <<allocated, reclaimed>>

\* The owner drops a Gc.
DropGc(h) ==
    /\ holder[h] = Stack
    /\ holder' = [holder EXCEPT ![h] = Gone]
    /\ points' = [points EXCEPT ![h] = Nothing]
    /\ UNCHANGED <<allocated, reclaimed>>

\* Data that no program can get at is reclaimed.
Reclaim(D) ==
    /\ D # {} /\ D \subseteq allocated \ reclaimed
    /\ D \cap Accessible = {}
    /\ reclaimed' = reclaimed \cup D
    /\ UNCHANGED <<holder, points, allocated>>

\* The value of reclaimed data is destroyed and the Gcs inside it die with it.
Destroy(d) ==
    /\ d \in reclaimed
    /\ holder' = [h \in Handle |-> IF holder[h] = d THEN Gone ELSE holder[h]]
    /\ points' = [h \in Handle |-> IF holder[h] = d THEN Nothing ELSE points[h]]
    /\ UNCHANGED <<allocated, reclaimed>>

AbstractNext ==
    \/ \E H \in SUBSET Handle, d \in Data : Allocate(H, d)
    \/ \E h \in Handle, d \in Data, S \in SUBSET Handle : AllocateWith(h, d, S)
    \/ \E S \in SUBSET Handle, from, to \in Data \cup {Stack} : Move(S, from, to)
    \/ \E h, g \in Handle : CloneGc(h, g)
    \/ \E h \in Handle : DropGc(h)
    \/ \E D \in SUBSET Data : Reclaim(D)
    \/ \E d \in Data : Destroy(d)

AbstractSpec == AbstractInit /\ [][AbstractNext]_abstractVars
=============================================================================
