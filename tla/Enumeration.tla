----------------------------- MODULE Enumeration -----------------------------
(***************************************************************************)
(* What a ChunkedLinkedList (src/concurrency/chunked_ll.rs) promises: a    *)
(* set whose insertions and removals take effect at once, and which can be *)
(* walked over while it changes.  A walk loads what is in the set and then *)
(* visits it, whether it is in the set still or not: nothing twice.  It    *)
(* does not end before it has visited all that was in the set when it      *)
(* began and is in it still.                                               *)
(***************************************************************************)
EXTENDS Naturals

CONSTANT Item

VARIABLES members,  \* what is in the set
          walking,  \* a walk is in progress
          present,  \* what has been in the set ever since it began
          loaded,   \* what it is about to visit
          visits    \* how often it has visited each item

enumerationVars == <<members, walking, present, loaded, visits>>

NoVisits == [v \in Item |-> 0]

EnumerationInit ==
    /\ members = {} /\ present = {} /\ loaded = {}
    /\ walking = FALSE
    /\ visits = NoVisits

Insert(v) ==
    /\ v \in Item \ members
    /\ members' = members \cup {v}
    /\ UNCHANGED <<walking, present, loaded, visits>>

Remove(v) ==
    /\ v \in members
    /\ members' = members \ {v}
    /\ present' = present \ {v}
    /\ UNCHANGED <<walking, loaded, visits>>

BeginWalk ==
    /\ ~walking /\ walking' = TRUE
    /\ present' = members
    /\ visits' = NoVisits
    /\ UNCHANGED <<members, loaded>>

LoadItem(v) ==
    /\ walking
    /\ v \in members \ loaded /\ visits[v] = 0
    /\ loaded' = loaded \cup {v}
    /\ UNCHANGED <<members, walking, present, visits>>

VisitItem(v) ==
    /\ v \in loaded
    /\ loaded' = loaded \ {v}
    /\ visits' = [visits EXCEPT ![v] = 1]
    /\ UNCHANGED <<members, walking, present>>

EndWalk ==
    /\ walking /\ walking' = FALSE
    /\ loaded = {} /\ \A v \in present : visits[v] = 1
    /\ present' = {}
    /\ visits' = NoVisits
    /\ UNCHANGED <<members, loaded>>

EnumerationNext ==
    \/ \E v \in Item : Insert(v) \/ Remove(v) \/ LoadItem(v) \/ VisitItem(v)
    \/ BeginWalk
    \/ EndWalk

EnumerationSpec == EnumerationInit /\ [][EnumerationNext]_enumerationVars

=============================================================================
