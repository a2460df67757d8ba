------------------------------ MODULE Warrants -------------------------------
(***************************************************************************)
(* What a Lockout (src/concurrency/lockout.rs) promises about one piece of *)
(* data: any number of warrants, or one exclusive warrant, never both.     *)
(***************************************************************************)
CONSTANTS Reader, Writer

VARIABLES readers,  \* threads holding a Warrant
          writers   \* threads holding an ExclusiveWarrant

warrantVars == <<readers, writers>>

WarrantInit == readers = {} /\ writers = {}

GetWarrant(r) ==
    /\ r \in Reader \ readers
    /\ writers = {}
    /\ readers' = readers \cup {r}
    /\ UNCHANGED writers

DropWarrant(r) ==
    /\ r \in readers
    /\ readers' = readers \ {r}
    /\ UNCHANGED writers

GetExclusiveWarrant(w) ==
    /\ w \in Writer
    /\ readers = {} /\ writers = {}
    /\ writers' = {w}
    /\ UNCHANGED readers

DropExclusiveWarrant(w) ==
    /\ w \in writers
    /\ writers' = writers \ {w}
    /\ UNCHANGED readers

WarrantNext ==
    \/ \E r \in Reader : GetWarrant(r) \/ DropWarrant(r)
    \/ \E w \in Writer : GetExclusiveWarrant(w) \/ DropExclusiveWarrant(w)

WarrantSpec == WarrantInit /\ [][WarrantNext]_warrantVars

=============================================================================
