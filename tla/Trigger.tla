------------------------------ MODULE Trigger -------------------------------
(***************************************************************************)
(* When to collect: the GcTrigger (src/collector/trigger.rs) and the       *)
(* channel with room for one notification to the asynchronous collector    *)
(* thread (src/collector/mod.rs).  The operators are conjoined by Cleanup. *)
(* The f32 percentages are rationals here, without rounding.               *)
(***************************************************************************)
EXTENDS Integers

CONSTANTS MinAllocations,  \* least count not below 512 * 1.3: 666 in the code
          Percents,        \* values of allocations_trigger_percent, in hundredths
          DefaultPercent,  \* DEFAULT_ALLOCATION_TRIGGER_PERCENT
          Deficit,         \* handle_deficit_trigger_percent, in hundredths
          Word             \* 2^64, for the usize subtraction

ASSUME TriggerAssumption ==
    /\ MinAllocations \in Nat \ {0}
    /\ Percents \subseteq Nat /\ DefaultPercent \in Percents \ {0} /\ Deficit \in 0 .. 100
    /\ Word \in Nat \ {0}

VARIABLES percent,   \* allocations_trigger_percent
          baseline,  \* data_count_at_last_collection
          notified   \* the channel holds a notification

triggerVars == <<percent, baseline, notified>>

TriggerTypeOK == percent \in Percents /\ baseline \in Nat /\ notified \in BOOLEAN

TriggerInit == percent = DefaultPercent /\ baseline = 0 /\ notified = FALSE

HandleDeficit(data, handles) == 100 * handles <= Deficit * data

\* amount_of_new_data; the percentage of a baseline of zero is infinite.
NewData(data) == (data - baseline) % Word
GrownBy(p, data) == baseline = 0 \/ 100 * NewData(data) >= p * baseline

ShouldCollect(data, handles) ==
    data >= MinAllocations /\ (HandleDeficit(data, handles) \/ GrownBy(percent, data))

\* The public set_gc_trigger_percent panics on a negative percentage or NaN before this.
SetTriggerPercent(p) == percent' = p /\ UNCHANGED <<baseline, notified>>

\* Sent only if there is room.
Notify == notified' = TRUE /\ UNCHANGED <<percent, baseline>>

Receive == notified /\ notified' = FALSE /\ UNCHANGED <<percent, baseline>>

SetDataCountAfterCollection(data) == baseline' = data /\ UNCHANGED <<percent, notified>>

=============================================================================
