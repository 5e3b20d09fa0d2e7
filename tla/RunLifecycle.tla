---------------------------- MODULE RunLifecycle ----------------------------
(***************************************************************************)
(* What the service promises about the life of a well run, without saying  *)
(* how its calls interleave: a run moves from collecting to pending        *)
(* layering to layered to archived, one step at a time and never back, it  *)
(* is layered only once it has a segment set, and only a layered run is    *)
(* archived.                                                               *)
(***************************************************************************)
EXTENDS GeowellModel

CONSTANT Runs        \* well runs

VARIABLES
    state,           \* state[r] \in WellRunStates
    segmented        \* the runs that have a segment set

vars == <<state, segmented>>

Init ==
    /\ state = [r \in Runs |-> "collecting"]
    /\ segmented = {}

\* The first points of the run have arrived.
Collected(r) ==
    /\ state[r] = "collecting"
    /\ state' = [state EXCEPT ![r] = "pending_layering"]
    /\ UNCHANGED segmented

\* A segment set is stored, which happens before the run counts as layered.
Segmented(r) ==
    /\ state[r] # "collecting"
    /\ segmented' = segmented \cup {r}
    /\ UNCHANGED state

Layered(r) ==
    /\ state[r] = "pending_layering"
    /\ r \in segmented
    /\ state' = [state EXCEPT ![r] = "layered"]
    /\ UNCHANGED segmented

Archived(r) ==
    /\ state[r] = "layered"
    /\ state' = [state EXCEPT ![r] = "archived"]
    /\ UNCHANGED segmented

Next == \E r \in Runs : Collected(r) \/ Segmented(r) \/ Layered(r) \/ Archived(r)

Spec == Init /\ [][Next]_vars
=============================================================================
