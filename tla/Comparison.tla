----------------------------- MODULE Comparison -----------------------------
(***************************************************************************)
(* internal/compare: the boundaries of a baseline run are matched, one     *)
(* after the other, with the boundaries of a target run. A list of         *)
(* boundaries is the sequence of the top depths of a run's segments, which *)
(* increases (the jump a boundary also carries takes part in nothing).     *)
(***************************************************************************)
EXTENDS Integers, Sequences, Functions

CONSTANTS
    DepthDeltaMax,   \* Tolerance.DepthDeltaMax
    NaN              \* the not-a-number a vanished boundary carries

ASSUME ComparisonAssumption == DepthDeltaMax \in Nat /\ NaN \notin Int

Distance(d, e) == IF d > e THEN d - e ELSE e - d

\* A match farther away than this counts as none.
Reach == 4 * DepthDeltaMax

\* Among the free target boundaries, the nearest one, the first one on a tie:
\* a set of at most one index.
NearestFree(target, free, depth) ==
    {i \in free :
        \A j \in free :
            \/ Distance(target[i], depth) < Distance(target[j], depth)
            \/ Distance(target[i], depth) = Distance(target[j], depth) /\ i <= j}

\* Variant: a matched target boundary is not marked as used.
Matches_Reuses(baseline, target) ==
    [n \in DOMAIN baseline |->
        LET near == {i \in NearestFree(target, DOMAIN target, baseline[n]) :
                        Distance(target[i], baseline[n]) <= Reach}
        IN  IF near = {} THEN 0 ELSE CHOOSE i \in near : TRUE]

\* Variant: only matches within the plain tolerance count.
Matches_ShortReach(baseline, target) ==
    LET matched[n \in 0..Len(baseline)] ==
          IF n = 0 THEN <<>>
          ELSE LET used == Range(matched[n-1])
                   near == {i \in NearestFree(target, DOMAIN target \ used, baseline[n]) :
                               Distance(target[i], baseline[n]) <= DepthDeltaMax}
               IN  Append(matched[n-1], IF near = {} THEN 0 ELSE CHOOSE i \in near : TRUE)
    IN  matched[Len(baseline)]

\* The index of the target boundary each baseline boundary is matched with, 0
\* for one that vanished. Baseline boundaries choose in order, and each takes
\* its match away from those after it.
Matches(baseline, target) ==
    LET matched[n \in 0..Len(baseline)] ==
          IF n = 0 THEN <<>>
          ELSE LET used == Range(matched[n-1])
                   near == {i \in NearestFree(target, DOMAIN target \ used, baseline[n]) :
                               Distance(target[i], baseline[n]) <= Reach}
               IN  Append(matched[n-1], IF near = {} THEN 0 ELSE CHOOSE i \in near : TRUE)
    IN  matched[Len(baseline)]

\* Variant: boundaries that moved up are never anomalous.
Movement_NoAbs(depth, targetDepth) ==
    [baseline |-> depth, target |-> targetDepth,
     delta    |-> targetDepth - depth,
     anomaly  |-> targetDepth - depth > DepthDeltaMax]

Movement(depth, targetDepth) ==
    [baseline |-> depth, target |-> targetDepth,
     delta    |-> targetDepth - depth,
     anomaly  |-> Distance(targetDepth, depth) > DepthDeltaMax]

VanishedMovement(depth) ==
    [baseline |-> depth, target |-> NaN, delta |-> NaN, anomaly |-> TRUE]

Compare(baseline, target) ==
    LET match == Matches(baseline, target)
    IN  [n \in DOMAIN baseline |->
            IF match[n] = 0 THEN VanishedMovement(baseline[n])
                            ELSE Movement(baseline[n], target[match[n]])]

\* BuildDetail: JSON has no NaN, so json.Marshal fails on a vanished boundary.
BuildDetailSucceeds(moves) == \A n \in DOMAIN moves : moves[n].delta # NaN
=============================================================================
