------------------------------- MODULE Profile ------------------------------
(***************************************************************************)
(* A depth profile and the pure code that computes on it: the validation   *)
(* and conversion of an ingested batch (internal/ingest), the datum        *)
(* correction (internal/datum), the calibration plans (internal/calibrate) *)
(* and the precondition of layering (internal/layer, internal/validate).   *)
(*                                                                         *)
(* A profile is the rows of measure_points of one run, by seq number:      *)
(* NoRow where none is stored. Depths and temperatures are integers        *)
(* (the code has float64): only their order, differences and linear images *)
(* matter here. Pressure, timestamps and row ids take part in no decision  *)
(* and are left out.                                                       *)
(***************************************************************************)
EXTENDS Integers, Sequences, FiniteSets, GeowellModel

CONSTANTS
    Seqs,         \* measurement sequence numbers a batch may carry
    NoRow,        \* stands where a profile has no row
    GridStep,     \* layer.Params.GridStep
    BandDivisor,  \* the shallow band is the first 1/BandDivisor of a profile
    Scales        \* slopes a stretch plan may have

ASSUME ProfileAssumption ==
    /\ Seqs \subseteq Int
    /\ IsFiniteSet(Seqs)
    /\ GridStep \in Nat \ {0}
    /\ BandDivisor \in Nat \ {0}
    /\ Scales \subseteq Int

Point == [raw : Int, cal : Int, temp : Int, state : PointStates, gap : BOOLEAN]

ASSUME NoRowAssumption == NoRow \notin Point

Profiles == [Seqs -> Point \cup {NoRow}]

EmptyProfile == [s \in Seqs |-> NoRow]

\* The seq numbers of the stored rows.
Rows(p) == {s \in Seqs : p[s] # NoRow}

RawPoint == [seq : Seqs, depth : Int, temp : Int, missing : BOOLEAN]

Marker == [raw : Int, cal : Int]

-----------------------------------------------------------------------------
(* internal/ingest *)

\* A batch is accepted when no seq is negative or repeated and every reading
\* that is present lies deeper than the element before it in the batch.
Validate(batch) ==
    /\ \A i \in DOMAIN batch : batch[i].seq >= 0
    /\ \A i, j \in DOMAIN batch : batch[i].seq = batch[j].seq => i = j
    /\ \A i \in DOMAIN batch :
          ~batch[i].missing =>
              batch[i].depth > (IF i = 1 THEN -1 ELSE batch[i-1].depth)

\* The rows of an accepted batch; the calibrated depth mirrors the raw one.
ToMeasurePoint(b) ==
    [raw |-> b.depth, cal |-> b.depth, temp |-> b.temp,
     state |-> IF b.missing THEN "missing" ELSE "valid", gap |-> b.missing]

ToMeasurePoints(batch) ==
    [s \in Seqs |->
        IF \E i \in DOMAIN batch : batch[i].seq = s
        THEN ToMeasurePoint(batch[CHOOSE i \in DOMAIN batch : batch[i].seq = s])
        ELSE NoRow]

-----------------------------------------------------------------------------
(* The store's view of a profile: INSERT ... ON CONFLICT DO UPDATE, and the *)
(* order ListPoints returns the rows in.                                   *)

Upsert(stored, new) ==
    [s \in Seqs |-> IF new[s] # NoRow THEN new[s] ELSE stored[s]]

\* a is the row just before b in ORDER BY seq.
IsPred(p, a, b) == a < b /\ \A s \in Rows(p) : s <= a \/ s >= b

-----------------------------------------------------------------------------
(* internal/datum *)

\* The first max(2, n/BandDivisor) rows.
ShallowBand(p) ==
    LET n    == Cardinality(Rows(p))
        band == IF n \div BandDivisor > 2 THEN n \div BandDivisor ELSE 2
    IN  {s \in Rows(p) : Cardinality({t \in Rows(p) : t < s}) < band}

\* A dip followed by a rise over the first three readings of the band.
detectWellheadDisturbance(p) ==
    LET readings == {s \in ShallowBand(p) : ~p[s].gap}
    IN  /\ Cardinality(Rows(p)) >= 4
        /\ \E a, b, c \in readings :
              /\ a < b /\ b < c
              /\ {s \in readings : s <= c} = {a, b, c}
              /\ p[a].temp > p[b].temp
              /\ p[b].temp < p[c].temp

\* The row whose raw depth is nearest to the reference, the first one on a tie.
Nearest(p, ref) ==
    LET dist(s) == IF p[s].raw > ref THEN p[s].raw - ref ELSE ref - p[s].raw
    IN  {s \in Rows(p) :
            \A t \in Rows(p) : dist(s) < dist(t) \/ (dist(s) = dist(t) /\ s <= t)}

\* The correction for a reference depth: a set of one record, empty when the
\* run has no points.
Compute(p, ref) ==
    {[offset      |-> IF ref > 0 THEN ref - p[s].raw ELSE 0,
      basis       |-> IF ref > 0 THEN ref ELSE 0,
      disturbance |-> detectWellheadDisturbance(p)] : s \in Nearest(p, ref)}

\* Variant: the raw depth is shifted along with the calibrated one.
Apply_ShiftsRaw(p, offset) ==
    [s \in Seqs |->
        IF p[s] = NoRow THEN NoRow
        ELSE [p[s] EXCEPT !.raw = p[s].raw + offset, !.cal = p[s].raw + offset]]

\* Variant: gap rows are left as they are.
Apply_SkipsGaps(p, offset) ==
    [s \in Seqs |->
        IF p[s] = NoRow \/ p[s].gap THEN NoRow
        ELSE [p[s] EXCEPT !.cal = p[s].raw + offset]]

\* Shift every row by the offset and flag the rows that collide with the row
\* before them.
Apply(p, offset) ==
    [s \in Seqs |->
        IF p[s] = NoRow THEN NoRow
        ELSE [p[s] EXCEPT
                 !.cal   = p[s].raw + offset,
                 !.state = IF /\ ~p[s].gap
                              /\ \E t \in Rows(p) :
                                    IsPred(p, t, s) /\ p[s].raw <= p[t].raw
                           THEN "depth_conflict" ELSE p[s].state]]

\* Each reading lies deeper than the row just before it. That row may be a gap,
\* whose depth is not checked itself: across a gap readings may go back.
VerifyMonotonic(p) ==
    \A s, t \in Rows(p) :
        IsPred(p, s, t) /\ ~p[t].gap => p[t].cal > p[s].cal

-----------------------------------------------------------------------------
(* internal/calibrate *)

\* The linear transform of a strategy: a set of one record, empty when the
\* markers do not allow it. The offset strategy leaves the scale at its zero
\* value.
Build(strategy, markers) ==
    LET m1 == markers[1]
        m2 == markers[2]
    IN  CASE strategy = "offset" ->
               {[offset |-> IF markers = <<>> THEN 0 ELSE m1.cal - m1.raw,
                 scale  |-> 0]}
          [] strategy = "tie_point" ->
               {[offset |-> m1.cal - m1.raw, scale |-> k] :
                   k \in {k \in {1} : Len(markers) >= 1}}
          [] strategy = "stretch" ->
               {[offset |-> m1.cal - k * m1.raw, scale |-> k] :
                   k \in {k \in Scales :
                            /\ Len(markers) >= 2
                            /\ m1.raw # m2.raw
                            /\ k * (m2.raw - m1.raw) = m2.cal - m1.cal}}
          [] OTHER -> {}

ApplyPoints(p, plan) ==
    [s \in Seqs |->
        IF p[s] = NoRow THEN NoRow
        ELSE [p[s] EXCEPT !.cal = p[s].raw * plan.scale + plan.offset]]

-----------------------------------------------------------------------------
(* internal/metrics and the data-quality summary of internal/httpapi: the  *)
(* numerators of their completeness figures, over all rows of the run.     *)

\* metrics.Compute: the rows that are no gaps.
PresentCount(p) ==
    Cardinality(Rows(p)) - Cardinality({s \in Rows(p) : p[s].gap})

\* handleDataQuality: the rows in state "valid".
ValidCount(p) == Cardinality({s \in Rows(p) : p[s].state = "valid"})

-----------------------------------------------------------------------------
(* internal/validate and internal/layer *)

\* A run may be layered from this state with this many stored points. (The
\* archived flag, which RunReadiness checks too, is checked by its caller.)
RunReadiness(state, pointCount) ==
    /\ state \in {"pending_layering", "layered"}
    /\ pointCount >= 2

\* The rows Resample uses.
ValidRows(p) == {s \in Rows(p) : ~p[s].gap /\ p[s].state # "depth_conflict"}

\* Resample steps from the first valid row to the last: its grid has two
\* samples when the span holds at least one step.
GridHasTwoSamples(p) ==
    \E a, b \in ValidRows(p) :
        /\ \A s \in ValidRows(p) : a <= s /\ s <= b
        /\ p[a].cal + GridStep <= p[b].cal
=============================================================================
