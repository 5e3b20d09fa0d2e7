---------------------------- MODULE MCAlgorithms ----------------------------
(***************************************************************************)
(* The two algorithms of the program, layering a profile and comparing two *)
(* lists of boundaries, on all small inputs: inputs grow by one row or one *)
(* boundary per step, and every input on the way is checked.               *)
(***************************************************************************)
EXTENDS Comparison, Layering

CONSTANTS
    Depths,          \* bound: depths of the rows of a profile
    Temps,           \* bound: their temperatures
    Shift,           \* the offset of a correction, no multiple of GridStep
    MaxDepth,        \* bound: boundaries lie at 0 .. MaxDepth
    MaxBoundaries    \* bound: boundaries of a run

ASSUME InputsAssumption ==
    Depths \subseteq Int /\ Temps \subseteq Int /\ Shift \in Int

VARIABLES
    profile,             \* the input of Layer
    grid, segs,          \* what Layer makes of it
    baseline, target     \* the input of Compare

vars == <<profile, grid, segs, baseline, target>>

Init ==
    /\ profile = EmptyProfile /\ grid = <<>> /\ segs = <<>>
    /\ baseline = <<>> /\ target = <<>>

\* A reading at any depth: batches are validated one by one, and the upsert
\* merges them, so that depths need not increase with the seq number.
Reading(depth, temp) ==
    [raw |-> depth, cal |-> depth, temp |-> temp, state |-> "valid", gap |-> FALSE]

MissingRow == [raw |-> 0, cal |-> 0, temp |-> 0, state |-> "missing", gap |-> TRUE]

\* The rows a profile may grow by.
NewRows == {MissingRow} \cup {Reading(d, t) : d \in Depths, t \in Temps}

GrowProfile ==
    /\ baseline = <<>> /\ target = <<>>
    /\ \E s \in Seqs, row \in NewRows :
          /\ Rows(profile) = {q \in Seqs : q < s}
          /\ profile' = [profile EXCEPT ![s] = row]
    /\ grid' = Resample(profile')
    /\ segs' = ToModel(grid')
    /\ UNCHANGED <<baseline, target>>

\* The lists deeper by one boundary.
Deeper(tops) ==
    {Append(tops, d) :
        d \in {d \in 0..MaxDepth :
                  /\ Len(tops) < MaxBoundaries
                  /\ tops # <<>> => d > tops[Len(tops)]}}

GrowBaseline ==
    /\ profile = EmptyProfile
    /\ baseline' \in Deeper(baseline)
    /\ UNCHANGED <<profile, grid, segs, target>>

GrowTarget ==
    /\ profile = EmptyProfile
    /\ target' \in Deeper(target)
    /\ UNCHANGED <<profile, grid, segs, baseline>>

Next == GrowProfile \/ GrowBaseline \/ GrowTarget

Spec == Init /\ [][Next]_vars

-----------------------------------------------------------------------------
(* Properties of Layer *)

valid == {profile[s] : s \in ValidRows(profile)}

\* The depths of the valid rows increase with the seq number.
Sorted ==
    \A s, t \in ValidRows(profile) : s < t => profile[s].cal < profile[t].cal

\* A sample g and the rows a and b around it.
Above(a, g) == a.cal <= g.depth

Below(b, g) == g.depth <= b.cal

Between(a, g, b) ==
    \/ a.temp <= g.temp /\ g.temp <= b.temp
    \/ b.temp <= g.temp /\ g.temp <= a.temp

\* A sample, which Resample interpolates across missing sections too, has a
\* temperature between that of a reading above it and that of a reading below
\* it, even on a profile whose depths go back and forth, which interp was not
\* written for. On a sorted profile these are the readings next to it, and at
\* the depth of a reading the sample is that reading.
SamplesHonourReadings ==
    \A k \in DOMAIN grid :
        LET g == grid[k]
        IN  /\ \E a, b \in valid : Above(a, g) /\ Below(b, g) /\ Between(a, g, b)
            /\ Sorted =>
                  \A a, b \in valid :
                      /\ Above(a, g) /\ Below(b, g)
                      /\ \A c \in valid : c.cal <= a.cal \/ c.cal >= b.cal
                      => Between(a, g, b)

\* The segments cover the grid from its top to its bottom without a hole or an
\* overlap, whichever boundaries were merged away.
SegmentsTile ==
    segs # <<>> =>
        /\ segs[1].top = grid[1].depth
        /\ segs[Len(segs)].bottom = grid[Len(grid)].depth
        /\ \A i \in DOMAIN segs : segs[i].top < segs[i].bottom
        /\ \A i \in 2..Len(segs) : segs[i].top = segs[i-1].bottom

\* "Minimum segment thickness to keep" (Params.MinSegThick): chains of close
\* boundaries leave no thin segment, except that the last one may be.
OnlyLastThin ==
    \A i \in 1..(Len(segs) - 1) : segs[i].bottom - segs[i].top >= MinSegThick

\* Merging loses no jump "above" the threshold (Params.JumpThreshold): there is
\* a boundary at it, or one less than MinSegThick above. Of jumps equal to the
\* threshold nothing is said.
JumpsCovered ==
    \A k \in 3..Len(grid) :
        Jump(grid, k) > JumpThreshold =>
            \E i \in DOMAIN segs : \E b \in {segs[i].top, segs[i].bottom} :
                b <= grid[k].depth /\ (grid[k].depth - b < MinSegThick \/ b = grid[k].depth)

\* "Large relative to the run's median jump" (Classify): a run is never mostly
\* anomalous, and its first segment, which has no jump, never is.
AnomaliesAreFew ==
    segs # <<>> =>
        /\ 2 * Cardinality({i \in DOMAIN segs : segs[i].state = "anomaly"}) <= Len(segs)
        /\ segs[1].state = "stable"

\* Moving a run by a constant, as a datum correction does, moves its segments
\* by the same amount and leaves their number and states alone: what Compare
\* reports of a shifted run is the shift.
LayeringShifts ==
    LET corrected == Apply(profile, Shift)
    IN  VerifyMonotonic(corrected) =>
            ToModel(Resample(corrected)) =
                [i \in DOMAIN segs |-> [segs[i] EXCEPT !.top = @ + Shift,
                                                       !.bottom = @ + Shift]]

\* What RunService assumes of a layering pass: it finds segments exactly when
\* GridHasTwoSamples, the first of them stable, each deeper than the one above.
LayeringAsAssumed ==
    /\ segs # <<>> <=> GridHasTwoSamples(profile)
    /\ segs # <<>> => segs[1].state = "stable"
    /\ \A i \in 2..Len(segs) : segs[i-1].top < segs[i].top

-----------------------------------------------------------------------------
(* Properties of Compare *)

\* The index each baseline boundary is matched with, and those that vanished.
match == Matches(baseline, target)

Gone == {n \in DOMAIN baseline : match[n] = 0}

\* A target boundary is the counterpart of at most one baseline boundary
\* (compare.Compare, used): two boundaries are never reported to have merged.
MatchingInjective ==
    \A m, n \in DOMAIN baseline \ Gone : match[m] = match[n] => m = n

\* Compare gives up on a boundary only when each target boundary within reach is
\* the counterpart of a baseline boundary, which may lie farther from it.
NoneMissed ==
    \A n \in Gone : \A i \in DOMAIN target :
        Distance(target[i], baseline[n]) <= Reach => i \in Range(match)

\* "Matches baseline boundaries to the nearest target boundary": a boundary with
\* target boundaries within reach is matched with one that is nearest to it.
MatchesNearest ==
    \A n \in DOMAIN baseline, i \in DOMAIN target :
        Distance(target[i], baseline[n]) <= Reach =>
            /\ match[n] # 0
            /\ Distance(target[match[n]], baseline[n]) <= Distance(target[i], baseline[n])

\* The difference of two lists that are one list and its copy moved by shift.
IsShift(shift) ==
    /\ Len(target) = Len(baseline)
    /\ \A n \in DOMAIN baseline : target[n] = baseline[n] + shift

\* When all boundaries move by the same amount, less than half their spacing
\* and within reach, Compare reports that amount for each of them and flags
\* each of them exactly when it exceeds the tolerance; a run compared with
\* itself has not moved.
ShiftRecovered ==
    \A shift \in (-Reach)..Reach :
        /\ IsShift(shift)
        /\ \A n \in 2..Len(baseline) :
              2 * Distance(shift, 0) < baseline[n] - baseline[n-1]
        => \A n \in DOMAIN baseline :
              LET move == Compare(baseline, target)[n]
              IN  /\ move.delta = shift
                  /\ move.anomaly <=> Distance(shift, 0) > DepthDeltaMax
=============================================================================
