------------------------------ MODULE Layering ------------------------------
(***************************************************************************)
(* internal/layer: a profile is resampled onto a uniform grid, a boundary  *)
(* is put where the temperature gradient jumps, boundaries that are too    *)
(* close are merged, and a segment is anomalous when the jump at its top   *)
(* is large among the jumps of the run.                                    *)
(*                                                                         *)
(* A gradient is the difference of temperature over one grid step, the     *)
(* same for all, so that JumpThreshold is a threshold per step. Pressures  *)
(* and the average gradients of a segment decide nothing and are left out. *)
(* Where two readings do not divide the grid evenly the model rounds and   *)
(* the code does not: instances use temperatures that divide.              *)
(***************************************************************************)
EXTENDS Profile, SequencesExt

CONSTANTS
    JumpThreshold,   \* Params.JumpThreshold, per grid step
    MinSegThick      \* Params.MinSegThick

ASSUME LayeringAssumption == JumpThreshold \in Nat /\ MinSegThick \in Nat \ {0}

Abs(n) == IF n < 0 THEN -n ELSE n

\* The elements of f at the integers in S, by increasing integer.
InOrder(f, S) ==
    LET rank(n) == Cardinality({m \in S : m < n})
    IN  [i \in 1..Cardinality(S) |-> f[CHOOSE n \in S : rank(n) = i - 1]]

-----------------------------------------------------------------------------
(* Resample *)

\* The valid rows in the order they are listed, by seq.
ValidPoints(p) == InOrder(p, ValidRows(p))

\* Variant: the reading above is one too high up.
interp_PrevOffByOne(pts, d) ==
    LET i == CHOOSE i \in 2..Len(pts) :
                d <= pts[i].cal /\ \A j \in 2..(i-1) : d > pts[j].cal
        a == pts[IF i > 2 THEN i - 2 ELSE 1]
        b == pts[i]
    IN  IF a.cal = b.cal THEN b.temp
        ELSE a.temp + ((d - a.cal) * (b.temp - a.temp)) \div (b.cal - a.cal)

\* The temperature at a depth between the first and the last point: on the line
\* between the first point not above that depth and the one listed before it.
interp(pts, d) ==
    LET i == CHOOSE i \in 2..Len(pts) :
                d <= pts[i].cal /\ \A j \in 2..(i-1) : d > pts[j].cal
        a == pts[i-1]
        b == pts[i]
    IN  IF a.cal = b.cal THEN b.temp
        ELSE a.temp + ((d - a.cal) * (b.temp - a.temp)) \div (b.cal - a.cal)

\* Variant: the grid starts at a multiple of the step.
GridDepths_Aligned(pts) ==
    LET first == ((pts[1].cal + GridStep - 1) \div GridStep) * GridStep
    IN  IF Len(pts) < 2 THEN <<>>
        ELSE [k \in 1..(1 + (pts[Len(pts)].cal - first) \div GridStep) |->
                 first + (k - 1) * GridStep]

\* Variant: a sample at the depth of the last point is left out.
GridDepths_OpenEnd(pts) ==
    IF Len(pts) < 2 THEN <<>>
    ELSE [k \in 1..((pts[Len(pts)].cal - pts[1].cal + GridStep - 1) \div GridStep) |->
             pts[1].cal + (k - 1) * GridStep]

\* From the first point down to the last one, in steps; none when the last
\* point lies above the first.
GridDepths(pts) ==
    IF Len(pts) < 2 THEN <<>>
    ELSE [k \in 1..(1 + (pts[Len(pts)].cal - pts[1].cal) \div GridStep) |->
             pts[1].cal + (k - 1) * GridStep]

\* A sample at each depth of the grid that lies between the first and the last
\* point.
Resample(p) ==
    LET pts    == ValidPoints(p)
        depths == GridDepths(pts)
        sample == [k \in 1..Len(depths) |->
                      [depth |-> depths[k], temp |-> interp(pts, depths[k])]]
    IN  InOrder(sample, {k \in DOMAIN sample :
                            /\ pts[1].cal <= sample[k].depth
                            /\ sample[k].depth <= pts[Len(pts)].cal})

-----------------------------------------------------------------------------
(* Detect *)

\* The gradient of the interval that ends at sample i.
Gradient(grid, i) == grid[i].temp - grid[i-1].temp

Jump(grid, i) == Abs(Gradient(grid, i) - Gradient(grid, i-1))

\* Variant: only a gradient that rises counts.
Candidates_Rising(grid) ==
    {i \in 3..Len(grid) : Gradient(grid, i) - Gradient(grid, i-1) >= JumpThreshold}

\* The samples where the gradient jumps, by the threshold or more.
Candidates(grid) == {i \in 3..Len(grid) : Jump(grid, i) >= JumpThreshold}

\* Variant: closeness is measured from the first boundary.
Merge_FromFirst(depths) ==
    InOrder(depths, {n \in DOMAIN depths : n = 1 \/ depths[n] - depths[1] >= MinSegThick})

\* The depths but those closer than MinSegThick to the last one kept.
Merge(depths) ==
    LET merged[n \in 1..Len(depths)] ==
            IF n = 1 THEN <<depths[1]>>
            ELSE IF depths[n] - Last(merged[n-1]) >= MinSegThick
                 THEN Append(merged[n-1], depths[n])
                 ELSE merged[n-1]
    IN  merged[Len(depths)]

\* The depths of the grid where it begins, where the gradient jumps and where it
\* ends.
Marks(grid) ==
    LET depths == [k \in DOMAIN grid |-> grid[k].depth]
    IN  <<depths[1]>> \o InOrder(depths, Candidates(grid)) \o <<Last(depths)>>

\* Variant: the bottom is dropped when it is too close, like any boundary.
Boundaries_MergedBottom(grid) == Merge(Marks(grid))

\* The merged boundaries, from the top to the bottom of the grid.
Boundaries(grid) ==
    LET bottom == Last(grid).depth
        merged == Merge(Marks(grid))
    IN  IF Last(merged) = bottom THEN merged ELSE Append(merged, bottom)

\* The gradient of the interval that ends at a depth of the grid; none ends at
\* its top.
gradAt(grid, d) ==
    IF \E i \in 2..Len(grid) : grid[i].depth = d
    THEN Gradient(grid, CHOOSE i \in 2..Len(grid) : grid[i].depth = d)
    ELSE 0

\* The intervals between boundaries, with the jump of the gradient since the
\* boundary before.
Detect(grid) ==
    IF Len(grid) < 2 THEN <<>>
    ELSE LET b == Boundaries(grid)
         IN  [i \in 1..(Len(b) - 1) |->
                 [top    |-> b[i],
                  bottom |-> b[i+1],
                  jump   |-> IF i = 1 THEN 0
                             ELSE Abs(gradAt(grid, b[i]) - gradAt(grid, b[i-1]))]]

-----------------------------------------------------------------------------
(* Classify *)

\* The k-th smallest of a sequence of integers, which it has at index k when it
\* is sorted.
Smallest(xs, k) ==
    CHOOSE x \in Range(xs) :
        /\ Cardinality({i \in DOMAIN xs : xs[i] < x}) < k
        /\ k <= Cardinality({i \in DOMAIN xs : xs[i] <= x})

\* Variant: the element before the middle.
TwiceMedian_Low(xs) ==
    LET m == (Len(xs) + 1) \div 2
    IN  2 * Smallest(xs, IF m > 1 THEN m - 1 ELSE 1)

\* Twice the median, an integer.
TwiceMedian(xs) ==
    LET m == Len(xs) \div 2
    IN  IF Len(xs) % 2 = 1 THEN 2 * Smallest(xs, m + 1)
        ELSE Smallest(xs, m) + Smallest(xs, m + 1)

\* Anomalous when the jump is positive and above 1.5 times the median.
Classify(segs) ==
    LET median2 == TwiceMedian([i \in DOMAIN segs |-> segs[i].jump])
    IN  [i \in DOMAIN segs |->
            IF 4 * segs[i].jump > 3 * median2 /\ segs[i].jump > 0
            THEN "anomaly" ELSE "stable"]

\* What a layering pass stores, by idx, for the grid of a profile.
ToModel(grid) ==
    LET segs   == Detect(grid)
        states == Classify(segs)
    IN  [i \in DOMAIN segs |->
            [top |-> segs[i].top, bottom |-> segs[i].bottom, state |-> states[i]]]
=============================================================================
