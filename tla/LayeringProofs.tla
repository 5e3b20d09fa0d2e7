--------------------------- MODULE LayeringProofs ---------------------------
(***************************************************************************)
(* Theorems about the two algorithms of the program, for profiles of any   *)
(* length on any grid and for boundary lists of any length: every property *)
(* of MCAlgorithms is an invariant whatever its constants.                 *)
(*                                                                         *)
(* The layering of a profile is followed stage by stage: its rows in the   *)
(* order of their seq numbers, the samples of Resample, the marks and what *)
(* Merge keeps of them, the segments, their states; then the same stages   *)
(* for a profile that a correction has moved.                              *)
(***************************************************************************)
EXTENDS MCAlgorithms, ComparisonProofs, ProfileTheorems, FiniteSetTheorems

-----------------------------------------------------------------------------
(* Compare *)

\* The boundary lists are lists of integers.
ListsTyped == baseline \in Seq(Int) /\ target \in Seq(Int)

\* Boundaries are integers.
LEMMA ListsStayTyped == Spec => []ListsTyped
<1>1. Init => ListsTyped
  BY DEF Init, ListsTyped
<1>2. ASSUME NEW tops \in Seq(Int)
      PROVE  Deeper(tops) \subseteq Seq(Int)
  BY DEF Deeper
<1>3. ListsTyped /\ [Next]_vars => ListsTyped'
  BY <1>2 DEF Next, GrowProfile, GrowBaseline, GrowTarget, vars, ListsTyped
<1>4. QED
  BY <1>1, <1>3, PTL DEF Spec

\* However two runs are layered, two boundaries of one are never reported to
\* have become one of the other.
THEOREM MatchesAreInjective == Spec => []MatchingInjective
<1>1. ListsTyped => MatchingInjective
  <2> SUFFICES ASSUME ListsTyped, NEW m \in DOMAIN baseline, NEW n \in DOMAIN baseline,
                      match[m] # 0, match[m] = match[n]
               PROVE  m = n
    BY DEF MatchingInjective, Gone
  <2>1. Sound(baseline, target, match, Len(baseline))
    BY MatchesSound DEF ListsTyped, match
  <2>2. DOMAIN baseline = 1..Len(baseline)
    BY DEF ListsTyped
  <2>3. QED
    BY <2>1, <2>2 DEF Sound
<1>2. QED
  BY <1>1, ListsStayTyped, PTL

\* A boundary is reported as vanished only if every boundary of the other run
\* within reach is the counterpart of another one, for lists of any length.
THEOREM NoneIsMissed == Spec => []NoneMissed
<1>1. ListsTyped => NoneMissed
  <2> SUFFICES ASSUME ListsTyped, NEW n \in DOMAIN baseline, match[n] = 0,
                      NEW i \in DOMAIN target, Distance(target[i], baseline[n]) <= Reach
               PROVE  i \in Range(match)
    BY DEF NoneMissed, Gone
  <2>1. Sound(baseline, target, match, Len(baseline))
    BY MatchesSound DEF ListsTyped, match
  <2>2. DOMAIN baseline = 1..Len(baseline)
    BY DEF ListsTyped
  <2>3. QED
    BY <2>1, <2>2 DEF Sound
<1>2. QED
  BY <1>1, ListsStayTyped, PTL

\* Compare finds a common shift, whatever the number of boundaries, the reach and
\* the tolerance, as long as it is less than half their spacing.
THEOREM ShiftsAreRecovered == Spec => []ShiftRecovered
<1>1. ListsTyped => ShiftRecovered
  <2> SUFFICES ASSUME ListsTyped, NEW shift \in (-Reach)..Reach, IsShift(shift),
                      \A n \in 2..Len(baseline) :
                         2 * Distance(shift, 0) < baseline[n] - baseline[n-1],
                      NEW n \in DOMAIN baseline
               PROVE  LET move == Compare(baseline, target)[n]
                      IN  /\ move.delta = shift
                          /\ move.anomaly <=> Distance(shift, 0) > DepthDeltaMax
    BY DEF ShiftRecovered
  <2>1. Moved(baseline, target, shift)
    BY DEF IsShift, Moved
  <2>2. Distance(shift, 0) <= Reach /\ shift \in Int
    BY ComparisonAssumption DEF Distance, Reach
  <2>3. QED
    BY <2>1, <2>2, MovedCompare DEF ListsTyped
<1>2. QED
  BY <1>1, ListsStayTyped, PTL

-----------------------------------------------------------------------------
(* Rows and samples in order *)

\* An integer of a finite set has a place in it, by the number of those below.
LEMMA Ranks ==
    ASSUME NEW S \in SUBSET Int, IsFiniteSet(S)
    PROVE  /\ Cardinality(S) \in Nat
           /\ \A i \in 1..Cardinality(S) :
                 \E n \in S : Cardinality({m \in S : m < n}) = i - 1
           /\ \A n, k \in S : n < k =>
                 Cardinality({m \in S : m < n}) < Cardinality({m \in S : m < k})
           /\ \A n \in S : Cardinality({m \in S : m < n}) \in 0..(Cardinality(S) - 1)
<1> DEFINE below(n) == {m \in S : m < n}
           rank == [n \in S |-> Cardinality(below(n))]
<1>1. PICK N \in Nat : N = Cardinality(S)
  BY FS_CardinalityType
<1>2. ASSUME NEW n \in S
      PROVE  IsFiniteSet(below(n)) /\ Cardinality(below(n)) \in Nat
  BY FS_Subset, FS_CardinalityType
<1>3. ASSUME NEW n \in S, NEW T \in SUBSET S, below(n) \cup {n} \subseteq T
      PROVE  Cardinality(below(n)) < Cardinality(T)
  <2>1. n \notin below(n)
    OBVIOUS
  <2> HIDE DEF below
  <2>2. Cardinality(below(n) \cup {n}) = Cardinality(below(n)) + 1
    BY <1>2, <2>1, FS_AddElement
  <2>3. IsFiniteSet(T) /\ Cardinality(T) \in Nat
    BY FS_Subset, FS_CardinalityType
  <2>4. Cardinality(below(n) \cup {n}) <= Cardinality(T)
    BY <1>3, <2>3, FS_Subset
  <2>5. QED
    BY <1>2, <2>2, <2>3, <2>4
<1>4. \A n, k \in S : n < k => Cardinality(below(n)) < Cardinality(below(k))
  <2> TAKE n, k \in S
  <2> HAVE n < k
  <2>1. below(n) \cup {n} \subseteq below(k)
    <3>1. n \in Int /\ k \in Int /\ \A m \in S : m \in Int
      OBVIOUS
    <3>2. ASSUME NEW m \in S, m < n
          PROVE  m < k
      BY <3>1, <3>2
    <3>3. QED
      BY <3>2
  <2>2. QED
    BY <1>3, <2>1
<1>5. \A n \in S : Cardinality(below(n)) \in 0..(N - 1)
  <2> TAKE n \in S
  <2>1. Cardinality(below(n)) < N
    BY <1>1, <1>3
  <2>2. QED
    BY <1>1, <1>2, <2>1
<1>6. rank \in [S -> 0..(N - 1)]
  BY <1>5
<1>7. \A n, k \in S : rank[n] = rank[k] => n = k
  <2> TAKE n, k \in S
  <2>1. n < k \/ k < n \/ n = k
    OBVIOUS
  <2>2. QED
    BY <1>2, <1>4, <2>1
<1>8. rank \in Injection(S, 0..(N - 1))
  BY <1>6, <1>7 DEF Injection, IsInjective
<1>9. IsFiniteSet(0..(N - 1)) /\ Cardinality(0..(N - 1)) = N
  <2>1. PICK last \in Int : last = N - 1
    OBVIOUS
  <2>2. IsFiniteSet(0..last) /\ Cardinality(0..last) = N
    BY <2>1, FS_Interval
  <2>3. QED
    BY <2>1, <2>2
<1>10. rank \in Surjection(S, 0..(N - 1))
  BY <1>1, <1>8, <1>9, FS_Injection
<1>11. ASSUME NEW i \in 1..N
       PROVE  \E n \in S : rank[n] = i - 1
  <2>1. \A t \in 0..(N - 1) : \E n \in S : rank[n] = t
    BY <1>10 DEF Surjection
  <2>2. i - 1 \in 0..(N - 1)
    OBVIOUS
  <2>3. QED
    BY <2>1, <2>2
<1>12. QED
  BY <1>1, <1>4, <1>5, <1>11

\* idx are the N integers of S, increasing.
Places(idx, S, N) ==
    /\ N \in Nat /\ N = Cardinality(S)
    /\ idx \in [1..N -> S]
    /\ \A i, j \in 1..N : i < j => idx[i] < idx[j]
    /\ \A n \in S : \E i \in 1..N : idx[i] = n
    /\ \A i \in 1..N : Cardinality({m \in S : m < idx[i]}) = i - 1

\* Two functions taken in the order of one set are taken at the same places.
LEMMA InOrderBoth ==
    ASSUME NEW S \in SUBSET Int, IsFiniteSet(S), NEW f, NEW g
    PROVE  \E idx, N : /\ Places(idx, S, N)
                       /\ InOrder(f, S) = [i \in 1..N |-> f[idx[i]]]
                       /\ InOrder(g, S) = [i \in 1..N |-> g[idx[i]]]
<1>1. PICK N \in Nat : N = Cardinality(S)
  BY FS_CardinalityType
<1> DEFINE rank(n) == Cardinality({m \in S : m < n})
           idx == [i \in 1..N |-> CHOOSE n \in S : rank(n) = i - 1]
<1>2. ASSUME NEW i \in 1..N
      PROVE  idx[i] \in S /\ rank(idx[i]) = i - 1
  <2>1. \E n \in S : rank(n) = i - 1
    BY <1>1, Ranks
  <2>2. QED
    BY <2>1
<1>3. /\ InOrder(f, S) = [i \in 1..N |-> f[idx[i]]]
      /\ InOrder(g, S) = [i \in 1..N |-> g[idx[i]]]
  BY <1>1 DEF InOrder
<1>4. idx \in [1..N -> S]
  BY <1>2
<1> HIDE DEF idx
<1>5. \A n, k \in S : n < k => rank(n) < rank(k)
  BY Ranks
<1>6. \A n \in S : rank(n) \in 0..(N - 1)
  BY <1>1, Ranks
<1> HIDE DEF rank
<1>7. \A n, k \in S : rank(n) = rank(k) => n = k
  <2> TAKE n, k \in S
  <2>1. n < k \/ k < n \/ n = k
    OBVIOUS
  <2>2. QED
    BY <1>5, <1>6, <2>1
<1>8. ASSUME NEW i \in 1..N, NEW j \in 1..N, i < j
      PROVE  idx[i] < idx[j]
  <2>1. idx[i] \in S /\ idx[j] \in S /\ rank(idx[i]) = i - 1 /\ rank(idx[j]) = j - 1
    BY <1>2
  <2>2. idx[i] \in Int /\ idx[j] \in Int
    BY <2>1
  <2>3. idx[i] < idx[j] \/ idx[j] < idx[i] \/ idx[i] = idx[j]
    BY <2>2
  <2>4. ASSUME idx[j] < idx[i]
        PROVE  FALSE
    <3>1. rank(idx[j]) < rank(idx[i])
      BY <1>5, <2>1, <2>4
    <3>2. QED
      BY <1>8, <2>1, <3>1
  <2>5. idx[i] # idx[j]
    BY <1>8, <2>1
  <2>6. QED
    BY <2>3, <2>4, <2>5
<1>9. ASSUME NEW n \in S
      PROVE  \E i \in 1..N : idx[i] = n
  <2>1. rank(n) + 1 \in 1..N
    BY <1>6
  <2>2. rank(idx[rank(n) + 1]) = rank(n)
    BY <1>2, <1>6, <2>1
  <2>3. QED
    BY <1>2, <1>7, <2>1, <2>2
<1>10. Places(idx, S, N)
  BY <1>1, <1>2, <1>4, <1>8, <1>9 DEF rank, Places
<1>11. QED
  BY <1>3, <1>10

\* What InOrder makes of a function on a finite set of integers.
LEMMA InOrderIs ==
    ASSUME NEW S \in SUBSET Int, IsFiniteSet(S), NEW f
    PROVE  \E idx, N : Places(idx, S, N) /\ InOrder(f, S) = [i \in 1..N |-> f[idx[i]]]
BY InOrderBoth

\* All elements of a sequence in order are the sequence.
LEMMA InOrderAll ==
    ASSUME NEW n \in Nat, NEW f
    PROVE  InOrder(f, 1..n) = [i \in 1..n |-> f[i]]
<1>1. 1..n \in SUBSET Int /\ IsFiniteSet(1..n) /\ Cardinality(1..n) = n
  BY FS_Interval
<1> DEFINE S == 1..n
<1>2. PICK idx, N : Places(idx, S, N) /\ InOrder(f, S) = [i \in 1..N |-> f[idx[i]]]
  <2> HIDE DEF S
  <2>1. S \in SUBSET Int /\ IsFiniteSet(S)
    BY <1>1 DEF S
  <2>2. QED
    BY <2>1, InOrderIs
<1>3. /\ N = n /\ idx \in [1..n -> 1..n]
      /\ \A i \in 1..n : Cardinality({m \in 1..n : m < idx[i]}) = i - 1
  BY <1>1, <1>2 DEF Places
<1>4. ASSUME NEW i \in 1..n
      PROVE  idx[i] = i
  <2>1. PICK k \in 1..n : k = idx[i]
    BY <1>3
  <2>2. PICK last \in Int : last = k - 1
    OBVIOUS
  <2>3. {m \in 1..n : m < k} = 1..last
    BY <2>2
  <2>4. Cardinality(1..last) = k - 1
    BY <2>2, FS_Interval
  <2>5. k - 1 = i - 1
    BY <1>3, <2>1, <2>3, <2>4
  <2>6. QED
    BY <2>1, <2>5
<1>5. QED
  BY <1>2, <1>3, <1>4

-----------------------------------------------------------------------------
(* Whole numbers *)

\* A larger multiple is larger by a step at least.
LEMMA Multiples ==
    ASSUME NEW j \in Int, NEW k \in Int, NEW s \in Nat, j < k
    PROVE  j * s + s <= k * s
<1>1. PICK d \in Nat : k = j + 1 + d
  <2>1. k - j - 1 \in Nat /\ k = j + 1 + (k - j - 1)
    OBVIOUS
  <2>2. QED
    BY <2>1
<1>2. k * s = j * s + s + d * s
  BY <1>1
<1>3. d * s \in Nat /\ j * s \in Int
  BY <1>1
<1>4. QED
  BY <1>2, <1>3

\* Division leaves less than the divisor.
LEMMA Quotient ==
    ASSUME NEW a \in Int, NEW s \in Nat \ {0}
    PROVE  /\ a \div s \in Int
           /\ (a \div s) * s <= a
           /\ a < (a \div s) * s + s
OBVIOUS

\* A part x of a stretch z takes the same part of a difference y.
LEMMA Proportion ==
    ASSUME NEW x \in Nat, NEW z \in Nat \ {0}, x <= z, NEW y \in Int
    PROVE  LET q == (x * y) \div z
           IN  /\ q \in Int
               /\ y >= 0 => 0 <= q /\ q <= y
               /\ y <= 0 => y <= q /\ q <= 0
               /\ x = 0 => q = 0
               /\ x = z => q = y
<1> DEFINE q == (x * y) \div z
<1>1. x * y \in Int /\ z * y \in Int
  OBVIOUS
<1>2. q \in Int /\ q * z <= x * y /\ x * y < q * z + z
  BY <1>1, Quotient
<1> HIDE DEF q
<1>3. ASSUME NEW k \in Int, k * z <= x * y
      PROVE  k <= q
  <2>1. q < k => q * z + z <= k * z
    BY <1>2, Multiples
  <2>2. QED
    BY <1>1, <1>2, <1>3, <2>1
<1>4. ASSUME NEW k \in Int, x * y <= k * z
      PROVE  q <= k
  <2>1. k < q => k * z + z <= q * z
    BY <1>2, Multiples
  <2>2. k * z \in Int /\ q * z \in Int
    BY <1>2
  <2>3. QED
    BY <1>1, <1>2, <1>4, <2>1, <2>2
<1>5. ASSUME y >= 0
      PROVE  0 <= q /\ q <= y
  <2>1. 0 * z <= x * y
    BY <1>5
  <2>2. x * y <= y * z
    BY <1>5
  <2>3. QED
    BY <1>3, <1>4, <2>1, <2>2
<1>6. ASSUME y <= 0
      PROVE  y <= q /\ q <= 0
  <2>1. x * y <= 0 * z
    BY <1>6
  <2>2. y * z <= x * y
    BY <1>6
  <2>3. QED
    BY <1>3, <1>4, <2>1, <2>2
<1>7. ASSUME x = 0
      PROVE  q = 0
  <2>1. x * y = 0 * z
    BY <1>7
  <2>2. 0 <= q /\ q <= 0
    BY <1>1, <1>3, <1>4, <2>1
  <2>3. QED
    BY <1>2, <2>2
<1>8. ASSUME x = z
      PROVE  q = y
  <2>1. x * y = y * z
    BY <1>8
  <2>2. y <= q /\ q <= y
    BY <1>1, <1>3, <1>4, <2>1
  <2>3. QED
    BY <1>2, <2>2
<1>9. QED
  BY <1>2, <1>5, <1>6, <1>7, <1>8 DEF q

\* The value at d on the line from u at a to v at b.
Line(u, v, a, b, d) == u + ((d - a) * (v - u)) \div (b - a)

\* t lies between u and v, whichever is larger.
Within(t, u, v) == (u <= t /\ t <= v) \/ (v <= t /\ t <= u)

\* The value at d lies between u and v, and is u at a and v at b.
FollowsLine(u, v, a, b, d) ==
    /\ Line(u, v, a, b, d) \in Int
    /\ Within(Line(u, v, a, b, d), u, v)
    /\ d = a => Line(u, v, a, b, d) = u
    /\ d = b => Line(u, v, a, b, d) = v

\* A point d on the way from a to b has a value between theirs.
LEMMA OnTheLine ==
    ASSUME NEW a \in Int, NEW b \in Int, NEW u \in Int, NEW v \in Int, NEW d \in Int,
           a <= d, d <= b, a < b
    PROVE  FollowsLine(u, v, a, b, d)
<1>1. PICK x \in Nat : x = d - a
  OBVIOUS
<1>2. PICK z \in Nat \ {0} : z = b - a
  OBVIOUS
<1>3. PICK y \in Int : y = v - u
  OBVIOUS
<1>4. x <= z
  BY <1>1, <1>2
<1> DEFINE q == (x * y) \div z
<1>5. /\ q \in Int
      /\ y >= 0 => 0 <= q /\ q <= y
      /\ y <= 0 => y <= q /\ q <= 0
      /\ x = 0 => q = 0
      /\ x = z => q = y
  BY <1>4, Proportion
<1>6. Line(u, v, a, b, d) = u + q
  BY <1>1, <1>2, <1>3 DEF Line
<1> HIDE DEF q
<1>7. QED
  BY <1>1, <1>2, <1>3, <1>5, <1>6 DEF FollowsLine, Within

-----------------------------------------------------------------------------
(* Resample *)

\* ValidPoints lists the rows Resample uses, by seq number.
LEMMA ValidPointsAre ==
    ASSUME NEW p \in Profiles
    PROVE  \E idx, N : /\ Places(idx, ValidRows(p), N)
                       /\ ValidPoints(p) = [i \in 1..N |-> p[idx[i]]]
                       /\ ValidPoints(p) \in Seq(Point)
                       /\ Len(ValidPoints(p)) = N
<1>1. ValidRows(p) \in SUBSET Int /\ IsFiniteSet(ValidRows(p)) /\ ValidRows(p) \subseteq Seqs
  BY ProfileAssumption, FS_Subset DEF ValidRows, Rows
<1>2. \A s \in ValidRows(p) : p[s] \in Point
  BY DEF ValidRows, Rows, Profiles
<1>3. PICK idx, N : /\ Places(idx, ValidRows(p), N)
                    /\ ValidPoints(p) = [i \in 1..N |-> p[idx[i]]]
  BY <1>1, InOrderIs DEF ValidPoints
<1>4. N \in Nat /\ ValidPoints(p) \in [1..N -> Point]
  BY <1>2, <1>3 DEF Places
<1>5. ValidPoints(p) \in Seq(Point) /\ Len(ValidPoints(p)) = N
  BY <1>4, SeqDef, LenProperties
<1>6. QED
  BY <1>3, <1>5

\* The grid steps from the first point and never passes the last; it has two
\* depths when a step fits between them.
LEMMA GridDepthsAre ==
    ASSUME NEW pts \in Seq(Point), Len(pts) >= 2
    PROVE  \E n \in Nat :
              /\ GridDepths(pts) = [k \in 1..n |-> pts[1].cal + (k - 1) * GridStep]
              /\ \A k \in 1..n : /\ pts[1].cal <= pts[1].cal + (k - 1) * GridStep
                                 /\ pts[1].cal + (k - 1) * GridStep <= pts[Len(pts)].cal
              /\ n >= 2 <=> pts[1].cal + GridStep <= pts[Len(pts)].cal
<1> DEFINE a == pts[Len(pts)].cal - pts[1].cal
           m == a \div GridStep
<1>1. pts[1].cal \in Int /\ pts[Len(pts)].cal \in Int /\ a \in Int
  <2>1. pts[1] \in Point /\ pts[Len(pts)] \in Point
    OBVIOUS
  <2>2. QED
    BY <2>1 DEF Point
<1>2. GridStep \in Nat \ {0}
  BY ProfileAssumption
<1>3. m \in Int /\ m * GridStep <= a /\ a < m * GridStep + GridStep
  BY <1>1, <1>2, Quotient
<1>4. GridDepths(pts) = [k \in 1..(1 + m) |-> pts[1].cal + (k - 1) * GridStep]
  BY DEF GridDepths
<1>5. a = pts[Len(pts)].cal - pts[1].cal
  OBVIOUS
<1> HIDE DEF m, a
<1>6. PICK n \in Nat : 1..(1 + m) = 1..n /\ (n = 1 + m \/ (n = 0 /\ m < 0))
  <2>1. CASE m >= 0
    BY <1>3, <2>1
  <2>2. CASE m < 0
    <3>1. 1..(1 + m) = 1..0
      BY <1>3, <2>2
    <3>2. QED
      BY <2>2, <3>1
  <2>3. QED
    BY <1>3, <2>1, <2>2
<1>7. ASSUME NEW k \in 1..n
      PROVE  0 <= (k - 1) * GridStep /\ (k - 1) * GridStep <= a
  <2>1. k - 1 \in Nat /\ (k - 1 < m \/ k - 1 = m)
    BY <1>3, <1>6
  <2>2. (k - 1) * GridStep \in Nat
    BY <1>2, <2>1
  <2>3. (k - 1) * GridStep <= m * GridStep
    BY <1>2, <1>3, <2>1, <2>2, Multiples
  <2>4. m * GridStep \in Int
    BY <1>2, <1>3
  <2>5. QED
    BY <1>1, <1>3, <2>2, <2>3, <2>4
<1>8. n >= 2 <=> GridStep <= a
  <2>1. m >= 1 => GridStep <= m * GridStep
    <3>1. m >= 1 => 0 * GridStep + GridStep <= m * GridStep
      BY <1>2, <1>3, Multiples
    <3>2. QED
      BY <1>2, <3>1
  <2>2. m < 1 => m * GridStep + GridStep <= 1 * GridStep
    BY <1>2, <1>3, Multiples
  <2>3. m * GridStep \in Int /\ 1 * GridStep = GridStep
    BY <1>2, <1>3
  <2>4. QED
    BY <1>1, <1>2, <1>3, <1>6, <2>1, <2>2, <2>3
<1>9. ASSUME NEW k \in 1..n
       PROVE  /\ pts[1].cal <= pts[1].cal + (k - 1) * GridStep
              /\ pts[1].cal + (k - 1) * GridStep <= pts[Len(pts)].cal
  <2>1. (k - 1) * GridStep \in Int
    BY <1>2
  <2>2. QED
    BY <1>1, <1>5, <1>7, <2>1
<1>10. GridDepths(pts) = [k \in 1..n |-> pts[1].cal + (k - 1) * GridStep]
  BY <1>4, <1>6
<1>11. n >= 2 <=> pts[1].cal + GridStep <= pts[Len(pts)].cal
  BY <1>1, <1>2, <1>5, <1>8
<1>12. QED
  BY <1>9, <1>10, <1>11

\* pts[i] is the first reading from the second on that is not above d.
Beside(pts, d, i) ==
    /\ i \in 2..Len(pts)
    /\ d <= pts[i].cal
    /\ \A j \in 2..(i-1) : d > pts[j].cal

\* interp finds a reading at every depth down to the last one.
LEMMA BesideExists ==
    ASSUME NEW pts \in Seq(Point), Len(pts) >= 2, NEW d \in Int, d <= pts[Len(pts)].cal
    PROVE  \E i : Beside(pts, d, i)
<1> DEFINE T == {i \in 2..Len(pts) : d <= pts[i].cal}
<1>1. T \in SUBSET Nat /\ T # {}
  BY DEF T
<1>2. PICK i \in T : \A k \in T : i <= k
  BY <1>1, Least
<1>3. ASSUME NEW j \in 2..(i-1)
      PROVE  d > pts[j].cal
  <2>1. j \in 2..Len(pts) /\ ~(i <= j)
    BY <1>2
  <2>2. pts[j] \in Point
    BY <2>1
  <2>3. pts[j].cal \in Int
    BY <2>2 DEF Point
  <2>4. ~(d <= pts[j].cal)
    BY <1>2, <2>1
  <2>5. QED
    BY <2>3, <2>4
<1>4. QED
  BY <1>2, <1>3 DEF Beside

\* What interp reads between the first and the last reading: it is between the
\* two readings it stands between.
LEMMA InterpIs ==
    ASSUME NEW pts \in Seq(Point), Len(pts) >= 2, NEW d \in Int,
           pts[1].cal <= d, d <= pts[Len(pts)].cal
    PROVE  \E i \in 2..Len(pts) :
              LET a == pts[i-1]
                  b == pts[i]
                  t == interp(pts, d)
              IN  /\ Beside(pts, d, i)
                  /\ a \in Point /\ b \in Point /\ a.cal <= d /\ d <= b.cal
                  /\ t \in Int
                  /\ Within(t, a.temp, b.temp)
                  /\ d = b.cal => t = b.temp
                  /\ d = a.cal /\ a.cal < b.cal => t = a.temp
<1> DEFINE i == CHOOSE i \in 2..Len(pts) :
                    d <= pts[i].cal /\ \A j \in 2..(i-1) : d > pts[j].cal
           a == pts[i-1]
           b == pts[i]
           t == interp(pts, d)
<1>1. t = IF a.cal = b.cal THEN b.temp ELSE Line(a.temp, b.temp, a.cal, b.cal, d)
  BY DEF interp, Line
<1>2. Beside(pts, d, i)
  BY BesideExists DEF Beside
<1> HIDE DEF i
<1>3. i \in 2..Len(pts) /\ a \in Point /\ b \in Point
  BY <1>2 DEF Beside
<1>4. a.cal \in Int /\ b.cal \in Int /\ a.temp \in Int /\ b.temp \in Int
  BY <1>3 DEF Point
<1>5. d <= b.cal /\ a.cal <= d
  <2>1. CASE i = 2
    BY <1>2, <2>1 DEF Beside
  <2>2. CASE i # 2
    <3>1. i - 1 \in 2..(i-1)
      BY <1>3, <2>2
    <3>2. d > a.cal
      BY <1>2, <3>1 DEF Beside
    <3>3. QED
      BY <1>2, <1>4, <3>2 DEF Beside
  <2>3. QED
    BY <2>1, <2>2
<1> HIDE DEF t, a, b
<1>6. CASE a.cal = b.cal
  <2>1. t = b.temp
    BY <1>1, <1>6
  <2>2. /\ t \in Int
        /\ Within(t, a.temp, b.temp)
        /\ ~(a.cal < b.cal)
    BY <1>4, <1>6, <2>1 DEF Within
  <2>3. QED
    BY <1>2, <1>3, <1>5, <1>6, <2>1, <2>2 DEF a, b, t
<1>7. CASE a.cal # b.cal
  <2>1. /\ t \in Int
        /\ Within(t, a.temp, b.temp)
        /\ d = a.cal => t = a.temp
        /\ d = b.cal => t = b.temp
    <3>1. PICK m \in Int, n \in Int, u \in Int, v \in Int :
             m = a.cal /\ n = b.cal /\ u = a.temp /\ v = b.temp
      BY <1>4
    <3>2. m <= d /\ d <= n
      BY <1>5, <3>1
    <3>3. m # n
      BY <1>7, <3>1
    <3>4. m < n
      BY <3>2, <3>3
    <3>5. t = Line(u, v, m, n, d)
      BY <1>1, <1>7, <3>1
    <3>6. FollowsLine(u, v, m, n, d)
      BY <3>2, <3>4, OnTheLine
    <3>7. QED
      BY <3>1, <3>5, <3>6, Zenon DEF FollowsLine
  <2>2. QED
    BY <1>2, <1>3, <1>5, <2>1 DEF a, b, t
<1>8. QED
  BY <1>6, <1>7

\* A sample of the grid.
Sample == [depth : Int, temp : Int]

\* The samples of a profile: one at each depth of the grid, all of which lie
\* between the first and the last reading.
LEMMA ResampleIs ==
    ASSUME NEW p \in Profiles, NEW pts, pts = ValidPoints(p)
    PROVE  /\ pts \in Seq(Point)
           /\ Len(pts) < 2 => Resample(p) = <<>>
           /\ Len(pts) >= 2 =>
                 \E n \in Nat :
                    LET depth(k) == pts[1].cal + (k - 1) * GridStep
                    IN  /\ GridDepths(pts) = [k \in 1..n |-> depth(k)]
                        /\ Resample(p) = [k \in 1..n |-> [depth |-> depth(k),
                                                          temp  |-> interp(pts, depth(k))]]
                        /\ \A k \in 1..n :
                              /\ depth(k) \in Int
                              /\ pts[1].cal <= depth(k)
                              /\ depth(k) <= pts[Len(pts)].cal
                        /\ n >= 2 <=> pts[1].cal + GridStep <= pts[Len(pts)].cal
<1> DEFINE depth(k) == pts[1].cal + (k - 1) * GridStep
           depths == GridDepths(pts)
           sample == [k \in 1..Len(depths) |->
                         [depth |-> depths[k], temp |-> interp(pts, depths[k])]]
           inside == {k \in DOMAIN sample : /\ pts[1].cal <= sample[k].depth
                                            /\ sample[k].depth <= pts[Len(pts)].cal}
<1>1. pts \in Seq(Point)
  BY ValidPointsAre
<1>2. Resample(p) = InOrder(sample, inside)
  BY DEF Resample
<1>3. ASSUME Len(pts) < 2
      PROVE  Resample(p) = <<>>
  <2>1. depths = <<>>
    BY <1>3 DEF GridDepths
  <2>2. PICK none \in Nat : none = 0
    OBVIOUS
  <2>3. inside = 1..none
    BY <2>1, <2>2
  <2> HIDE DEF sample, inside
  <2>4. Resample(p) = [i \in 1..none |-> sample[i]]
    BY <1>2, <2>3, InOrderAll
  <2>5. QED
    BY <2>2, <2>4
<1>4. ASSUME Len(pts) >= 2
      PROVE  \E n \in Nat :
                /\ depths = [k \in 1..n |-> depth(k)]
                /\ Resample(p) = [k \in 1..n |-> [depth |-> depth(k),
                                                  temp  |-> interp(pts, depth(k))]]
                /\ \A k \in 1..n : /\ depth(k) \in Int
                                   /\ pts[1].cal <= depth(k)
                                   /\ depth(k) <= pts[Len(pts)].cal
                /\ n >= 2 <=> pts[1].cal + GridStep <= pts[Len(pts)].cal
  <2>1. PICK n \in Nat : /\ depths = [k \in 1..n |-> depth(k)]
                         /\ \A k \in 1..n : /\ pts[1].cal <= depth(k)
                                            /\ depth(k) <= pts[Len(pts)].cal
                         /\ n >= 2 <=> pts[1].cal + GridStep <= pts[Len(pts)].cal
    BY <1>1, <1>4, GridDepthsAre
  <2>2. \A k \in 1..n : depth(k) \in Int
    <3>1. pts[1] \in Point
      BY <1>1, <1>4
    <3>2. pts[1].cal \in Int /\ GridStep \in Nat
      BY <3>1, ProfileAssumption DEF Point
    <3>3. QED
      BY <3>2
  <2> HIDE DEF depths, depth
  <2>3. Len(depths) = n /\ \A k \in 1..n : depths[k] = depth(k)
    BY <2>1
  <2>4. sample = [k \in 1..n |-> [depth |-> depth(k), temp |-> interp(pts, depth(k))]]
    BY <2>3
  <2> HIDE DEF sample
  <2>5. inside = 1..n
    <3>1. DOMAIN sample = 1..n /\ \A k \in 1..n : sample[k].depth = depth(k)
      BY <2>4
    <3>2. QED
      BY <2>1, <3>1
  <2>6. Resample(p) = [k \in 1..n |-> sample[k]]
    BY <1>2, <2>5, InOrderAll
  <2>7. Resample(p) = [k \in 1..n |-> [depth |-> depth(k), temp |-> interp(pts, depth(k))]]
    BY <2>4, <2>6
  <2>8. QED
    BY <2>1, <2>2, <2>7
<1>5. QED
  BY <1>1, <1>3, <1>4 DEF depth, depths

\* Samples at increasing depths.
Grids == {g \in Seq(Sample) : \A j, k \in DOMAIN g : j < k => g[j].depth < g[k].depth}

\* Resample returns a grid.
LEMMA ResampleGrid ==
    ASSUME NEW p \in Profiles
    PROVE  Resample(p) \in Grids
<1> DEFINE pts == ValidPoints(p)
           depth(k) == pts[1].cal + (k - 1) * GridStep
<1>1. pts \in Seq(Point)
  BY ResampleIs
<1>2. CASE Len(pts) < 2
  <2>1. Resample(p) = <<>>
    BY <1>2, ResampleIs
  <2>2. <<>> \in Seq(Sample) /\ DOMAIN <<>> = {}
    OBVIOUS
  <2>3. QED
    BY <2>1, <2>2 DEF Grids
<1>3. CASE Len(pts) >= 2
  <2>1. PICK n \in Nat :
           /\ Resample(p) = [k \in 1..n |-> [depth |-> depth(k),
                                             temp  |-> interp(pts, depth(k))]]
           /\ \A k \in 1..n : /\ depth(k) \in Int
                              /\ pts[1].cal <= depth(k)
                              /\ depth(k) <= pts[Len(pts)].cal
    BY <1>3, ResampleIs
  <2>2. pts[1].cal \in Int /\ GridStep \in Nat \ {0}
    <3>1. pts[1] \in Point
      BY <1>1, <1>3
    <3>2. QED
      BY <3>1, ProfileAssumption DEF Point
  <2>3. ASSUME NEW j \in 1..n, NEW k \in 1..n, j < k
        PROVE  depth(j) < depth(k)
    <3>1. (j - 1) * GridStep + GridStep <= (k - 1) * GridStep
      BY <2>2, <2>3, Multiples
    <3>2. (j - 1) * GridStep \in Int /\ (k - 1) * GridStep \in Int
      BY <2>2
    <3>3. QED
      BY <2>2, <3>1, <3>2
  <2> HIDE DEF depth, pts
  <2>4. ASSUME NEW k \in 1..n
        PROVE  interp(pts, depth(k)) \in Int
    <3>1. PICK d \in Int : d = depth(k)
      BY <2>1
    <3>2. pts[1].cal <= d /\ d <= pts[Len(pts)].cal
      BY <2>1, <3>1
    <3>3. interp(pts, d) \in Int
      BY <1>1, <1>3, <3>2, InterpIs
    <3>4. QED
      BY <3>1, <3>3
  <2>5. Resample(p) \in [1..n -> Sample]
    BY <2>1, <2>4 DEF Sample
  <2>6. Resample(p) \in Seq(Sample)
    BY <2>5, SeqDef
  <2>7. DOMAIN Resample(p) = 1..n /\ \A k \in 1..n : Resample(p)[k].depth = depth(k)
    BY <2>1
  <2>8. QED
    BY <2>3, <2>6, <2>7 DEF Grids
<1>4. QED
  BY <1>1, <1>2, <1>3

\* A profile has two samples when the model of the runs says so.
LEMMA TwoSamples ==
    ASSUME NEW p \in Profiles
    PROVE  Len(Resample(p)) >= 2 <=> GridHasTwoSamples(p)
<1> DEFINE pts == ValidPoints(p)
           rows == ValidRows(p)
<1>1. PICK idx, N : /\ Places(idx, rows, N)
                    /\ pts = [i \in 1..N |-> p[idx[i]]]
                    /\ pts \in Seq(Point)
                    /\ Len(pts) = N
  BY ValidPointsAre
<1>2. rows \subseteq Int
  BY ProfileAssumption DEF ValidRows, Rows
<1>3. \A s \in rows : p[s].cal \in Int
  BY DEF ValidRows, Rows, Profiles, Point
<1>4. GridStep \in Nat \ {0}
  BY ProfileAssumption
<1>5. GridHasTwoSamples(p) <=>
        \E a, b \in rows : /\ \A s \in rows : a <= s /\ s <= b
                           /\ p[a].cal + GridStep <= p[b].cal
  BY DEF GridHasTwoSamples
<1>6. pts = ValidPoints(p)
  OBVIOUS
<1> HIDE DEF rows, pts
<1>7. CASE N < 2
  <2>1. Resample(p) = <<>>
    BY <1>1, <1>6, <1>7, ResampleIs
  <2>2. ASSUME NEW a \in rows, NEW b \in rows
        PROVE  a = b
    <3>1. PICK i \in 1..N, j \in 1..N : idx[i] = a /\ idx[j] = b
      BY <1>1 DEF Places
    <3>2. i = j
      BY <1>1, <1>7 DEF Places
    <3>3. QED
      BY <3>1, <3>2
  <2>3. ~GridHasTwoSamples(p)
    BY <1>3, <1>4, <1>5, <2>2
  <2>4. QED
    BY <2>1, <2>3
<1>8. CASE N >= 2
  <2>1. PICK n \in Nat : /\ Len(Resample(p)) = n
                         /\ n >= 2 <=> pts[1].cal + GridStep <= pts[Len(pts)].cal
    <3> DEFINE depth(k) == pts[1].cal + (k - 1) * GridStep
               sample(k) == [depth |-> depth(k), temp |-> interp(pts, depth(k))]
    <3>1. PICK n \in Nat : /\ Resample(p) = [k \in 1..n |-> sample(k)]
                           /\ n >= 2 <=> pts[1].cal + GridStep <= pts[Len(pts)].cal
      BY <1>1, <1>6, <1>8, ResampleIs
    <3> HIDE DEF sample
    <3>2. Len(Resample(p)) = n
      BY <3>1
    <3>3. QED
      BY <3>1, <3>2
  <2>2. /\ N \in Nat /\ idx \in [1..N -> rows]
        /\ \A i, j \in 1..N : i < j => idx[i] < idx[j]
        /\ \A s \in rows : \E i \in 1..N : idx[i] = s
    BY <1>1 DEF Places
  <2>3. 1 \in 1..N /\ N \in 1..N
    BY <1>8, <2>2
  <2> DEFINE a == idx[1]
             b == idx[N]
  <2>4. a \in rows /\ b \in rows
    BY <2>2, <2>3
  <2>5. ASSUME NEW s \in rows
        PROVE  a <= s /\ s <= b
    <3>1. PICK i \in 1..N : idx[i] = s
      BY <2>2
    <3>2. idx[1] \in Int /\ idx[N] \in Int /\ s \in Int
      BY <1>2, <2>2, <2>3
    <3>3. idx[1] = s \/ idx[1] < s
      <4>1. i = 1 \/ 1 < i
        OBVIOUS
      <4>2. QED
        BY <2>2, <2>3, <3>1, <4>1
    <3>4. idx[N] = s \/ s < idx[N]
      <4>1. i = N \/ i < N
        BY <2>2
      <4>2. QED
        BY <2>2, <2>3, <3>1, <4>1
    <3>5. QED
      BY <3>2, <3>3, <3>4
  <2>6. pts[1] = p[a] /\ pts[Len(pts)] = p[b]
    BY <1>1, <2>3
  <2> HIDE DEF a, b
  <2>7. ASSUME NEW c \in rows, NEW d \in rows, \A s \in rows : c <= s /\ s <= d
        PROVE  c = a /\ d = b
    <3>1. c \in Int /\ d \in Int /\ a \in Int /\ b \in Int
      BY <1>2, <2>4
    <3>2. c <= a /\ a <= c /\ d <= b /\ b <= d
      BY <2>4, <2>5, <2>7
    <3>3. QED
      BY <3>1, <3>2
  <2>8. GridHasTwoSamples(p) <=> p[a].cal + GridStep <= p[b].cal
    BY <1>5, <2>4, <2>5, <2>7
  <2>9. QED
    BY <2>1, <2>6, <2>8
<1>9. QED
  BY <1>1, <1>7, <1>8 DEF Places

-----------------------------------------------------------------------------
(* Merge *)

\* The boundaries kept when the next depth is d.
Joined(kept, d) == IF d - Last(kept) >= MinSegThick THEN Append(kept, d) ELSE kept

\* f gives what is kept of the first n depths, for n up to m.
MergedUpTo(depths, f, m) ==
    f = [n \in 1..m |-> IF n = 1 THEN <<depths[1]>> ELSE Joined(f[n-1], depths[n])]

\* The function Merge is defined by exists for every list.
LEMMA MergedExist ==
    ASSUME NEW depths, NEW m \in Nat
    PROVE  \E f : MergedUpTo(depths, f, m)
<1> DEFINE T == {n \in Nat : \E f : MergedUpTo(depths, f, n)}
<1>1. 0 \in T
  <2> DEFINE f == [n \in 1..0 |-> <<>>]
  <2>1. MergedUpTo(depths, f, 0)
    BY DEF MergedUpTo
  <2>2. QED
    BY <2>1
<1>2. ASSUME NEW n \in Nat, n \in T
      PROVE  n + 1 \in T
  <2>1. PICK f : MergedUpTo(depths, f, n)
    BY <1>2
  <2> DEFINE next == IF n + 1 = 1 THEN <<depths[1]>> ELSE Joined(f[n], depths[n+1])
             g == [k \in 1..(n + 1) |-> IF k = n + 1 THEN next ELSE f[k]]
  <2>2. ASSUME NEW k \in 1..(n + 1)
        PROVE  g[k] = IF k = 1 THEN <<depths[1]>> ELSE Joined(g[k-1], depths[k])
    <3>1. CASE k = n + 1
      <4>1. k # 1 => g[k-1] = f[n]
        BY <3>1
      <4>2. g[k] = next
        BY <3>1
      <4>3. QED
        BY <3>1, <4>1, <4>2
    <3>2. CASE k # n + 1
      <4>1. k \in 1..n /\ g[k] = f[k] /\ (k # 1 => g[k-1] = f[k-1])
        BY <3>2
      <4>2. f[k] = IF k = 1 THEN <<depths[1]>> ELSE Joined(f[k-1], depths[k])
        BY <2>1, <4>1 DEF MergedUpTo
      <4>3. QED
        BY <4>1, <4>2
    <3>3. QED
      BY <3>1, <3>2
  <2>3. g = [k \in 1..(n + 1) |-> g[k]]
    OBVIOUS
  <2> HIDE DEF g
  <2>4. MergedUpTo(depths, g, n + 1)
    BY <2>2, <2>3 DEF MergedUpTo
  <2>5. QED
    BY <2>4
<1>3. Nat \subseteq T
  BY <1>1, <1>2, Counting
<1>4. QED
  BY <1>3

\* Merge is its last value.
LEMMA MergeIs ==
    ASSUME NEW depths \in Seq(Int)
    PROVE  \E f : /\ MergedUpTo(depths, f, Len(depths))
                  /\ Merge(depths) = f[Len(depths)]
<1> DEFINE f == CHOOSE g : MergedUpTo(depths, g, Len(depths))
<1>1. MergedUpTo(depths, f, Len(depths))
  <2>1. Len(depths) \in Nat
    OBVIOUS
  <2>2. QED
    BY <2>1, MergedExist
<1>2. f = CHOOSE g : g = [n \in 1..Len(depths) |->
                             IF n = 1 THEN <<depths[1]>> ELSE Joined(g[n-1], depths[n])]
  BY DEF MergedUpTo
<1>3. Merge(depths) = f[Len(depths)]
  BY <1>2, Zenon DEF Merge, Joined
<1>4. QED
  BY <1>1, <1>3

\* What holds of the first depth, and of what is kept of n + 1 depths when it
\* holds of what is kept of n, holds of all.
LEMMA MergeByInduction ==
    ASSUME NEW depths \in Seq(Int), Len(depths) >= 1, NEW holds,
           <<depths[1]>> \in holds[1],
           \A n \in 1..(Len(depths) - 1) : \A kept \in holds[n] :
               Joined(kept, depths[n+1]) \in holds[n+1]
    PROVE  Merge(depths) \in holds[Len(depths)]
<1>1. PICK f : /\ MergedUpTo(depths, f, Len(depths))
               /\ Merge(depths) = f[Len(depths)]
  BY MergeIs
<1>2. PICK N \in Nat : N = Len(depths) /\ N >= 1
  OBVIOUS
<1>3. \A n \in 1..N :
         f[n] = IF n = 1 THEN <<depths[1]>> ELSE Joined(f[n-1], depths[n])
  BY <1>1, <1>2 DEF MergedUpTo
<1> DEFINE T == {n \in Nat : n + 1 <= N => f[n+1] \in holds[n+1]}
<1>4. 0 \in T
  BY <1>2, <1>3
<1>5. ASSUME NEW n \in Nat, n \in T
      PROVE  n + 1 \in T
  <2> SUFFICES ASSUME n + 2 <= N
               PROVE  f[n+2] \in holds[n+2]
    OBVIOUS
  <2>1. f[n+1] \in holds[n+1] /\ n + 1 \in 1..(N - 1) /\ n + 2 \in 1..N
    BY <1>2, <1>5
  <2>2. f[n+2] = Joined(f[n+1], depths[n+2])
    <3>1. (n + 2) - 1 = n + 1 /\ n + 2 # 1
      OBVIOUS
    <3>2. QED
      BY <1>3, <2>1, <3>1
  <2>3. (n + 1) + 1 = n + 2
    OBVIOUS
  <2>4. QED
    BY <1>2, <2>1, <2>2, <2>3
<1>6. Nat \subseteq T
  BY <1>4, <1>5, Counting
<1>7. N - 1 \in T /\ (N - 1) + 1 = N
  <2>1. N - 1 \in Nat
    BY <1>2
  <2> HIDE DEF T
  <2>2. N - 1 \in T
    BY <1>6, <2>1
  <2>3. QED
    BY <1>2, <2>2
<1>8. QED
  BY <1>1, <1>2, <1>7

\* What Merge keeps of n depths: the first one, then depths MinSegThick or more
\* apart, such that every depth is kept or less than MinSegThick below one.
Kept(depths, kept, n) ==
    /\ kept \in Seq(Int)
    /\ Len(kept) >= 1
    /\ kept[1] = depths[1]
    /\ \A i \in 1..Len(kept) : \E j \in 1..n : kept[i] = depths[j]
    /\ \A i \in 2..Len(kept) : kept[i] - kept[i-1] >= MinSegThick
    /\ \A j \in 1..n : \E i \in 1..Len(kept) :
          /\ kept[i] <= depths[j]
          /\ kept[i] = depths[j] \/ depths[j] - kept[i] < MinSegThick

\* Merge keeps that much of a list that does not decrease.
LEMMA MergeKeeps ==
    ASSUME NEW depths \in Seq(Int), Len(depths) >= 1,
           \A i, j \in 1..Len(depths) : i <= j => depths[i] <= depths[j]
    PROVE  Kept(depths, Merge(depths), Len(depths))
<1>1. PICK N \in Nat : N = Len(depths)
  OBVIOUS
<1> DEFINE holds == [n \in 1..N |-> {kept \in Seq(Int) : Kept(depths, kept, n)}]
<1>2. \A n \in 1..N : depths[n] \in Int
  BY <1>1
<1>3. MinSegThick \in Nat \ {0}
  BY LayeringAssumption
<1>4. <<depths[1]>> \in holds[1]
  <2>1. PICK kept \in Seq(Int) : kept = <<depths[1]>>
    <3>1. PICK first \in Int : first = depths[1]
      BY <1>1, <1>2
    <3>2. <<first>> \in Seq(Int)
      OBVIOUS
    <3>3. QED
      BY <3>1, <3>2
  <2>2. Len(kept) = 1 /\ kept[1] = depths[1]
    BY <2>1
  <2>3. Kept(depths, kept, 1)
    BY <1>1, <1>2, <1>3, <2>2 DEF Kept
  <2>4. 1 \in 1..N
    BY <1>1
  <2>5. QED
    BY <2>1, <2>3, <2>4
<1>5. ASSUME NEW n \in 1..(N - 1), NEW kept \in holds[n]
      PROVE  Joined(kept, depths[n+1]) \in holds[n+1]
  <2> DEFINE d == depths[n+1]
             last == Last(kept)
  <2>1. n \in 1..N /\ n + 1 \in 1..N
    BY <1>1
  <2>2. kept \in Seq(Int) /\ Kept(depths, kept, n)
    BY <1>5, <2>1
  <2>3. PICK m \in Nat : m = Len(kept) /\ m >= 1
    BY <2>2 DEF Kept
  <2>4. last = kept[m] /\ last \in Int /\ d \in Int
    BY <1>2, <2>1, <2>2, <2>3 DEF Last
  <2>5. last <= d
    <3>1. PICK j \in 1..n : last = depths[j]
      BY <2>2, <2>3, <2>4 DEF Kept
    <3>2. j \in 1..Len(depths) /\ n + 1 \in 1..Len(depths) /\ j <= n + 1
      BY <1>1, <2>1
    <3>3. QED
      BY <3>1, <3>2
  <2> HIDE DEF d, last
  <2>6. CASE d - last >= MinSegThick
    <3>1. PICK new \in Seq(Int) : new = Append(kept, d)
      <4>1. Append(kept, d) \in Seq(Int)
        BY <2>2, <2>4, AppendProperties
      <4>2. QED
        BY <4>1
    <3>2. /\ Len(new) = m + 1 /\ new[m+1] = d
          /\ \A i \in 1..m : new[i] = kept[i]
      BY <2>2, <2>3, <2>4, <3>1
    <3>3. new[1] = depths[1]
      BY <2>2, <2>3, <3>2 DEF Kept
    <3>4. ASSUME NEW i \in 1..(m + 1)
          PROVE  \E j \in 1..(n + 1) : new[i] = depths[j]
      <4>1. CASE i = m + 1
        <5>1. n + 1 \in 1..(n + 1) /\ new[i] = depths[n+1]
          BY <3>2, <4>1 DEF d
        <5>2. QED
          BY <5>1
      <4>2. CASE i # m + 1
        <5>1. i \in 1..m
          BY <4>2
        <5>2. PICK j \in 1..n : kept[i] = depths[j]
          BY <2>2, <2>3, <5>1 DEF Kept
        <5>3. j \in 1..(n + 1) /\ new[i] = kept[i]
          BY <3>2, <5>1
        <5>4. QED
          BY <5>2, <5>3
      <4>3. QED
        BY <4>1, <4>2
    <3>5. ASSUME NEW i \in 2..(m + 1)
          PROVE  new[i] - new[i-1] >= MinSegThick
      <4>1. CASE i = m + 1
        <5>1. new[i-1] = last
          BY <2>3, <2>4, <3>2, <4>1
        <5>2. QED
          BY <2>6, <3>2, <4>1, <5>1
      <4>2. CASE i # m + 1
        <5>1. i \in 2..m /\ i \in 1..m /\ i - 1 \in 1..m
          BY <4>2
        <5>2. QED
          BY <2>2, <2>3, <3>2, <5>1 DEF Kept
      <4>3. QED
        BY <4>1, <4>2
    <3>6. ASSUME NEW j \in 1..(n + 1)
          PROVE  \E i \in 1..(m + 1) :
                    /\ new[i] <= depths[j]
                    /\ new[i] = depths[j] \/ depths[j] - new[i] < MinSegThick
      <4>1. CASE j = n + 1
        <5>1. m + 1 \in 1..(m + 1) /\ new[m+1] = depths[j]
          BY <3>2, <4>1 DEF d
        <5>2. QED
          BY <2>1, <1>2, <4>1, <5>1
      <4>2. CASE j # n + 1
        <5>1. j \in 1..n
          BY <4>2
        <5>2. PICK i \in 1..m : /\ kept[i] <= depths[j]
                                /\ kept[i] = depths[j] \/ depths[j] - kept[i] < MinSegThick
          BY <2>2, <2>3, <5>1 DEF Kept
        <5>3. i \in 1..(m + 1) /\ new[i] = kept[i]
          BY <3>2
        <5>4. QED
          BY <5>2, <5>3
      <4>3. QED
        BY <4>1, <4>2
    <3>7. Kept(depths, new, n + 1)
      BY <2>3, <3>2, <3>3, <3>4, <3>5, <3>6 DEF Kept
    <3>8. Joined(kept, d) = new
      BY <2>6, <3>1 DEF Joined, last
    <3>9. QED
      BY <2>1, <3>7, <3>8 DEF d
  <2>7. CASE ~(d - last >= MinSegThick)
    <3>1. ASSUME NEW j \in 1..(n + 1)
          PROVE  \E i \in 1..m :
                    /\ kept[i] <= depths[j]
                    /\ kept[i] = depths[j] \/ depths[j] - kept[i] < MinSegThick
      <4>1. CASE j = n + 1
        <5>1. m \in 1..m /\ kept[m] <= depths[j] /\ depths[j] - kept[m] < MinSegThick
          BY <1>3, <2>3, <2>4, <2>5, <2>7, <4>1 DEF d
        <5>2. QED
          BY <5>1
      <4>2. CASE j # n + 1
        <5>1. j \in 1..n
          BY <4>2
        <5>2. QED
          BY <2>2, <2>3, <5>1 DEF Kept
      <4>3. QED
        BY <4>1, <4>2
    <3>2. \A i \in 1..m : \E j \in 1..(n + 1) : kept[i] = depths[j]
      BY <2>2, <2>3 DEF Kept
    <3>3. Kept(depths, kept, n + 1)
      BY <2>2, <2>3, <3>1, <3>2 DEF Kept
    <3>4. Joined(kept, d) = kept
      BY <2>7 DEF Joined, last
    <3>5. QED
      BY <2>1, <2>2, <3>3, <3>4 DEF d
  <2>8. QED
    BY <2>6, <2>7
<1> HIDE DEF holds
<1>6. Merge(depths) \in holds[N]
  BY <1>1, <1>4, <1>5, MergeByInduction
<1>7. QED
  BY <1>1, <1>6 DEF holds

-----------------------------------------------------------------------------
(* Boundaries *)

\* The samples of a grid are typed and in order.
LEMMA GridTyped ==
    ASSUME NEW g \in Grids
    PROVE  /\ Len(g) \in Nat /\ DOMAIN g = 1..Len(g)
           /\ \A k \in 1..Len(g) : g[k].depth \in Int /\ g[k].temp \in Int
           /\ \A j, k \in 1..Len(g) : j < k => g[j].depth < g[k].depth
           /\ \A j, k \in 1..Len(g) : j <= k => g[j].depth <= g[k].depth
<1>1. Len(g) \in Nat /\ DOMAIN g = 1..Len(g) /\ \A k \in 1..Len(g) : g[k] \in Sample
  BY DEF Grids
<1>2. \A k \in 1..Len(g) : g[k].depth \in Int /\ g[k].temp \in Int
  BY <1>1 DEF Sample
<1>3. \A j, k \in 1..Len(g) : j < k => g[j].depth < g[k].depth
  BY <1>1 DEF Grids
<1>4. ASSUME NEW j \in 1..Len(g), NEW k \in 1..Len(g), j <= k
      PROVE  g[j].depth <= g[k].depth
  <2>1. j = k \/ j < k
    BY <1>1, <1>4
  <2>2. QED
    BY <1>2, <1>3, <2>1
<1>5. QED
  BY <1>1, <1>2, <1>3, <1>4

\* A sequence with one element more.
LEMMA OneMore ==
    ASSUME NEW s \in Seq(Int), NEW x \in Int, NEW n \in Nat, Len(s) = n + 1
    PROVE  LET t == s \o <<x>>
           IN  /\ t \in Seq(Int) /\ Len(t) = n + 2 /\ t[n+2] = x
               /\ \A i \in 1..(n + 1) : t[i] = s[i]
<1>1. PICK tail : tail = <<x>>
  OBVIOUS
<1>2. tail \in Seq(Int) /\ Len(tail) = 1 /\ tail[1] = x
  BY <1>1
<1>3. PICK t : t = s \o tail
  OBVIOUS
<1>4. /\ t \in Seq(Int) /\ Len(t) = Len(s) + Len(tail)
      /\ \A i \in 1..(Len(s) + Len(tail)) :
            t[i] = IF i <= Len(s) THEN s[i] ELSE tail[i - Len(s)]
  BY <1>2, <1>3, ConcatProperties
<1>5. Len(t) = n + 2 /\ (n + 2) - (n + 1) = 1 /\ n + 2 \in 1..(n + 2)
  BY <1>2, <1>4
<1>6. \A i \in 1..(n + 1) : t[i] = s[i]
  BY <1>2, <1>4
<1>7. t[n+2] = tail[1]
  BY <1>2, <1>4, <1>5
<1>8. QED
  BY <1>1, <1>2, <1>3, <1>4, <1>5, <1>6, <1>7

\* The marks of a grid are the depths of its first sample, of its candidates
\* and of its last sample, in this order.
LEMMA MarksAre ==
    ASSUME NEW g \in Grids, Len(g) >= 2
    PROVE  \E n \in Nat : \E place \in [1..n -> 1..Len(g)] :
              /\ n >= 2 /\ place[1] = 1 /\ place[n] = Len(g)
              /\ Marks(g) = [i \in 1..n |-> g[place[i]].depth]
              /\ \A i, j \in 1..n : i <= j => place[i] <= place[j]
              /\ \A k \in Candidates(g) : \E i \in 1..n : place[i] = k
<1> DEFINE depths == [k \in DOMAIN g |-> g[k].depth]
           jumps  == InOrder(depths, Candidates(g))
<1>1. PICK size \in Nat : size = Len(g) /\ size >= 2
  BY GridTyped
<1>2. DOMAIN g = 1..size /\ \A k \in 1..size : g[k].depth \in Int
  BY <1>1, GridTyped
<1>3. Candidates(g) \subseteq 1..size /\ \A k \in Candidates(g) : k > 1
  BY <1>1 DEF Candidates
<1>4. IsFiniteSet(Candidates(g)) /\ Candidates(g) \in SUBSET Int
  <2>1. IsFiniteSet(1..size) /\ 1..size \subseteq Int
    BY FS_Interval
  <2>2. QED
    BY <1>3, <2>1, FS_Subset
<1>5. PICK idx, N : /\ Places(idx, Candidates(g), N)
                    /\ jumps = [i \in 1..N |-> depths[idx[i]]]
  BY <1>4, InOrderIs
<1>6. /\ N \in Nat /\ idx \in [1..N -> Candidates(g)]
      /\ \A i, j \in 1..N : i < j => idx[i] < idx[j]
      /\ \A k \in Candidates(g) : \E i \in 1..N : idx[i] = k
  BY <1>5 DEF Places
<1>7. \A i \in 1..N : idx[i] \in 1..size /\ idx[i] > 1
  BY <1>3, <1>6
<1>8. \A k \in 1..size : depths[k] = g[k].depth
  BY <1>2
<1>9. depths \in Seq(Int) /\ Len(depths) = size
  BY <1>1, <1>2
<1>10. Marks(g) = (<<depths[1]>> \o jumps) \o <<depths[size]>>
  BY <1>9 DEF Marks, Last
<1> HIDE DEF depths, jumps
<1>11. jumps \in Seq(Int) /\ Len(jumps) = N
  <2>1. jumps \in [1..N -> Int]
    BY <1>2, <1>5, <1>7, <1>8
  <2>2. QED
    BY <1>6, <2>1, SeqDef
<1> DEFINE n == N + 2
           place == [i \in 1..n |-> IF i = 1 THEN 1
                                    ELSE IF i = n THEN size ELSE idx[i-1]]
<1>12. place \in [1..n -> 1..size]
  BY <1>1, <1>6, <1>7
<1>13. place[1] = 1 /\ place[n] = size /\ \A i \in 1..N : place[i+1] = idx[i]
  BY <1>6
<1>14. Marks(g) = [i \in 1..n |-> depths[place[i]]]
  <2>1. PICK first \in Int, last \in Int : first = depths[1] /\ last = depths[size]
    BY <1>1, <1>2, <1>8
  <2>2. PICK head : head = <<first>> \o jumps
    OBVIOUS
  <2>3. /\ head \in Seq(Int) /\ Len(head) = N + 1 /\ head[1] = first
        /\ \A i \in 1..N : head[i+1] = jumps[i]
    BY <1>11, <2>2
  <2>4. PICK all : all = head \o <<last>>
    OBVIOUS
  <2>5. /\ all \in Seq(Int) /\ Len(all) = N + 2 /\ all[N+2] = last
        /\ \A i \in 1..(N + 1) : all[i] = head[i]
    BY <1>6, <2>1, <2>3, <2>4, OneMore
  <2>6. ASSUME NEW i \in 1..n
        PROVE  all[i] = depths[place[i]]
    <3>1. CASE i = 1
      <4>1. 1 \in 1..(N + 1)
        BY <1>6
      <4>2. all[1] = first /\ place[1] = 1
        BY <1>13, <2>3, <2>5, <4>1
      <4>3. QED
        BY <2>1, <3>1, <4>2
    <3>2. CASE i = n
      BY <1>13, <2>1, <2>5, <3>2
    <3>3. CASE i # 1 /\ i # n
      <4>1. i - 1 \in 1..N /\ (i - 1) + 1 = i /\ i \in 1..(N + 1)
        BY <1>6, <3>3
      <4>2. all[i] = jumps[i-1] /\ place[i] = idx[i-1]
        BY <1>13, <2>3, <2>5, <4>1
      <4>3. QED
        BY <1>5, <4>1, <4>2
    <3>4. QED
      BY <3>1, <3>2, <3>3
  <2> HIDE DEF place
  <2>7. all = [i \in 1..n |-> depths[place[i]]]
    BY <2>5, <2>6
  <2>8. QED
    BY <1>10, <2>1, <2>2, <2>4, <2>7
<1>15. ASSUME NEW i \in 1..n, NEW j \in 1..n, i <= j
       PROVE  place[i] <= place[j]
  <2>1. CASE i = 1 \/ j = n \/ i = j
    BY <1>1, <1>12, <1>13, <1>15, <2>1
  <2>2. CASE i # 1 /\ j # n /\ i # j
    <3>1. i - 1 \in 1..N /\ j - 1 \in 1..N /\ i - 1 < j - 1
      BY <1>6, <1>15, <2>2
    <3>2. place[i] = idx[i-1] /\ place[j] = idx[j-1]
      BY <1>15, <2>2
    <3>3. idx[i-1] < idx[j-1] /\ idx[i-1] \in Int /\ idx[j-1] \in Int
      BY <1>6, <1>7, <3>1
    <3>4. QED
      BY <3>2, <3>3
  <2>3. QED
    BY <2>1, <2>2
<1>16. ASSUME NEW k \in Candidates(g)
       PROVE  \E i \in 1..n : place[i] = k
  <2>1. PICK i \in 1..N : idx[i] = k
    BY <1>6
  <2>2. i + 1 \in 1..n /\ place[i+1] = k
    BY <1>6, <1>13, <2>1
  <2>3. QED
    BY <2>2
<1>17. n \in Nat /\ n >= 2
  BY <1>6
<1> HIDE DEF n, place
<1>18. Marks(g) = [i \in 1..n |-> g[place[i]].depth]
  BY <1>8, <1>12, <1>14
<1>19. QED
  BY <1>1, <1>12, <1>13, <1>15, <1>16, <1>17, <1>18

\* The boundaries of a grid tile it, and only the last segment may be thin; a
\* jump has its boundary at it or closely above.
LEMMA BoundariesAre ==
    ASSUME NEW g \in Grids, Len(g) >= 2
    PROVE  LET b == Boundaries(g)
           IN  /\ b \in Seq(Int) /\ Len(b) >= 2
               /\ b[1] = g[1].depth /\ b[Len(b)] = g[Len(g)].depth
               /\ \A i \in 1..Len(b) : \E k \in 1..Len(g) : b[i] = g[k].depth
               /\ \A i \in 2..(Len(b) - 1) : b[i] - b[i-1] >= MinSegThick
               /\ \A i \in 2..Len(b) : b[i-1] < b[i]
               /\ \A k \in Candidates(g) : \E i \in 1..Len(b) :
                     /\ b[i] <= g[k].depth
                     /\ b[i] = g[k].depth \/ g[k].depth - b[i] < MinSegThick
<1>1. PICK size \in Nat : size = Len(g) /\ size >= 2
  BY GridTyped
<1>2. PICK n \in Nat : \E place \in [1..n -> 1..Len(g)] :
              /\ n >= 2 /\ place[1] = 1 /\ place[n] = Len(g)
              /\ Marks(g) = [i \in 1..n |-> g[place[i]].depth]
              /\ \A i, j \in 1..n : i <= j => place[i] <= place[j]
              /\ \A k \in Candidates(g) : \E i \in 1..n : place[i] = k
  BY MarksAre
<1>3. PICK place \in [1..n -> 1..size] :
              /\ n >= 2 /\ place[1] = 1 /\ place[n] = size
              /\ Marks(g) = [i \in 1..n |-> g[place[i]].depth]
              /\ \A i, j \in 1..n : i <= j => place[i] <= place[j]
              /\ \A k \in Candidates(g) : \E i \in 1..n : place[i] = k
  BY <1>1, <1>2
<1>4. PICK marks : marks = Marks(g)
  OBVIOUS
<1>5. /\ \A k \in 1..size : g[k].depth \in Int
      /\ \A j, k \in 1..size : j <= k => g[j].depth <= g[k].depth
      /\ \A j, k \in 1..size : j < k => g[j].depth < g[k].depth
  BY <1>1, GridTyped
<1>6. marks \in Seq(Int) /\ Len(marks) = n
  <2>1. marks \in [1..n -> Int]
    BY <1>3, <1>4, <1>5
  <2>2. QED
    BY <2>1, SeqDef
<1>7. \A i \in 1..n : marks[i] = g[place[i]].depth
  BY <1>3, <1>4
<1>8. \A i, j \in 1..n : i <= j => marks[i] <= marks[j]
  <2>1. SUFFICES ASSUME NEW i \in 1..n, NEW j \in 1..n, i <= j
                 PROVE  marks[i] <= marks[j]
    OBVIOUS
  <2>2. place[i] \in 1..size /\ place[j] \in 1..size /\ place[i] <= place[j]
    BY <1>3, <2>1
  <2>3. QED
    BY <1>5, <1>7, <2>2
<1>9. PICK kept : kept = Merge(marks)
  OBVIOUS
<1>10. Kept(marks, kept, n)
  <2>1. Len(marks) >= 1
    BY <1>3, <1>6
  <2>2. \A i, j \in 1..Len(marks) : i <= j => marks[i] <= marks[j]
    BY <1>6, <1>8
  <2>3. Kept(marks, Merge(marks), Len(marks))
    BY <1>6, <2>1, <2>2, MergeKeeps
  <2>4. QED
    BY <1>6, <1>9, <2>3
<1>11. PICK m \in Nat : m = Len(kept) /\ m >= 1
  BY <1>10 DEF Kept
<1>12. kept \in Seq(Int) /\ kept[1] = marks[1] /\ \A i \in 1..m : kept[i] \in Int
  BY <1>10, <1>11 DEF Kept
<1> DEFINE bottom == g[size].depth
           top == g[1].depth
<1>13. top < bottom /\ top \in Int /\ bottom \in Int /\ marks[1] = top
  BY <1>1, <1>3, <1>5, <1>7
<1>14. ASSUME NEW i \in 1..m
       PROVE  \E k \in 1..size : kept[i] = g[k].depth
  <2>1. PICK j \in 1..n : kept[i] = marks[j]
    BY <1>10, <1>11 DEF Kept
  <2>2. place[j] \in 1..size
    BY <1>3
  <2>3. QED
    BY <1>7, <2>1, <2>2
<1>15. ASSUME NEW i \in 1..m
       PROVE  kept[i] <= bottom
  <2>1. PICK k \in 1..size : kept[i] = g[k].depth
    BY <1>14
  <2>2. k <= size /\ size \in 1..size
    BY <1>1
  <2>3. QED
    BY <1>5, <2>1, <2>2
<1>16. Last(kept) = kept[m] /\ Last(g).depth = bottom
  BY <1>1, <1>11 DEF Last
<1>17. Boundaries(g) = IF kept[m] = bottom THEN kept ELSE Append(kept, bottom)
  BY <1>4, <1>9, <1>16 DEF Boundaries
<1> HIDE DEF bottom, top
<1>18. MinSegThick \in Nat \ {0}
  BY LayeringAssumption
<1>19. \A i \in 2..m : kept[i] - kept[i-1] >= MinSegThick
  BY <1>10, <1>11 DEF Kept
<1>20. ASSUME NEW i \in 2..m
       PROVE  kept[i-1] < kept[i]
  <2>1. kept[i] \in Int /\ kept[i-1] \in Int
    BY <1>12
  <2>2. QED
    BY <1>18, <1>19, <2>1
<1>21. ASSUME NEW k \in Candidates(g)
       PROVE  \E i \in 1..m :
                 /\ kept[i] <= g[k].depth
                 /\ kept[i] = g[k].depth \/ g[k].depth - kept[i] < MinSegThick
  <2>1. PICK j \in 1..n : marks[j] = g[k].depth
    BY <1>3, <1>7
  <2>2. QED
    BY <1>10, <1>11, <2>1 DEF Kept
<1>22. CASE kept[m] = bottom
  <2>1. m >= 2
    BY <1>11, <1>12, <1>13, <1>22
  <2>2. Boundaries(g) = kept
    BY <1>17, <1>22
  <2>3. \A i \in 2..(m - 1) : kept[i] - kept[i-1] >= MinSegThick
    BY <1>19
  <2>4. QED
    BY <1>1, <1>11, <1>12, <1>13, <1>14, <1>20, <1>21, <1>22, <2>1, <2>2, <2>3
       DEF bottom, top
<1>23. CASE kept[m] # bottom
  <2>1. PICK b : b = Append(kept, bottom)
    OBVIOUS
  <2>2. /\ b \in Seq(Int) /\ Len(b) = m + 1 /\ b[m+1] = bottom
        /\ \A i \in 1..m : b[i] = kept[i]
    BY <1>11, <1>12, <1>13, <2>1
  <2>3. Boundaries(g) = b
    BY <1>17, <1>23, <2>1
  <2>4. b[1] = top
    BY <1>11, <1>12, <1>13, <2>2
  <2>5. ASSUME NEW i \in 1..(m + 1)
        PROVE  \E k \in 1..size : b[i] = g[k].depth
    <3>1. CASE i = m + 1
      BY <1>1, <2>2, <3>1 DEF bottom
    <3>2. CASE i # m + 1
      <4>1. i \in 1..m
        BY <3>2
      <4>2. QED
        BY <1>14, <2>2, <4>1
    <3>3. QED
      BY <3>1, <3>2
  <2>6. ASSUME NEW i \in 2..m
        PROVE  b[i] - b[i-1] >= MinSegThick
    <3>1. i \in 1..m /\ i - 1 \in 1..m
      OBVIOUS
    <3>2. QED
      BY <1>19, <2>2, <3>1
  <2>7. ASSUME NEW i \in 2..(m + 1)
        PROVE  b[i-1] < b[i]
    <3>1. CASE i = m + 1
      <4>1. b[i-1] = kept[m] /\ b[i] = bottom
        BY <1>11, <2>2, <3>1
      <4>2. kept[m] <= bottom /\ kept[m] \in Int
        BY <1>11, <1>12, <1>15
      <4>3. QED
        BY <1>13, <1>23, <4>1, <4>2
    <3>2. CASE i # m + 1
      <4>1. i \in 2..m /\ i \in 1..m /\ i - 1 \in 1..m
        BY <3>2
      <4>2. QED
        BY <1>20, <2>2, <4>1
    <3>3. QED
      BY <3>1, <3>2
  <2>8. ASSUME NEW k \in Candidates(g)
        PROVE  \E i \in 1..(m + 1) :
                  /\ b[i] <= g[k].depth
                  /\ b[i] = g[k].depth \/ g[k].depth - b[i] < MinSegThick
    <3>1. PICK i \in 1..m :
                 /\ kept[i] <= g[k].depth
                 /\ kept[i] = g[k].depth \/ g[k].depth - kept[i] < MinSegThick
      BY <1>21
    <3>2. i \in 1..(m + 1) /\ b[i] = kept[i]
      BY <2>2
    <3>3. QED
      BY <3>1, <3>2
  <2>9. m + 1 >= 2 /\ (m + 1) - 1 = m
    BY <1>11
  <2>10. QED
    BY <1>1, <2>2, <2>3, <2>4, <2>5, <2>6, <2>7, <2>8, <2>9 DEF bottom, top
<1>24. QED
  BY <1>22, <1>23

-----------------------------------------------------------------------------
(* Segments *)

\* A gradient is an integer.
LEMMA GradientsTyped ==
    ASSUME NEW g \in Grids
    PROVE  /\ \A i \in 2..Len(g) : Gradient(g, i) \in Int
           /\ \A d \in Int : gradAt(g, d) \in Int
<1>1. ASSUME NEW i \in 2..Len(g)
      PROVE  Gradient(g, i) \in Int
  <2>1. i \in 1..Len(g) /\ i - 1 \in 1..Len(g)
    BY GridTyped
  <2>2. g[i].temp \in Int /\ g[i-1].temp \in Int
    BY <2>1, GridTyped
  <2>3. QED
    BY <2>2 DEF Gradient
<1>2. ASSUME NEW d \in Int
      PROVE  gradAt(g, d) \in Int
  <2>1. CASE \E i \in 2..Len(g) : g[i].depth = d
    <3>1. PICK k : k = CHOOSE i \in 2..Len(g) : g[i].depth = d
      OBVIOUS
    <3>2. k \in 2..Len(g)
      BY <2>1, <3>1
    <3>3. gradAt(g, d) = Gradient(g, k)
      BY <2>1, <3>1, Zenon DEF gradAt
    <3>4. QED
      BY <1>1, <3>2, <3>3
  <2>2. CASE ~ \E i \in 2..Len(g) : g[i].depth = d
    BY <2>2 DEF gradAt
  <2>3. QED
    BY <2>1, <2>2
<1>3. QED
  BY <1>1, <1>2

\* found holds the n intervals between the boundaries b.
Intervals(found, b, n) ==
    /\ DOMAIN found = 1..n
    /\ \A i \in 1..n : /\ found[i].top = b[i]
                       /\ found[i].bottom = b[i+1]

\* Detect makes a segment of each interval between boundaries, whose jump is a
\* natural number, zero for the first.
LEMMA DetectIs ==
    ASSUME NEW g \in Grids, Len(g) >= 2
    PROVE  LET b == Boundaries(g)
               found == Detect(g)
           IN  /\ Len(b) - 1 \in Nat \ {0}
               /\ Intervals(found, b, Len(b) - 1)
               /\ found \in [1..(Len(b) - 1) -> [top : Int, bottom : Int, jump : Nat]]
               /\ found[1].jump = 0
<1>1. PICK b : b = Boundaries(g)
  OBVIOUS
<1>2. b \in Seq(Int) /\ Len(b) >= 2
  BY <1>1, BoundariesAre
<1>3. PICK n \in Nat : n = Len(b) - 1 /\ n >= 1
  <2>1. Len(b) \in Nat
    BY <1>2, LenProperties
  <2>2. QED
    BY <1>2, <2>1
<1>4. \A i \in 1..n : b[i] \in Int /\ b[i+1] \in Int
  BY <1>2, <1>3
<1> DEFINE jump(i) == IF i = 1 THEN 0
                      ELSE Abs(gradAt(g, b[i]) - gradAt(g, b[i-1]))
<1>5. Detect(g) = [i \in 1..n |-> [top |-> b[i], bottom |-> b[i+1], jump |-> jump(i)]]
  BY <1>1, <1>3, GridTyped DEF Detect
<1>6. ASSUME NEW i \in 1..n
      PROVE  jump(i) \in Nat
  <2>1. CASE i = 1
    BY <2>1
  <2>2. CASE i # 1
    <3>1. i - 1 \in 1..n
      BY <2>2
    <3>2. gradAt(g, b[i]) \in Int /\ gradAt(g, b[i-1]) \in Int
      BY <1>4, <3>1, GradientsTyped
    <3>3. QED
      BY <2>2, <3>2 DEF Abs
  <2>3. QED
    BY <2>1, <2>2
<1>7. jump(1) = 0 /\ 1 \in 1..n
  BY <1>3
<1> HIDE DEF jump
<1>8. QED
  BY <1>1, <1>3, <1>4, <1>5, <1>6, <1>7 DEF Intervals

\* ToModel keeps the intervals; the states are those of Classify.
LEMMA ToModelIs ==
    ASSUME NEW g \in Grids
    PROVE  /\ Len(g) < 2 => ToModel(g) = <<>>
           /\ Len(g) >= 2 =>
                 LET n == Len(Boundaries(g)) - 1
                     found == Detect(g)
                 IN  /\ ToModel(g) = [i \in 1..n |-> [top    |-> found[i].top,
                                                      bottom |-> found[i].bottom,
                                                      state  |-> Classify(found)[i]]]
                     /\ Intervals(ToModel(g), Boundaries(g), n)
                     /\ ToModel(g) # <<>>
                     /\ Len(ToModel(g)) = n
                     /\ ToModel(g)[1].state = "stable"
<1>1. ASSUME Len(g) < 2
      PROVE  ToModel(g) = <<>>
  <2>1. Detect(g) = <<>>
    BY <1>1 DEF Detect
  <2>2. QED
    BY <2>1 DEF ToModel
<1>2. ASSUME Len(g) >= 2, NEW n, n = Len(Boundaries(g)) - 1, NEW found, found = Detect(g)
      PROVE  /\ ToModel(g) = [i \in 1..n |-> [top    |-> found[i].top,
                                              bottom |-> found[i].bottom,
                                              state  |-> Classify(found)[i]]]
             /\ Intervals(ToModel(g), Boundaries(g), n)
             /\ ToModel(g) # <<>>
             /\ Len(ToModel(g)) = n
             /\ ToModel(g)[1].state = "stable"
  <2>1. n \in Nat \ {0} /\ DOMAIN found = 1..n
    BY <1>2, DetectIs DEF Intervals
  <2>2. ToModel(g) = [i \in 1..n |-> [top    |-> found[i].top,
                                      bottom |-> found[i].bottom,
                                      state  |-> Classify(found)[i]]]
    BY <1>2, <2>1, Zenon DEF ToModel
  <2>3. Intervals(found, Boundaries(g), n)
    BY <1>2, DetectIs
  <2>4. Intervals(ToModel(g), Boundaries(g), n)
    BY <2>2, <2>3 DEF Intervals
  <2>5. 1 \in 1..n /\ found[1].jump = 0
    BY <1>2, <2>1, DetectIs
  <2>6. Classify(found)[1] = "stable"
    BY <2>1, <2>5 DEF Classify
  <2>7. ToModel(g) # <<>> /\ Len(ToModel(g)) = n
    BY <2>1, <2>2
  <2>8. ToModel(g)[1].state = "stable"
    BY <2>2, <2>5, <2>6
  <2>9. QED
    BY <2>2, <2>4, <2>7, <2>8
<1>3. QED
  BY <1>1, <1>2

-----------------------------------------------------------------------------
(* The passes over a growing profile *)

\* The segments are those of the samples of the profile.
LayerInv ==
    /\ profile \in Profiles
    /\ grid = Resample(profile)
    /\ segs = ToModel(grid)

\* The grid and the segments follow from the profile, after every step.
LEMMA LayerInvariant == Spec => []LayerInv
<1>1. Init => LayerInv
  <2> SUFFICES ASSUME Init PROVE LayerInv
    OBVIOUS
  <2>1. profile = EmptyProfile /\ profile \in Profiles /\ grid = <<>> /\ segs = <<>>
    BY DEF Init, EmptyProfile, Profiles
  <2>2. Resample(profile) = <<>>
    <3>1. ValidRows(profile) = {}
      BY <2>1 DEF ValidRows, Rows, EmptyProfile
    <3>2. PICK idx, N : Places(idx, ValidRows(profile), N) /\ Len(ValidPoints(profile)) = N
      BY <2>1, ValidPointsAre
    <3>3. N = 0
      BY <3>1, <3>2, FS_EmptySet DEF Places
    <3>4. QED
      BY <2>1, <3>2, <3>3, ResampleIs
  <2>3. ToModel(<<>>) = <<>>
    BY DEF ToModel, Detect
  <2>4. QED
    BY <2>1, <2>2, <2>3 DEF LayerInv
<1>2. LayerInv /\ [Next]_vars => LayerInv'
  <2> SUFFICES ASSUME LayerInv, [Next]_vars PROVE LayerInv'
    OBVIOUS
  <2>1. CASE GrowProfile
    <3>1. NewRows \subseteq Point
      <4>1. MissingRow \in Point
        BY DEF MissingRow, Point, PointStates
      <4>2. \A d \in Depths, t \in Temps : Reading(d, t) \in Point
        BY InputsAssumption DEF Reading, Point, PointStates
      <4>3. QED
        BY <4>1, <4>2 DEF NewRows
    <3>2. PICK s \in Seqs, row \in Point : profile' = [profile EXCEPT ![s] = row]
      BY <2>1, <3>1 DEF GrowProfile
    <3>3. profile' \in Profiles
      BY <3>2 DEF LayerInv, Profiles
    <3>4. QED
      BY <2>1, <3>3 DEF GrowProfile, LayerInv
  <2>2. CASE GrowBaseline \/ GrowTarget \/ UNCHANGED vars
    BY <2>2 DEF GrowBaseline, GrowTarget, vars, LayerInv
  <2>3. QED
    BY <2>1, <2>2 DEF Next
<1>3. QED
  BY <1>1, <1>2, PTL DEF Spec

\* The samples are at increasing depths, and there are two exactly when there
\* are segments.
LEMMA LayeredGrid ==
    ASSUME LayerInv
    PROVE  /\ grid \in Grids
           /\ segs # <<>> <=> Len(grid) >= 2
<1>1. grid \in Grids
  BY ResampleGrid DEF LayerInv
<1>2. Len(grid) \in Nat
  BY <1>1, GridTyped
<1>3. QED
  BY <1>1, <1>2, ToModelIs DEF LayerInv

\* What the segments of two samples or more are.
LEMMA LayeredSegments ==
    ASSUME LayerInv, Len(grid) >= 2
    PROVE  \E n \in Nat, b \in Seq(Int) :
              /\ n >= 1 /\ Len(b) = n + 1 /\ b = Boundaries(grid)
              /\ Intervals(segs, b, n)
              /\ Len(segs) = n /\ DOMAIN segs = 1..n
              /\ segs[1].state = "stable"
<1>1. PICK b : b = Boundaries(grid)
  OBVIOUS
<1>2. b \in Seq(Int) /\ Len(b) >= 2
  BY <1>1, LayeredGrid, BoundariesAre
<1>3. PICK n \in Nat : n = Len(b) - 1 /\ n >= 1 /\ Len(b) = n + 1
  <2>1. Len(b) \in Nat
    BY <1>2, LenProperties
  <2>2. QED
    BY <1>2, <2>1
<1>4. /\ Intervals(segs, b, n)
      /\ Len(segs) = n /\ segs[1].state = "stable"
  BY <1>1, <1>3, LayeredGrid, ToModelIs DEF LayerInv
<1>5. QED
  BY <1>1, <1>2, <1>3, <1>4 DEF Intervals

\* The segments of any profile cover its grid without a hole or an overlap.
THEOREM SegmentsAlwaysTile == Spec => []SegmentsTile
<1>1. LayerInv => SegmentsTile
  <2> SUFFICES ASSUME LayerInv, segs # <<>> PROVE SegmentsTile
    BY DEF SegmentsTile
  <2>1. Len(grid) >= 2 /\ grid \in Grids
    BY LayeredGrid
  <2>2. PICK n \in Nat, b \in Seq(Int) :
              /\ n >= 1 /\ Len(b) = n + 1 /\ b = Boundaries(grid)
              /\ Intervals(segs, b, n)
              /\ Len(segs) = n /\ DOMAIN segs = 1..n
    BY <2>1, LayeredSegments
  <2>3. /\ b[1] = grid[1].depth /\ b[n+1] = grid[Len(grid)].depth
        /\ \A i \in 2..(n + 1) : b[i-1] < b[i]
    BY <2>1, <2>2, BoundariesAre
  <2>4. \A i \in 1..n : segs[i].top = b[i] /\ segs[i].bottom = b[i+1]
    BY <2>2 DEF Intervals
  <2>5. ASSUME NEW i \in 1..n
        PROVE  b[i] < b[i+1]
    <3>1. i + 1 \in 2..(n + 1) /\ (i + 1) - 1 = i
      BY <2>2
    <3>2. QED
      BY <2>3, <3>1
  <2>6. ASSUME NEW i \in 2..n
        PROVE  segs[i].top = segs[i-1].bottom
    <3>1. i \in 1..n /\ i - 1 \in 1..n /\ (i - 1) + 1 = i
      BY <2>2
    <3>2. QED
      BY <2>4, <3>1
  <2>7. segs[1].top = grid[1].depth /\ segs[n].bottom = grid[Len(grid)].depth
    BY <2>2, <2>3, <2>4
  <2>8. QED
    BY <2>2, <2>4, <2>5, <2>6, <2>7 DEF SegmentsTile
<1>2. QED
  BY <1>1, LayerInvariant, PTL

\* However close the boundaries, no segment but the last is thinner than
\* MinSegThick.
THEOREM OnlyTheLastIsThin == Spec => []OnlyLastThin
<1>1. LayerInv => OnlyLastThin
  <2> SUFFICES ASSUME LayerInv, NEW i \in 1..(Len(segs) - 1)
               PROVE  segs[i].bottom - segs[i].top >= MinSegThick
    BY DEF OnlyLastThin
  <2>1. segs # <<>>
    OBVIOUS
  <2>2. Len(grid) >= 2 /\ grid \in Grids
    BY <2>1, LayeredGrid
  <2>3. PICK n \in Nat, b \in Seq(Int) :
              /\ n >= 1 /\ Len(b) = n + 1 /\ b = Boundaries(grid)
              /\ Intervals(segs, b, n)
              /\ Len(segs) = n
    BY <2>2, LayeredSegments
  <2>4. i \in 1..n /\ i + 1 \in 2..((n + 1) - 1) /\ (i + 1) - 1 = i
    BY <2>3
  <2>5. b[i+1] - b[i] >= MinSegThick
    BY <2>2, <2>3, <2>4, BoundariesAre
  <2>6. QED
    BY <2>3, <2>4, <2>5 DEF Intervals
<1>2. QED
  BY <1>1, LayerInvariant, PTL

\* Whatever was merged away, a jump of the gradient has a boundary at it or
\* less than MinSegThick above.
THEOREM JumpsAreCovered == Spec => []JumpsCovered
<1>1. LayerInv => JumpsCovered
  <2> SUFFICES ASSUME LayerInv, NEW k \in 3..Len(grid), Jump(grid, k) > JumpThreshold
               PROVE  \E i \in DOMAIN segs : \E d \in {segs[i].top, segs[i].bottom} :
                         /\ d <= grid[k].depth
                         /\ grid[k].depth - d < MinSegThick \/ d = grid[k].depth
    BY DEF JumpsCovered
  <2>1. Len(grid) >= 2 /\ grid \in Grids
    <3>1. grid \in Grids
      BY LayeredGrid
    <3>2. QED
      BY <3>1, GridTyped
  <2>2. PICK n \in Nat, b \in Seq(Int) :
              /\ n >= 1 /\ Len(b) = n + 1 /\ b = Boundaries(grid)
              /\ Intervals(segs, b, n)
              /\ DOMAIN segs = 1..n
    BY <2>1, LayeredSegments
  <2>3. k \in Candidates(grid)
    <3>1. Gradient(grid, k) \in Int /\ Gradient(grid, k-1) \in Int
      BY <2>1, GradientsTyped
    <3>2. PICK u \in Int, v \in Int : u = Gradient(grid, k) /\ v = Gradient(grid, k-1)
      BY <3>1
    <3>3. Jump(grid, k) = Abs(u - v)
      BY <3>2 DEF Jump
    <3>4. PICK c \in Int : c = u - v
      OBVIOUS
    <3>5. Abs(c) \in Int /\ JumpThreshold \in Int
      BY LayeringAssumption DEF Abs
    <3>6. Jump(grid, k) >= JumpThreshold
      BY <3>3, <3>4, <3>5
    <3>7. QED
      BY <3>6 DEF Candidates
  <2>4. PICK j \in 1..(n + 1) :
               /\ b[j] <= grid[k].depth
               /\ b[j] = grid[k].depth \/ grid[k].depth - b[j] < MinSegThick
    BY <2>1, <2>2, <2>3, BoundariesAre
  <2>5. PICK i \in 1..n : b[j] = segs[i].top \/ b[j] = segs[i].bottom
    <3>1. CASE j = n + 1
      <4>1. n \in 1..n /\ b[j] = segs[n].bottom
        BY <2>2, <3>1 DEF Intervals
      <4>2. QED
        BY <4>1
    <3>2. CASE j # n + 1
      <4>1. j \in 1..n
        BY <2>2, <3>2
      <4>2. b[j] = segs[j].top
        BY <2>2, <4>1 DEF Intervals
      <4>3. QED
        BY <4>1, <4>2
    <3>3. QED
      BY <3>1, <3>2
  <2>6. QED
    BY <2>2, <2>4, <2>5
<1>2. QED
  BY <1>1, LayerInvariant, PTL

\* What RunService assumes of a layering pass holds of every profile.
THEOREM LayeringIsAsAssumed == Spec => []LayeringAsAssumed
<1>1. LayerInv => LayeringAsAssumed
  <2> SUFFICES ASSUME LayerInv PROVE LayeringAsAssumed
    OBVIOUS
  <2>1. segs # <<>> <=> GridHasTwoSamples(profile)
    BY LayeredGrid, TwoSamples DEF LayerInv
  <2>2. CASE segs = <<>>
    BY <2>1, <2>2 DEF LayeringAsAssumed
  <2>3. CASE segs # <<>>
    <3>1. Len(grid) >= 2 /\ grid \in Grids
      BY <2>3, LayeredGrid
    <3>2. PICK n \in Nat, b \in Seq(Int) :
              /\ n >= 1 /\ Len(b) = n + 1 /\ b = Boundaries(grid)
              /\ Intervals(segs, b, n)
              /\ Len(segs) = n
              /\ segs[1].state = "stable"
      BY <3>1, LayeredSegments
    <3>3. \A i \in 2..(n + 1) : b[i-1] < b[i]
      BY <3>1, <3>2, BoundariesAre
    <3>4. ASSUME NEW i \in 2..n
          PROVE  segs[i-1].top < segs[i].top
      <4>1. i \in 1..n /\ i - 1 \in 1..n /\ i \in 2..(n + 1)
        BY <3>2
      <4>2. QED
        BY <3>2, <3>3, <4>1 DEF Intervals
    <3>5. QED
      BY <2>1, <3>2, <3>4 DEF LayeringAsAssumed
  <2>4. QED
    BY <2>2, <2>3
<1>2. QED
  BY <1>1, LayerInvariant, PTL

-----------------------------------------------------------------------------
(* Classify *)

\* Those of the first n elements of a function that do not exceed v.
UpTo(xs, n, v) == {i \in 1..n : xs[i] <= v}

\* Those below v.
Under(xs, n, v) == {i \in 1..n : xs[i] < v}

\* Counting the elements of a part of 1..n.
LEMMA Parts ==
    ASSUME NEW n \in Nat, NEW A \in SUBSET (1..n), NEW B \in SUBSET A
    PROVE  /\ IsFiniteSet(A) /\ Cardinality(A) \in Nat
           /\ Cardinality(A) <= n
           /\ Cardinality(B) <= Cardinality(A)
           /\ Cardinality(A \ B) = Cardinality(A) - Cardinality(B)
<1>1. PICK one \in Int : one = 1
  OBVIOUS
<1>2. IsFiniteSet(1..n) /\ Cardinality(1..n) = n
  <2>1. IsFiniteSet(one..n) /\ Cardinality(one..n) = IF one > n THEN 0 ELSE n - one + 1
    BY FS_Interval
  <2>2. QED
    BY <1>1, <2>1
<1>3. IsFiniteSet(A) /\ Cardinality(A) \in Nat /\ Cardinality(A) <= n
  BY <1>2, FS_Subset, FS_CardinalityType
<1>4. Cardinality(B) <= Cardinality(A)
  BY <1>3, FS_Subset
<1>5. Cardinality(A \ B) = Cardinality(A) - Cardinality(B)
  <2>1. IsFiniteSet(B) /\ A \cap B = B
    BY <1>3, FS_Subset
  <2>2. Cardinality(A \ B) = Cardinality(A) - Cardinality(A \cap B)
    BY <1>3, FS_Difference
  <2>3. QED
    BY <2>1, <2>2
<1>6. QED
  BY <1>3, <1>4, <1>5

\* A finite list of numbers has a bound.
LEMMA Bounded ==
    ASSUME NEW n \in Nat, NEW xs \in [1..n -> Nat]
    PROVE  \E v \in Nat : \A i \in 1..n : xs[i] <= v
<1> DEFINE T == {m \in Nat : m <= n => \E v \in Nat : \A i \in 1..m : xs[i] <= v}
<1>1. 0 \in T
  OBVIOUS
<1>2. ASSUME NEW m \in Nat, m \in T, m + 1 <= n
      PROVE  \E v \in Nat : \A i \in 1..(m + 1) : xs[i] <= v
  <2>1. PICK v \in Nat : \A i \in 1..m : xs[i] <= v
    BY <1>2
  <2>2. m + 1 \in 1..n /\ xs[m+1] \in Nat
    BY <1>2
  <2>3. PICK w \in Nat : v <= w /\ xs[m+1] <= w
    <3>1. v + xs[m+1] \in Nat /\ v <= v + xs[m+1] /\ xs[m+1] <= v + xs[m+1]
      BY <2>2
    <3>2. QED
      BY <3>1
  <2>4. ASSUME NEW i \in 1..(m + 1)
        PROVE  xs[i] <= w
    <3>1. CASE i = m + 1
      BY <2>3, <3>1
    <3>2. CASE i # m + 1
      <4>1. i \in 1..m /\ i \in 1..n
        BY <1>2, <3>2
      <4>2. xs[i] \in Nat /\ xs[i] <= v
        BY <2>1, <4>1
      <4>3. QED
        BY <2>3, <4>2
    <3>3. QED
      BY <3>1, <3>2
  <2>5. QED
    BY <2>4
<1>3. ASSUME NEW m \in Nat, m \in T
      PROVE  m + 1 \in T
  <2>1. m + 1 \in Nat
    OBVIOUS
  <2>2. QED
    BY <1>2, <1>3, <2>1, Zenon
<1> HIDE DEF T
<1>4. n \in T
  BY <1>1, <1>3, Counting
<1>5. QED
  BY <1>4 DEF T

\* A list of n numbers has a k-th smallest for each k up to n.
LEMMA SmallestExists ==
    ASSUME NEW n \in Nat, NEW xs \in [1..n -> Nat], NEW k \in 1..n
    PROVE  /\ Smallest(xs, k) \in Nat
           /\ Cardinality(Under(xs, n, Smallest(xs, k))) < k
           /\ k <= Cardinality(UpTo(xs, n, Smallest(xs, k)))
<1> DEFINE T == {v \in Nat : k <= Cardinality(UpTo(xs, n, v))}
<1>1. \A i \in 1..n : xs[i] \in Nat
  OBVIOUS
<1>2. T # {}
  <2>1. PICK v \in Nat : \A i \in 1..n : xs[i] <= v
    BY Bounded
  <2>2. UpTo(xs, n, v) = 1..n
    BY <2>1 DEF UpTo
  <2>3. Cardinality(1..n) = n
    <3>1. PICK one \in Int : one = 1
      OBVIOUS
    <3>2. Cardinality(one..n) = IF one > n THEN 0 ELSE n - one + 1
      BY FS_Interval
    <3>3. QED
      BY <3>1, <3>2
  <2>4. QED
    BY <2>1, <2>2, <2>3
<1>3. PICK v \in T : \A w \in T : v <= w
  <2> HIDE DEF T
  <2>1. T \in SUBSET Nat
    BY DEF T
  <2>2. QED
    BY <1>2, <2>1, Least
<1>4. Cardinality(Under(xs, n, v)) < k
  <2>1. Under(xs, n, v) \subseteq 1..n /\ Cardinality(Under(xs, n, v)) \in Nat
    BY Parts DEF Under
  <2>2. CASE v = 0
    <3>1. Under(xs, n, v) = {}
      BY <1>1, <2>2 DEF Under
    <3>2. QED
      BY <3>1, FS_EmptySet
  <2>3. CASE v # 0
    <3>1. v - 1 \in Nat /\ ~ v <= v - 1
      BY <2>3
    <3>2. ~ k <= Cardinality(UpTo(xs, n, v - 1))
      BY <1>3, <3>1
    <3>3. \A i \in 1..n : xs[i] <= v - 1 <=> xs[i] < v
      BY <1>1
    <3>4. UpTo(xs, n, v - 1) = Under(xs, n, v)
      BY <3>3 DEF UpTo, Under
    <3>5. QED
      BY <2>1, <3>2, <3>4
  <2>4. QED
    BY <2>2, <2>3
<1>5. \E i \in 1..n : xs[i] = v
  <2> SUFFICES ASSUME \A i \in 1..n : xs[i] # v PROVE FALSE
    OBVIOUS
  <2>1. \A i \in 1..n : xs[i] <= v <=> xs[i] < v
    BY <1>1
  <2>2. UpTo(xs, n, v) = Under(xs, n, v)
    BY <2>1 DEF UpTo, Under
  <2>3. Cardinality(Under(xs, n, v)) \in Nat
    BY Parts DEF Under
  <2>4. QED
    BY <1>3, <1>4, <2>2, <2>3
<1>6. k <= Cardinality(UpTo(xs, n, v))
  BY <1>3
<1>7. PICK x : x = Smallest(xs, k)
  OBVIOUS
<1>8. /\ x \in Range(xs)
      /\ Cardinality(Under(xs, n, x)) < k
      /\ k <= Cardinality(UpTo(xs, n, x))
  <2>1. DOMAIN xs = 1..n /\ v \in Range(xs)
    BY <1>5 DEF Range
  <2>2. x = CHOOSE y \in Range(xs) : /\ Cardinality(Under(xs, n, y)) < k
                                     /\ k <= Cardinality(UpTo(xs, n, y))
    BY <1>7, <2>1, Zenon DEF Smallest, Under, UpTo
  <2>3. QED
    BY <1>4, <1>6, <2>1, <2>2
<1>9. x \in Nat
  BY <1>8 DEF Range
<1>10. QED
  BY <1>7, <1>8, <1>9

\* Half of a list of numbers is at most half of any number above its median: at
\* most half of them are larger than 1.5 times the median.
LEMMA FewAboveMedian ==
    ASSUME NEW n \in Nat \ {0}, NEW xs \in [1..n -> Nat]
    PROVE  2 * Cardinality({i \in 1..n : 4 * xs[i] > 3 * TwiceMedian(xs) /\ xs[i] > 0}) <= n
<1> DEFINE m == n \div 2
<1>1. /\ m \in Nat /\ n % 2 \in {0, 1} /\ n = 2 * m + (n % 2)
  OBVIOUS
<1>2. Len(xs) = n /\ \A i \in 1..n : xs[i] \in Nat
  OBVIOUS
<1>3. PICK v \in Nat, k \in 1..n :
             /\ k <= Cardinality(UpTo(xs, n, v))
             /\ 2 * v <= TwiceMedian(xs) /\ TwiceMedian(xs) \in Nat
             /\ n <= 2 * k
  <2>1. CASE n % 2 = 1
    <3>1. m + 1 \in 1..n /\ n <= 2 * (m + 1)
      BY <1>1, <2>1
    <3>2. TwiceMedian(xs) = 2 * Smallest(xs, m + 1)
      BY <1>2, <2>1 DEF TwiceMedian
    <3>3. PICK k \in 1..n : k = m + 1
      BY <3>1
    <3>4. /\ Smallest(xs, k) \in Nat
          /\ k <= Cardinality(UpTo(xs, n, Smallest(xs, k)))
      BY SmallestExists
    <3>5. QED
      BY <3>1, <3>2, <3>3, <3>4
  <2>2. CASE n % 2 = 0
    <3>1. m \in 1..n /\ m + 1 \in 1..n /\ n <= 2 * m
      BY <1>1, <2>2
    <3>2. TwiceMedian(xs) = Smallest(xs, m) + Smallest(xs, m + 1)
      BY <1>2, <2>2 DEF TwiceMedian
    <3>3. PICK k \in 1..n, l \in 1..n : k = m /\ l = m + 1
      BY <3>1
    <3>4. PICK u, v : u = Smallest(xs, k) /\ v = Smallest(xs, l)
      OBVIOUS
    <3>5. /\ u \in Nat /\ v \in Nat
          /\ Cardinality(Under(xs, n, u)) < k
          /\ k <= Cardinality(UpTo(xs, n, u))
          /\ l <= Cardinality(UpTo(xs, n, v))
      BY <3>4, SmallestExists
    <3>6. u <= v
      <4> SUFFICES ASSUME v < u PROVE FALSE
        BY <3>5
      <4>1. UpTo(xs, n, v) \subseteq Under(xs, n, u)
        BY <1>2, <3>5 DEF UpTo, Under
      <4>2. /\ Cardinality(UpTo(xs, n, v)) <= Cardinality(Under(xs, n, u))
            /\ Cardinality(UpTo(xs, n, v)) \in Nat /\ Cardinality(Under(xs, n, u)) \in Nat
        <5>1. Under(xs, n, u) \in SUBSET (1..n)
          BY DEF Under
        <5>2. UpTo(xs, n, v) \in SUBSET (1..n)
          BY DEF UpTo
        <5>3. QED
          BY <4>1, <5>1, <5>2, Parts
      <4>3. QED
        BY <3>3, <3>5, <4>2
    <3>7. TwiceMedian(xs) = u + v
      BY <3>2, <3>3, <3>4
    <3>8. 2 * u <= TwiceMedian(xs) /\ TwiceMedian(xs) \in Nat
      BY <3>5, <3>6, <3>7
    <3>9. n <= 2 * k
      BY <3>1, <3>3
    <3>10. QED
      BY <3>5, <3>8, <3>9
  <2>3. QED
    BY <1>1, <2>1, <2>2
<1> HIDE DEF m
<1>4. PICK t \in Nat : t = TwiceMedian(xs)
  BY <1>3
<1>5. PICK A : A = {i \in 1..n : 4 * xs[i] > 3 * t /\ xs[i] > 0}
  OBVIOUS
<1>6. A \subseteq (1..n) \ UpTo(xs, n, v)
  <2> SUFFICES ASSUME NEW i \in 1..n, 4 * xs[i] > 3 * t, xs[i] > 0, xs[i] <= v
               PROVE  FALSE
    BY <1>5 DEF UpTo
  <2>1. 2 * v <= t /\ xs[i] \in Nat
    BY <1>2, <1>3, <1>4
  <2>2. QED
    BY <2>1
<1>7. PICK all : all = 1..n
  OBVIOUS
<1>8. Cardinality(all) = n
  <2>1. PICK one \in Int : one = 1
    OBVIOUS
  <2>2. Cardinality(one..n) = IF one > n THEN 0 ELSE n - one + 1
    BY FS_Interval
  <2>3. QED
    BY <1>7, <2>1, <2>2
<1>9. PICK low \in SUBSET all : low = UpTo(xs, n, v)
  BY <1>7 DEF UpTo
<1>10. /\ Cardinality(all \ low) = n - Cardinality(low)
       /\ Cardinality(low) \in Nat
  <2>1. all \in SUBSET (1..n) /\ low \in SUBSET (1..n) /\ {} \in SUBSET low
    BY <1>7, <1>9
  <2>2. Cardinality(all \ low) = Cardinality(all) - Cardinality(low)
    BY <2>1, <1>9, Parts
  <2>3. Cardinality(low) \in Nat
    BY <2>1, Parts
  <2>4. QED
    BY <1>8, <2>2, <2>3
<1>11. Cardinality(A) <= Cardinality(all \ low) /\ Cardinality(A) \in Nat
  <2>1. all \ low \in SUBSET (1..n) /\ A \in SUBSET (all \ low) /\ A \in SUBSET (1..n)
    BY <1>6, <1>7, <1>9
  <2>2. QED
    BY <2>1, Parts
<1>12. k <= Cardinality(low)
  BY <1>3, <1>9
<1>13. 2 * Cardinality(A) <= n
  BY <1>3, <1>10, <1>11, <1>12
<1>14. QED
  BY <1>4, <1>5, <1>13

\* "Large relative to the run's median jump": at most half of the segments of a
\* run are anomalous, and the first one never is.
THEOREM AnomaliesAreAlwaysFew == Spec => []AnomaliesAreFew
<1>1. LayerInv => AnomaliesAreFew
  <2> SUFFICES ASSUME LayerInv, segs # <<>> PROVE AnomaliesAreFew
    BY DEF AnomaliesAreFew
  <2>1. Len(grid) >= 2 /\ grid \in Grids
    BY LayeredGrid
  <2>2. PICK n, found : n = Len(Boundaries(grid)) - 1 /\ found = Detect(grid)
    OBVIOUS
  <2>3. /\ n \in Nat \ {0}
        /\ found \in [1..n -> [top : Int, bottom : Int, jump : Nat]]
    BY <2>1, <2>2, DetectIs
  <2>4. /\ segs = [i \in 1..n |-> [top    |-> found[i].top,
                                   bottom |-> found[i].bottom,
                                   state  |-> Classify(found)[i]]]
        /\ Len(segs) = n /\ segs[1].state = "stable"
    BY <2>1, <2>2, ToModelIs DEF LayerInv
  <2>5. PICK xs : xs = [i \in DOMAIN found |-> found[i].jump]
    OBVIOUS
  <2>6. DOMAIN found = 1..n /\ xs \in [1..n -> Nat]
    BY <2>3, <2>5
  <2>7. \A i \in 1..n :
           segs[i].state = "anomaly" => 4 * xs[i] > 3 * TwiceMedian(xs) /\ xs[i] > 0
    BY <2>4, <2>5, <2>6 DEF Classify
  <2>8. PICK A, B : /\ A = {i \in 1..n : 4 * xs[i] > 3 * TwiceMedian(xs) /\ xs[i] > 0}
                    /\ B = {i \in DOMAIN segs : segs[i].state = "anomaly"}
    OBVIOUS
  <2>9. A \in SUBSET (1..n) /\ B \in SUBSET A /\ B \in SUBSET (1..n)
    BY <2>4, <2>7, <2>8
  <2>10. /\ Cardinality(B) <= Cardinality(A)
         /\ Cardinality(A) \in Nat /\ Cardinality(B) \in Nat
    BY <2>3, <2>9, Parts
  <2>11. 2 * Cardinality(A) <= n
    BY <2>3, <2>6, <2>8, FewAboveMedian
  <2>12. 2 * Cardinality(B) <= n
    BY <2>3, <2>10, <2>11
  <2>13. QED
    BY <2>4, <2>8, <2>12 DEF AnomaliesAreFew
<1>2. QED
  BY <1>1, LayerInvariant, PTL

\* The valid readings of a profile are its points; on a sorted profile they get
\* deeper.
LEMMA ReadingsAre ==
    ASSUME profile \in Profiles, NEW pts, pts = ValidPoints(profile)
    PROVE  /\ pts \in Seq(Point)
           /\ \A i \in 1..Len(pts) : pts[i] \in valid
           /\ \A c \in valid : \E i \in 1..Len(pts) : c = pts[i]
           /\ Sorted => \A i, j \in 1..Len(pts) : i < j => pts[i].cal < pts[j].cal
<1>1. PICK idx, N : /\ Places(idx, ValidRows(profile), N)
                    /\ pts = [i \in 1..N |-> profile[idx[i]]]
                    /\ pts \in Seq(Point)
                    /\ Len(pts) = N
  BY ValidPointsAre
<1>2. /\ N \in Nat
      /\ \A i \in 1..N : idx[i] \in ValidRows(profile)
      /\ \A i, j \in 1..N : i < j => idx[i] < idx[j]
      /\ \A n \in ValidRows(profile) : \E i \in 1..N : idx[i] = n
  BY <1>1 DEF Places
<1>3. \A i \in 1..N : pts[i] = profile[idx[i]]
  BY <1>1
<1>4. \A i \in 1..N : pts[i] \in valid
  BY <1>2, <1>3 DEF valid
<1>5. \A c \in valid : \E i \in 1..N : c = pts[i]
  BY <1>2, <1>3 DEF valid
<1>6. Sorted => \A i, j \in 1..N : i < j => pts[i].cal < pts[j].cal
  BY <1>2, <1>3 DEF Sorted
<1>7. QED
  BY <1>1, <1>4, <1>5, <1>6

\* A sample lies between a reading and the reading listed before it, and keeps
\* the value of a reading at its depth.
LEMMA SamplesAre ==
    ASSUME profile \in Profiles, NEW pts, pts = ValidPoints(profile),
           NEW k \in DOMAIN Resample(profile), NEW g, g = Resample(profile)[k]
    PROVE  \E i \in 2..Len(pts) :
              LET a == pts[i-1]
                  b == pts[i]
              IN  /\ g.depth \in Int /\ g.temp \in Int
                  /\ a \in Point /\ b \in Point
                  /\ a.cal <= g.depth /\ g.depth <= b.cal
                  /\ Within(g.temp, a.temp, b.temp)
                  /\ g.depth = b.cal => g.temp = b.temp
                  /\ g.depth = a.cal /\ a.cal < b.cal => g.temp = a.temp
<1>1. pts \in Seq(Point)
  BY ResampleIs
<1>2. Len(pts) >= 2
  <2>1. Len(pts) \in Nat
    BY <1>1, LenProperties
  <2>2. Len(pts) < 2 => Resample(profile) = <<>>
    BY ResampleIs
  <2>3. QED
    BY <2>1, <2>2
<1> DEFINE depth(j) == pts[1].cal + (j - 1) * GridStep
<1>3. PICK n \in Nat :
         /\ Resample(profile) = [j \in 1..n |-> [depth |-> depth(j),
                                                 temp  |-> interp(pts, depth(j))]]
         /\ \A j \in 1..n : /\ depth(j) \in Int
                            /\ pts[1].cal <= depth(j)
                            /\ depth(j) <= pts[Len(pts)].cal
  BY <1>2, ResampleIs
<1>4. PICK d : d = depth(k)
  OBVIOUS
<1>5. k \in 1..n
  BY <1>3
<1>6. /\ d \in Int /\ pts[1].cal <= d /\ d <= pts[Len(pts)].cal
      /\ g.depth = d /\ g.temp = interp(pts, d)
  BY <1>3, <1>4, <1>5
<1> HIDE DEF depth
<1>7. PICK i \in 2..Len(pts) :
         LET a == pts[i-1]
             b == pts[i]
             t == interp(pts, d)
         IN  /\ Beside(pts, d, i)
             /\ a \in Point /\ b \in Point /\ a.cal <= d /\ d <= b.cal
             /\ t \in Int
             /\ Within(t, a.temp, b.temp)
             /\ d = b.cal => t = b.temp
             /\ d = a.cal /\ a.cal < b.cal => t = a.temp
  BY <1>1, <1>2, <1>6, InterpIs
<1>8. QED
  BY <1>6, <1>7

\* Resampling invents no temperature, on profiles of any length and on any
\* grid, sorted or not.
THEOREM SamplesAlwaysHonourReadings == Spec => []SamplesHonourReadings
<1>1. LayerInv => SamplesHonourReadings
  <2> SUFFICES ASSUME LayerInv, NEW k \in DOMAIN grid, NEW g, g = grid[k]
               PROVE  /\ \E a, b \in valid : Above(a, g) /\ Below(b, g) /\ Between(a, g, b)
                      /\ Sorted =>
                            \A a, b \in valid :
                                /\ Above(a, g) /\ Below(b, g)
                                /\ \A c \in valid : c.cal <= a.cal \/ c.cal >= b.cal
                                => Between(a, g, b)
    BY DEF SamplesHonourReadings
  <2>1. profile \in Profiles /\ grid = Resample(profile)
    BY DEF LayerInv
  <2>2. PICK pts : pts = ValidPoints(profile)
    OBVIOUS
  <2>3. /\ pts \in Seq(Point)
        /\ \A i \in 1..Len(pts) : pts[i] \in valid
        /\ \A c \in valid : \E i \in 1..Len(pts) : c = pts[i]
        /\ Sorted => \A i, j \in 1..Len(pts) : i < j => pts[i].cal < pts[j].cal
    BY <2>1, <2>2, ReadingsAre
  <2>4. PICK N \in Nat : N = Len(pts)
    BY <2>3, LenProperties
  <2>5. PICK i \in 2..N :
              LET a == pts[i-1]
                  b == pts[i]
              IN  /\ g.depth \in Int /\ g.temp \in Int
                  /\ a \in Point /\ b \in Point
                  /\ a.cal <= g.depth /\ g.depth <= b.cal
                  /\ Within(g.temp, a.temp, b.temp)
                  /\ g.depth = b.cal => g.temp = b.temp
                  /\ g.depth = a.cal /\ a.cal < b.cal => g.temp = a.temp
    BY <2>1, <2>2, <2>4, SamplesAre
  <2>6. i \in 1..N /\ i - 1 \in 1..N
    BY <2>5
  <2>7. \E a, b \in valid : Above(a, g) /\ Below(b, g) /\ Between(a, g, b)
    <3>1. pts[i-1] \in valid /\ pts[i] \in valid
      BY <2>3, <2>4, <2>6
    <3>2. Above(pts[i-1], g) /\ Below(pts[i], g) /\ Between(pts[i-1], g, pts[i])
      BY <2>5 DEF Above, Below, Between, Within
    <3>3. QED
      BY <3>1, <3>2
  <2>8. ASSUME Sorted, NEW a \in valid, NEW b \in valid, Above(a, g), Below(b, g),
               \A c \in valid : c.cal <= a.cal \/ c.cal >= b.cal
        PROVE  Between(a, g, b)
    <3>1. \A m, n \in 1..N : m < n => pts[m].cal < pts[n].cal
      BY <2>3, <2>4, <2>8
    <3>2. PICK j \in 1..N, l \in 1..N : a = pts[j] /\ b = pts[l]
      BY <2>3, <2>4
    <3>3. \A m \in 1..N : pts[m] \in Point
      BY <2>3, <2>4
    <3>4. \A m \in 1..N : pts[m].cal \in Int /\ pts[m].temp \in Int
      BY <3>3 DEF Point
    <3>5. PICK p, q : p = pts[i-1] /\ q = pts[i]
      OBVIOUS
    <3>6. /\ p.cal < q.cal /\ p.cal \in Int /\ q.cal \in Int
          /\ p.temp \in Int /\ q.temp \in Int
          /\ a.cal \in Int /\ b.cal \in Int /\ a.temp \in Int /\ b.temp \in Int
          /\ g.depth \in Int /\ g.temp \in Int
      BY <2>5, <2>6, <3>1, <3>2, <3>4, <3>5
    <3>7. /\ p.cal <= g.depth /\ g.depth <= q.cal
          /\ Within(g.temp, p.temp, q.temp)
          /\ g.depth = q.cal => g.temp = q.temp
          /\ g.depth = p.cal => g.temp = p.temp
      BY <2>5, <3>5, <3>6
    <3>8. a.cal <= g.depth /\ g.depth <= b.cal
      BY <2>8 DEF Above, Below
    <3>9. g.temp = a.temp \/ g.temp = b.temp => Between(a, g, b)
      BY <3>6 DEF Between
    <3>10. p \in valid /\ q \in valid
      BY <2>3, <2>4, <2>6, <3>5
    <3>11. /\ p.cal <= a.cal \/ p.cal >= b.cal
           /\ q.cal <= a.cal \/ q.cal >= b.cal
      BY <2>8, <3>10, Zenon
    <3>12. CASE j > i - 1
      <4>1. j = i \/ i < j
        BY <2>6, <3>2, <3>12
      <4>2. j = i \/ q.cal < a.cal
        BY <2>6, <3>1, <3>2, <3>5, <4>1
      <4>3. a = q /\ g.depth = q.cal
        BY <3>2, <3>5, <3>6, <3>7, <3>8, <4>2
      <4>4. QED
        BY <3>7, <3>9, <4>3
    <3>13. CASE j < i - 1
      <4>1. a.cal < p.cal
        BY <2>6, <3>1, <3>2, <3>5, <3>13
      <4>2. p.cal >= b.cal
        BY <3>6, <3>11, <4>1
      <4>3. b.cal = p.cal /\ g.depth = p.cal
        BY <3>6, <3>7, <3>8, <4>2
      <4>4. l = i - 1
        BY <2>6, <3>1, <3>2, <3>5, <3>6, <4>3
      <4>5. QED
        BY <3>2, <3>5, <3>7, <3>9, <4>3, <4>4
    <3>14. CASE j = i - 1
      <4>1. a = p
        BY <3>2, <3>5, <3>14
      <4>2. q.cal >= b.cal
        BY <3>6, <3>11, <4>1
      <4>3. CASE l = i
        BY <3>2, <3>5, <3>7, <4>1, <4>3 DEF Between, Within
      <4>4. CASE l > i
        BY <2>6, <3>1, <3>2, <3>5, <3>6, <4>2, <4>4
      <4>5. CASE l < i
        <5>1. l = i - 1 \/ l < i - 1
          BY <2>6, <3>2, <4>5
        <5>2. b.cal <= p.cal
          BY <2>6, <3>1, <3>2, <3>5, <3>6, <5>1
        <5>3. g.depth = p.cal
          BY <3>6, <3>7, <3>8, <5>2
        <5>4. QED
          BY <3>7, <3>9, <4>1, <5>3
      <4>6. QED
        BY <2>6, <3>2, <4>3, <4>4, <4>5
    <3>15. QED
      BY <2>6, <3>2, <3>12, <3>13, <3>14
  <2>9. QED
    BY <2>7, <2>8
<1>2. QED
  BY <1>1, LayerInvariant, PTL

-----------------------------------------------------------------------------
(* Profiles that are shifted *)

\* A profile no correction has touched, as GrowProfile makes them.
Uncorrected ==
    \A s \in Rows(profile) :
        profile[s].cal = profile[s].raw /\ profile[s].state # "depth_conflict"

\* Profiles that grow by readings stay uncorrected.
LEMMA ProfilesStayUncorrected == Spec => []Uncorrected
<1>1. Init => Uncorrected
  BY DEF Init, Uncorrected, Rows, EmptyProfile
<1>2. LayerInv /\ Uncorrected /\ [Next]_vars => Uncorrected'
  <2> SUFFICES ASSUME LayerInv, Uncorrected, [Next]_vars PROVE Uncorrected'
    OBVIOUS
  <2>1. CASE GrowProfile
    <3>1. \A row \in NewRows : row.cal = row.raw /\ row.state # "depth_conflict"
      BY DEF NewRows, MissingRow, Reading
    <3>2. PICK s \in Seqs, row \in NewRows : profile' = [profile EXCEPT ![s] = row]
      BY <2>1 DEF GrowProfile
    <3>3. profile \in [Seqs -> Point \cup {NoRow}]
      BY DEF LayerInv, Profiles
    <3>4. ASSUME NEW t \in Seqs, profile'[t] # NoRow
          PROVE  profile'[t].cal = profile'[t].raw /\ profile'[t].state # "depth_conflict"
      <4>1. CASE t = s
        BY <3>1, <3>2, <3>3, <4>1
      <4>2. CASE t # s
        <5>1. profile'[t] = profile[t]
          BY <3>2, <3>3, <4>2
        <5>2. QED
          BY <3>4, <5>1 DEF Uncorrected, Rows
      <4>3. QED
        BY <4>1, <4>2
    <3>5. QED
      BY <3>4 DEF Uncorrected, Rows
  <2>2. CASE GrowBaseline \/ GrowTarget \/ UNCHANGED vars
    BY <2>2 DEF GrowBaseline, GrowTarget, vars, Uncorrected
  <2>3. QED
    BY <2>1, <2>2 DEF Next
<1>3. QED
  BY <1>1, <1>2, LayerInvariant, PTL DEF Spec

\* A correction of such a profile that passes the check on its depths keeps the
\* rows Resample uses, and moves each of them by the offset.
LEMMA CorrectionMoves ==
    ASSUME profile \in Profiles, Uncorrected, NEW offset \in Int,
           NEW q, q = Apply(profile, offset), VerifyMonotonic(q)
    PROVE  /\ q \in Profiles
           /\ ValidRows(q) = ValidRows(profile)
           /\ \A s \in ValidRows(q) : /\ q[s].cal = profile[s].cal + offset
                                      /\ q[s].temp = profile[s].temp
<1>1. q \in Profiles
  BY ApplyType
<1>2. \A s \in Seqs : profile[s] # NoRow => profile[s] \in Point
  BY DEF Profiles
<1>3. Rows(q) = Rows(profile)
  <2>1. \A s \in Seqs : q[s] = NoRow <=> profile[s] = NoRow
    <3> SUFFICES ASSUME NEW s \in Seqs, profile[s] # NoRow
                 PROVE  q[s] # NoRow
      BY DEF Apply
    <3>1. q[s] \in Point
      <4>1. profile[s] \in Point
        BY <1>2
      <4>2. profile[s].raw + offset \in Int
        BY <4>1 DEF Point
      <4>3. QED
        BY <4>1, <4>2 DEF Apply, Point, PointStates
    <3>2. QED
      BY <3>1, NoRowAssumption
  <2>2. QED
    BY <2>1 DEF Rows
<1>4. ASSUME NEW s \in Rows(profile)
      PROVE  /\ q[s].raw = profile[s].raw
             /\ q[s].cal = profile[s].raw + offset
             /\ q[s].temp = profile[s].temp
             /\ q[s].gap = profile[s].gap
             /\ q[s].state = IF /\ ~profile[s].gap
                                /\ \E t \in Rows(profile) :
                                      /\ IsPred(profile, t, s)
                                      /\ profile[s].raw <= profile[t].raw
                             THEN "depth_conflict" ELSE profile[s].state
  <2>1. s \in Seqs /\ profile[s] # NoRow /\ profile[s] \in Point
    BY <1>2 DEF Rows
  <2>2. q[s] = [profile[s] EXCEPT
                 !.cal   = profile[s].raw + offset,
                 !.state = IF /\ ~profile[s].gap
                              /\ \E t \in Rows(profile) :
                                    IsPred(profile, t, s) /\ profile[s].raw <= profile[t].raw
                           THEN "depth_conflict" ELSE profile[s].state]
    BY <2>1 DEF Apply
  <2>3. QED
    BY <2>1, <2>2, Zenon DEF Point
<1>5. \A s \in Rows(profile) : profile[s].raw \in Int
  BY <1>2 DEF Rows, Point
<1>6. ASSUME NEW s \in Rows(profile), ~profile[s].gap
      PROVE  q[s].state = profile[s].state
  <2> SUFFICES ASSUME NEW t \in Rows(profile), IsPred(profile, t, s),
                      profile[s].raw <= profile[t].raw
               PROVE  FALSE
    BY <1>4
  <2>1. IsPred(q, t, s) /\ ~q[s].gap
    BY <1>3, <1>4, <1>6 DEF IsPred
  <2>2. q[s].cal > q[t].cal
    BY <1>3, <2>1 DEF VerifyMonotonic
  <2>3. profile[s].raw + offset > profile[t].raw + offset
    BY <1>4, <2>2
  <2>4. QED
    BY <1>5, <2>3
<1>7. ValidRows(q) = ValidRows(profile)
  BY <1>3, <1>4, <1>6 DEF ValidRows
<1>8. ASSUME NEW s \in ValidRows(q)
      PROVE  q[s].cal = profile[s].cal + offset /\ q[s].temp = profile[s].temp
  <2>1. s \in Rows(profile)
    BY <1>3 DEF ValidRows
  <2>2. QED
    BY <1>4, <2>1 DEF Uncorrected
<1>9. QED
  BY <1>1, <1>7, <1>8

\* The points qts are the points pts, each deeper by offset.
PointsMoved(pts, qts, offset) ==
    /\ Len(qts) = Len(pts)
    /\ \A i \in 1..Len(pts) : /\ qts[i].cal = pts[i].cal + offset
                              /\ qts[i].temp = pts[i].temp

\* Moving the rows moves the points Resample uses.
LEMMA ValidPointsMove ==
    ASSUME NEW p \in Profiles, NEW q \in Profiles, NEW offset \in Int,
           ValidRows(q) = ValidRows(p),
           \A s \in ValidRows(q) : q[s].cal = p[s].cal + offset /\ q[s].temp = p[s].temp
    PROVE  PointsMoved(ValidPoints(p), ValidPoints(q), offset)
<1>1. PICK S \in SUBSET Int : S = ValidRows(p) /\ IsFiniteSet(S)
  <2>1. ValidRows(p) \subseteq Seqs
    BY DEF ValidRows, Rows
  <2>2. IsFiniteSet(ValidRows(p)) /\ ValidRows(p) \subseteq Int
    BY <2>1, ProfileAssumption, FS_Subset
  <2>3. QED
    BY <2>2
<1>2. PICK idx, N : /\ Places(idx, S, N)
                    /\ InOrder(p, S) = [i \in 1..N |-> p[idx[i]]]
                    /\ InOrder(q, S) = [i \in 1..N |-> q[idx[i]]]
  BY <1>1, InOrderBoth
<1>3. N \in Nat /\ \A i \in 1..N : idx[i] \in S
  BY <1>2 DEF Places
<1>4. ValidPoints(p) = InOrder(p, S) /\ ValidPoints(q) = InOrder(q, S)
  BY <1>1 DEF ValidPoints
<1>5. Len(ValidPoints(p)) = N /\ Len(ValidPoints(q)) = N
  BY <1>2, <1>3, <1>4
<1>6. \A i \in 1..N : ValidPoints(p)[i] = p[idx[i]] /\ ValidPoints(q)[i] = q[idx[i]]
  BY <1>2, <1>4
<1>7. QED
  BY <1>1, <1>3, <1>5, <1>6 DEF PointsMoved

\* Two readings are never both the first one not above d.
LEMMA BesideIsOne ==
    ASSUME NEW pts \in Seq(Point), NEW d \in Int, NEW i, NEW j,
           Beside(pts, d, i), Beside(pts, d, j)
    PROVE  i = j
<1>1. i \in 2..Len(pts) /\ j \in 2..Len(pts)
  BY DEF Beside
<1>2. ASSUME NEW m \in 2..Len(pts), NEW n \in 2..Len(pts), m < n,
             Beside(pts, d, m), Beside(pts, d, n)
      PROVE  FALSE
  <2>1. m \in 2..(n - 1) /\ m \in 1..Len(pts)
    BY <1>2
  <2>2. pts[m].cal \in Int
    <3>1. pts[m] \in Point
      BY <2>1
    <3>2. QED
      BY <3>1 DEF Point
  <2>3. d <= pts[m].cal /\ d > pts[m].cal
    BY <1>2, <2>1 DEF Beside
  <2>4. QED
    BY <2>2, <2>3
<1>3. QED
  BY <1>1, <1>2

\* The temperature between a reading and the reading before it.
LEMMA InterpAt ==
    ASSUME NEW pts \in Seq(Point), NEW d \in Int, NEW i, Beside(pts, d, i)
    PROVE  interp(pts, d) =
              IF pts[i-1].cal = pts[i].cal THEN pts[i].temp
              ELSE Line(pts[i-1].temp, pts[i].temp, pts[i-1].cal, pts[i].cal, d)
<1> DEFINE k == CHOOSE k \in 2..Len(pts) :
                    d <= pts[k].cal /\ \A j \in 2..(k-1) : d > pts[j].cal
<1>1. interp(pts, d) =
              IF pts[k-1].cal = pts[k].cal THEN pts[k].temp
              ELSE Line(pts[k-1].temp, pts[k].temp, pts[k-1].cal, pts[k].cal, d)
  BY DEF interp, Line
<1>2. Beside(pts, d, k)
  BY DEF Beside
<1> HIDE DEF k
<1>3. k = i
  BY <1>2, BesideIsOne
<1>4. QED
  BY <1>1, <1>3

\* What moves together stays as far apart.
LEMMA SameDifference ==
    ASSUME NEW x \in Int, NEW y \in Int, NEW o \in Int
    PROVE  (x + o) - (y + o) = x - y
OBVIOUS

\* The temperature at a depth moves with the points.
LEMMA InterpMoves ==
    ASSUME NEW pts \in Seq(Point), NEW qts \in Seq(Point), NEW offset \in Int,
           PointsMoved(pts, qts, offset), Len(pts) >= 2, NEW d \in Int,
           d <= pts[Len(pts)].cal
    PROVE  interp(qts, d + offset) = interp(pts, d)
<1>1. PICK N \in Nat : N = Len(pts) /\ N = Len(qts)
  BY LenProperties DEF PointsMoved
<1>2. /\ \A i \in 1..N : /\ qts[i].cal = pts[i].cal + offset
                         /\ qts[i].temp = pts[i].temp
      /\ \A i \in 1..N : pts[i] \in Point
  BY <1>1 DEF PointsMoved
<1>3. \A i \in 1..N : pts[i].cal \in Int /\ pts[i].temp \in Int
  BY <1>2 DEF Point
<1>4. PICK i : Beside(pts, d, i)
  BY BesideExists
<1>5. i \in 2..N /\ i \in 1..N /\ i - 1 \in 1..N
  BY <1>1, <1>4 DEF Beside
<1>6. Beside(qts, d + offset, i)
  <2>1. d + offset <= qts[i].cal
    BY <1>2, <1>3, <1>4, <1>5 DEF Beside
  <2>2. ASSUME NEW j \in 2..(i-1)
        PROVE  d + offset > qts[j].cal
    <3>1. j \in 1..N /\ d > pts[j].cal
      BY <1>4, <1>5 DEF Beside
    <3>2. QED
      BY <1>2, <1>3, <3>1
  <2>3. QED
    BY <1>1, <1>5, <2>1, <2>2 DEF Beside
<1>7. PICK a \in Int, b \in Int, u \in Int, v \in Int :
         a = pts[i-1].cal /\ b = pts[i].cal /\ u = pts[i-1].temp /\ v = pts[i].temp
  BY <1>3, <1>5
<1>8. interp(pts, d) = IF a = b THEN v ELSE Line(u, v, a, b, d)
  BY <1>4, <1>7, InterpAt
<1>9. PICK e \in Int, c \in Int, f \in Int :
         e = d + offset /\ c = a + offset /\ f = b + offset
  <2>1. d + offset \in Int /\ a + offset \in Int /\ b + offset \in Int
    OBVIOUS
  <2>2. QED
    BY <2>1, Zenon
<1>10. interp(qts, e) = IF c = f THEN v ELSE Line(u, v, c, f, e)
  <2>1. /\ qts[i-1].cal = c /\ qts[i].cal = f
        /\ qts[i-1].temp = u /\ qts[i].temp = v
    BY <1>2, <1>5, <1>7, <1>9
  <2>2. Beside(qts, e, i)
    BY <1>6, <1>9
  <2>3. QED
    BY <2>1, <2>2, InterpAt
<1>11. Line(u, v, c, f, e) = Line(u, v, a, b, d)
  <2>1. /\ (d + offset) - (a + offset) = d - a
        /\ (b + offset) - (a + offset) = b - a
    BY SameDifference
  <2>2. e - c = d - a /\ f - c = b - a
    BY <1>9, <2>1, Zenon
  <2>3. QED
    BY <2>2, Zenon DEF Line
<1>12. a = b <=> c = f
  BY <1>9
<1>13. QED
  BY <1>8, <1>9, <1>10, <1>11, <1>12, Zenon

\* The samples of h are the samples of g, each deeper by offset.
GridMoved(g, h, offset) ==
    /\ Len(h) = Len(g)
    /\ \A k \in 1..Len(g) : /\ h[k].depth = g[k].depth + offset
                            /\ h[k].temp = g[k].temp

\* Moving the points keeps the number of grid depths.
LEMMA GridDepthsMove ==
    ASSUME NEW pts \in Seq(Point), NEW qts \in Seq(Point), NEW offset \in Int,
           PointsMoved(pts, qts, offset), Len(pts) >= 2
    PROVE  DOMAIN GridDepths(qts) = DOMAIN GridDepths(pts)
<1>1. PICK N \in Nat : N = Len(pts) /\ N = Len(qts) /\ N >= 2
  BY LenProperties DEF PointsMoved
<1>2. pts[1] \in Point /\ pts[N] \in Point
  <2>1. \A i \in 1..Len(pts) : pts[i] \in Point
    OBVIOUS
  <2>2. 1 \in 1..N /\ N \in 1..N
    BY <1>1
  <2>3. QED
    BY <1>1, <2>1, <2>2
<1>3. PICK a \in Int, b \in Int : a = pts[1].cal /\ b = pts[N].cal
  BY <1>2 DEF Point
<1>4. qts[1].cal = a + offset /\ qts[N].cal = b + offset
  BY <1>1, <1>3 DEF PointsMoved
<1>5. (b + offset) - (a + offset) = b - a
  BY <1>3, SameDifference
<1>6. qts[N].cal - qts[1].cal = b - a
  BY <1>4, <1>5, Zenon
<1>7. DOMAIN GridDepths(pts) = 1..(1 + (b - a) \div GridStep)
  <2>1. GridDepths(pts) = [k \in 1..(1 + (pts[N].cal - pts[1].cal) \div GridStep) |->
                              pts[1].cal + (k - 1) * GridStep]
    BY <1>1 DEF GridDepths
  <2>2. QED
    BY <1>3, <2>1, Zenon
<1>8. DOMAIN GridDepths(qts) = 1..(1 + (b - a) \div GridStep)
  <2>1. GridDepths(qts) = [k \in 1..(1 + (qts[N].cal - qts[1].cal) \div GridStep) |->
                              qts[1].cal + (k - 1) * GridStep]
    BY <1>1 DEF GridDepths
  <2>2. QED
    BY <1>6, <2>1, Zenon
<1>9. QED
  BY <1>7, <1>8

\* Moving the readings moves the samples.
LEMMA ResampleMoves ==
    ASSUME NEW p \in Profiles, NEW q \in Profiles, NEW offset \in Int,
           PointsMoved(ValidPoints(p), ValidPoints(q), offset)
    PROVE  GridMoved(Resample(p), Resample(q), offset)
<1>1. PICK pts, qts : pts = ValidPoints(p) /\ qts = ValidPoints(q)
  OBVIOUS
<1>2. pts \in Seq(Point) /\ qts \in Seq(Point) /\ PointsMoved(pts, qts, offset)
  BY <1>1, ValidPointsAre
<1>3. PICK N \in Nat : N = Len(pts) /\ N = Len(qts)
  BY <1>2, LenProperties DEF PointsMoved
<1>4. CASE N < 2
  <2>1. Resample(p) = <<>>
    BY <1>1, <1>3, <1>4, ResampleIs
  <2>2. Resample(q) = <<>>
    BY <1>1, <1>3, <1>4, ResampleIs
  <2>3. QED
    BY <2>1, <2>2 DEF GridMoved
<1>5. CASE N >= 2
  <2> DEFINE pd(k) == pts[1].cal + (k - 1) * GridStep
             qd(k) == qts[1].cal + (k - 1) * GridStep
  <2>1. Len(pts) >= 2 /\ Len(qts) >= 2
    BY <1>3, <1>5
  <2>2. PICK n \in Nat :
           /\ GridDepths(pts) = [k \in 1..n |-> pd(k)]
           /\ Resample(p) = [k \in 1..n |-> [depth |-> pd(k), temp |-> interp(pts, pd(k))]]
           /\ \A k \in 1..n : /\ pd(k) \in Int
                             /\ pts[1].cal <= pd(k)
                             /\ pd(k) <= pts[Len(pts)].cal
    BY <1>1, <2>1, ResampleIs
  <2>3. PICK m \in Nat :
           /\ GridDepths(qts) = [k \in 1..m |-> qd(k)]
           /\ Resample(q) = [k \in 1..m |-> [depth |-> qd(k), temp |-> interp(qts, qd(k))]]
           /\ \A k \in 1..m : /\ qd(k) \in Int
                             /\ qts[1].cal <= qd(k)
                             /\ qd(k) <= qts[Len(qts)].cal
    BY <1>1, <2>1, ResampleIs
  <2>4. m = n
    <3>1. 1..m = 1..n
      BY <1>2, <2>1, <2>2, <2>3, GridDepthsMove
    <3>2. QED
      BY <3>1
  <2>5. ASSUME NEW k \in 1..n
        PROVE  /\ qd(k) = pd(k) + offset
               /\ interp(qts, qd(k)) = interp(pts, pd(k))
    <3>1. pts[1] \in Point /\ 1 \in 1..Len(pts)
      <4>1. \A i \in 1..Len(pts) : pts[i] \in Point
        BY <1>2
      <4>2. 1 \in 1..Len(pts)
        BY <1>3, <1>5
      <4>3. QED
        BY <4>1, <4>2
    <3>2. pts[1].cal \in Int /\ qts[1].cal = pts[1].cal + offset
      BY <1>2, <3>1 DEF PointsMoved, Point
    <3>3. PICK x \in Int : x = (k - 1) * GridStep
      BY ProfileAssumption
    <3>4. qd(k) = pd(k) + offset
      BY <3>2, <3>3
    <3>5. PICK d \in Int : d = pd(k) /\ d <= pts[Len(pts)].cal
      BY <2>2
    <3> HIDE DEF pd, qd
    <3>6. interp(qts, d + offset) = interp(pts, d)
      BY <1>2, <2>1, <3>5, InterpMoves
    <3>7. QED
      BY <3>4, <3>5, <3>6
  <2> HIDE DEF pd, qd
  <2>6. Len(Resample(p)) = n /\ Len(Resample(q)) = n
    BY <2>2, <2>3, <2>4
  <2>7. QED
    BY <2>2, <2>3, <2>4, <2>5, <2>6 DEF GridMoved
<1>6. QED
  BY <1>3, <1>4, <1>5

-----------------------------------------------------------------------------
(* Boundaries that are shifted *)

\* A list of depths, each deeper by offset.
Lower(s, offset) == [i \in 1..Len(s) |-> s[i] + offset]

\* What Lower returns, and its last element.
LEMMA LowerIs ==
    ASSUME NEW s \in Seq(Int), NEW o \in Int
    PROVE  /\ Lower(s, o) \in Seq(Int)
           /\ Len(Lower(s, o)) = Len(s)
           /\ \A i \in 1..Len(s) : Lower(s, o)[i] = s[i] + o
           /\ Len(s) >= 1 => /\ Last(s) \in Int
                             /\ Last(Lower(s, o)) = Last(s) + o
<1>1. PICK n \in Nat : n = Len(s) /\ \A i \in 1..n : s[i] \in Int
  BY LenProperties
<1>2. \A i \in 1..n : s[i] + o \in Int
  BY <1>1
<1>3. PICK t : t = Lower(s, o)
  OBVIOUS
<1>4. t = [i \in 1..n |-> s[i] + o]
  BY <1>1, <1>3 DEF Lower
<1>5. t \in Seq(Int) /\ Len(t) = n
  BY <1>1, <1>2, <1>4, SeqDef
<1>6. \A i \in 1..n : t[i] = s[i] + o
  BY <1>4
<1>7. n >= 1 => s[n] \in Int /\ t[n] = s[n] + o
  BY <1>1, <1>6
<1>8. Last(s) = s[n] /\ Last(t) = t[n]
  BY <1>1, <1>5 DEF Last
<1>9. QED
  BY <1>1, <1>3, <1>5, <1>6, <1>7, <1>8

\* Moving a concatenation moves its parts.
LEMMA LowerConcat ==
    ASSUME NEW s \in Seq(Int), NEW t \in Seq(Int), NEW o \in Int
    PROVE  Lower(s \o t, o) = Lower(s, o) \o Lower(t, o)
<1>1. PICK n \in Nat, m \in Nat : n = Len(s) /\ m = Len(t)
  BY LenProperties
<1>2. PICK u, v, w : u = Lower(s, o) /\ v = Lower(t, o) /\ w = s \o t
  OBVIOUS
<1>3. /\ u \in Seq(Int) /\ Len(u) = n /\ \A i \in 1..n : u[i] = s[i] + o
      /\ v \in Seq(Int) /\ Len(v) = m /\ \A i \in 1..m : v[i] = t[i] + o
  BY <1>1, <1>2, LowerIs
<1>4. /\ w \in Seq(Int) /\ Len(w) = n + m
      /\ \A i \in 1..(n + m) : w[i] = IF i <= n THEN s[i] ELSE t[i-n]
  BY <1>1, <1>2, ConcatProperties
<1>5. PICK x : x = Lower(w, o)
  OBVIOUS
<1>6. /\ x \in Seq(Int) /\ Len(x) = n + m
      /\ \A i \in 1..(n + m) : x[i] = w[i] + o
  <2>1. x \in Seq(Int) /\ Len(x) = Len(w) /\ \A i \in 1..Len(w) : x[i] = w[i] + o
    BY <1>4, <1>5, LowerIs
  <2>2. QED
    BY <1>4, <2>1
<1>7. PICK y : y = u \o v
  OBVIOUS
<1>8. /\ y \in Seq(Int) /\ Len(y) = n + m
      /\ \A i \in 1..(n + m) : y[i] = IF i <= n THEN u[i] ELSE v[i-n]
  BY <1>3, <1>7, ConcatProperties
<1>9. ASSUME NEW i \in 1..(n + m)
      PROVE  x[i] = y[i]
  <2>1. CASE i <= n
    <3>1. i \in 1..n
      BY <2>1
    <3>2. y[i] = u[i] /\ u[i] = s[i] + o
      BY <1>3, <1>8, <2>1, <3>1
    <3>3. x[i] = w[i] + o /\ w[i] = s[i]
      BY <1>4, <1>6, <2>1
    <3>4. QED
      BY <3>2, <3>3
  <2>2. CASE ~(i <= n)
    <3>1. PICK k \in 1..m : k = i - n
      BY <2>2
    <3>2. y[i] = t[k] + o /\ x[i] = t[k] + o
      BY <1>3, <1>4, <1>6, <1>8, <2>2, <3>1
    <3>3. QED
      BY <3>2
  <2>3. QED
    BY <2>1, <2>2
<1>10. x = y
  <2>1. x \in [1..(n + m) -> Int] /\ y \in [1..(n + m) -> Int]
    BY <1>6, <1>8, LenProperties
  <2>2. QED
    BY <1>9, <2>1
<1>11. QED
  BY <1>2, <1>5, <1>7, <1>10

\* Moving the samples keeps the gradients and the candidates.
LEMMA CandidatesStay ==
    ASSUME NEW g \in Grids, NEW h \in Grids, NEW offset \in Int, GridMoved(g, h, offset)
    PROVE  /\ \A i \in 2..Len(g) : Gradient(h, i) = Gradient(g, i)
           /\ Candidates(h) = Candidates(g)
<1>1. PICK n \in Nat : n = Len(g) /\ n = Len(h)
  BY GridTyped DEF GridMoved
<1>2. ASSUME NEW i \in 2..n
      PROVE  Gradient(h, i) = Gradient(g, i)
  <2>1. i \in 1..n /\ i - 1 \in 1..n
    BY <1>1
  <2>2. h[i].temp = g[i].temp /\ h[i-1].temp = g[i-1].temp
    BY <1>1, <2>1 DEF GridMoved
  <2>3. QED
    BY <2>2 DEF Gradient
<1>3. ASSUME NEW i \in 3..n
      PROVE  Jump(h, i) = Jump(g, i)
  <2>1. i \in 2..n /\ i - 1 \in 2..n
    BY <1>1
  <2>2. QED
    BY <1>2, <2>1 DEF Jump
<1>4. QED
  BY <1>1, <1>2, <1>3 DEF Candidates

\* Moving the samples moves the marks.
LEMMA MarksMove ==
    ASSUME NEW g \in Grids, NEW h \in Grids, NEW offset \in Int, GridMoved(g, h, offset),
           Len(g) >= 2
    PROVE  Marks(g) \in Seq(Int) /\ Marks(h) = Lower(Marks(g), offset)
<1>1. PICK n \in Nat : n = Len(g) /\ n = Len(h) /\ n >= 2
  BY GridTyped DEF GridMoved
<1>2. PICK dg, dh : /\ dg = [k \in 1..n |-> g[k].depth]
                    /\ dh = [k \in 1..n |-> h[k].depth]
  OBVIOUS
<1>3. \A k \in 1..n : dg[k] \in Int /\ dh[k] = dg[k] + offset
  <2>1. \A k \in 1..n : g[k].depth \in Int /\ h[k].depth = g[k].depth + offset
    BY <1>1, GridTyped DEF GridMoved
  <2>2. QED
    BY <1>2, <2>1
<1>4. Len(dg) = n /\ Len(dh) = n
  BY <1>2
<1>5. DOMAIN g = 1..n /\ DOMAIN h = 1..n
  BY <1>1, GridTyped
<1>6. PICK C \in SUBSET Int : C = Candidates(g) /\ C = Candidates(h) /\ IsFiniteSet(C)
                              /\ C \subseteq 1..n
  <2>1. Candidates(g) \subseteq 1..n
    BY <1>1 DEF Candidates
  <2>2. IsFiniteSet(1..n) /\ 1..n \subseteq Int
    BY FS_Interval
  <2>3. IsFiniteSet(Candidates(g)) /\ Candidates(g) \subseteq Int
    BY <2>1, <2>2, FS_Subset
  <2>4. QED
    BY <2>1, <2>3, CandidatesStay
<1>7. PICK idx, N : /\ Places(idx, C, N)
                    /\ InOrder(dg, C) = [i \in 1..N |-> dg[idx[i]]]
                    /\ InOrder(dh, C) = [i \in 1..N |-> dh[idx[i]]]
  BY <1>6, InOrderBoth
<1>8. N \in Nat /\ \A i \in 1..N : idx[i] \in 1..n
  BY <1>6, <1>7 DEF Places
<1>9. PICK jg, jh : jg = InOrder(dg, C) /\ jh = InOrder(dh, C)
  OBVIOUS
<1>10. jg \in Seq(Int) /\ Len(jg) = N /\ jh = Lower(jg, offset)
  <2>1. jg \in [1..N -> Int]
    BY <1>3, <1>7, <1>8, <1>9
  <2>2. jg \in Seq(Int) /\ Len(jg) = N
    BY <1>8, <2>1, SeqDef, LenProperties
  <2>3. \A i \in 1..N : jg[i] = dg[idx[i]] /\ jh[i] = dh[idx[i]]
    BY <1>7, <1>9
  <2>4. \A i \in 1..N : jh[i] = jg[i] + offset
    BY <1>3, <1>8, <2>3
  <2>5. jh = [i \in 1..N |-> jg[i] + offset]
    BY <1>7, <1>9, <2>4
  <2>6. QED
    BY <2>2, <2>5 DEF Lower
<1>11. PICK a \in Int, b \in Int : a = dg[1] /\ b = dg[n]
  BY <1>1, <1>3
<1>12. dh[1] = a + offset /\ dh[n] = b + offset
  BY <1>1, <1>3, <1>11
<1>13. Marks(g) = (<<a>> \o jg) \o <<b>>
  BY <1>2, <1>4, <1>5, <1>6, <1>9, <1>11 DEF Marks, Last
<1>14. Marks(h) = (<<a + offset>> \o jh) \o <<b + offset>>
  BY <1>2, <1>4, <1>5, <1>6, <1>9, <1>12 DEF Marks, Last
<1>15. ASSUME NEW x \in Int
       PROVE  <<x>> \in Seq(Int) /\ Lower(<<x>>, offset) = <<x + offset>>
  BY DEF Lower
<1>16. PICK head, tail : head = <<a>> /\ tail = <<b>>
  OBVIOUS
<1>17. /\ head \in Seq(Int) /\ Lower(head, offset) = <<a + offset>>
       /\ tail \in Seq(Int) /\ Lower(tail, offset) = <<b + offset>>
  BY <1>11, <1>15, <1>16
<1>18. PICK mid : mid = head \o jg
  OBVIOUS
<1>19. mid \in Seq(Int) /\ mid \o tail \in Seq(Int)
  BY <1>10, <1>17, <1>18, ConcatProperties
<1>20. Lower(mid, offset) = <<a + offset>> \o jh
  <2>1. Lower(head \o jg, offset) = Lower(head, offset) \o Lower(jg, offset)
    BY <1>10, <1>17, LowerConcat
  <2>2. QED
    BY <1>10, <1>17, <1>18, <2>1, Zenon
<1>21. Lower(mid \o tail, offset) = Lower(mid, offset) \o <<b + offset>>
  <2>1. Lower(mid \o tail, offset) = Lower(mid, offset) \o Lower(tail, offset)
    BY <1>17, <1>19, LowerConcat
  <2>2. QED
    BY <1>17, <2>1, Zenon
<1>22. QED
  BY <1>13, <1>14, <1>16, <1>18, <1>19, <1>20, <1>21

\* Moving a longer list moves the element appended.
LEMMA LowerAppend ==
    ASSUME NEW s \in Seq(Int), NEW d \in Int, NEW o \in Int
    PROVE  Lower(Append(s, d), o) = Append(Lower(s, o), d + o)
<1>1. PICK n \in Nat : n = Len(s)
  BY LenProperties
<1>2. PICK e \in Int : e = d + o
  OBVIOUS
<1>3. PICK low : low = Lower(s, o)
  OBVIOUS
<1>4. low \in Seq(Int) /\ Len(low) = n /\ \A i \in 1..n : low[i] = s[i] + o
  BY <1>1, <1>3, LowerIs
<1>5. PICK t : t = Append(s, d)
  OBVIOUS
<1>6. /\ t \in Seq(Int) /\ Len(t) = n + 1 /\ t[n+1] = d
      /\ \A i \in 1..n : t[i] = s[i]
  BY <1>1, <1>5, AppendProperties
<1>7. PICK x : x = Append(low, e)
  OBVIOUS
<1>8. /\ x \in Seq(Int) /\ Len(x) = n + 1 /\ x[n+1] = e
      /\ \A i \in 1..n : x[i] = low[i]
  BY <1>2, <1>4, <1>7, AppendProperties
<1>9. PICK y : y = Lower(t, o)
  OBVIOUS
<1>10. y \in Seq(Int) /\ Len(y) = n + 1 /\ \A i \in 1..(n + 1) : y[i] = t[i] + o
  <2>1. y \in Seq(Int) /\ Len(y) = Len(t) /\ \A i \in 1..Len(t) : y[i] = t[i] + o
    BY <1>6, <1>9, LowerIs
  <2>2. QED
    BY <1>6, <2>1
<1>11. ASSUME NEW i \in 1..(n + 1)
       PROVE  x[i] = y[i]
  <2>1. CASE i = n + 1
    BY <1>2, <1>6, <1>8, <1>10, <2>1
  <2>2. CASE i # n + 1
    <3>1. i \in 1..n
      BY <2>2
    <3>2. x[i] = s[i] + o /\ y[i] = s[i] + o
      BY <1>4, <1>6, <1>8, <1>10, <3>1
    <3>3. QED
      BY <3>2
  <2>3. QED
    BY <2>1, <2>2
<1>12. x = y
  <2>1. x \in [1..(n + 1) -> Int] /\ y \in [1..(n + 1) -> Int]
    BY <1>8, <1>10, LenProperties
  <2>2. QED
    BY <1>11, <2>1
<1>13. QED
  BY <1>2, <1>3, <1>5, <1>7, <1>9, <1>12, Zenon

\* What is kept moves with the depths.
LEMMA JoinedMoves ==
    ASSUME NEW kept \in Seq(Int), Len(kept) >= 1, NEW d \in Int, NEW offset \in Int
    PROVE  /\ Joined(kept, d) \in Seq(Int) /\ Len(Joined(kept, d)) >= 1
           /\ Joined(Lower(kept, offset), d + offset) = Lower(Joined(kept, d), offset)
<1>1. PICK low : low = Lower(kept, offset)
  OBVIOUS
<1>2. low \in Seq(Int) /\ Last(kept) \in Int /\ Last(low) = Last(kept) + offset
  BY <1>1, LowerIs
<1>3. (d + offset) - (Last(kept) + offset) = d - Last(kept)
  BY <1>2, SameDifference
<1>4. (d + offset) - Last(low) = d - Last(kept)
  BY <1>2, <1>3, Zenon
<1>5. CASE d - Last(kept) >= MinSegThick
  <2>1. Joined(kept, d) = Append(kept, d)
    BY <1>5 DEF Joined
  <2>2. Joined(low, d + offset) = Append(low, d + offset)
    BY <1>4, <1>5, Zenon DEF Joined
  <2>3. Append(low, d + offset) = Lower(Append(kept, d), offset)
    BY <1>1, LowerAppend
  <2>4. Append(kept, d) \in Seq(Int) /\ Len(Append(kept, d)) >= 1
    BY AppendProperties, LenProperties
  <2>5. QED
    BY <1>1, <2>1, <2>2, <2>3, <2>4
<1>6. CASE ~(d - Last(kept) >= MinSegThick)
  <2>1. Joined(kept, d) = kept
    BY <1>6 DEF Joined
  <2>2. Joined(low, d + offset) = low
    BY <1>4, <1>6, Zenon DEF Joined
  <2>3. QED
    BY <1>1, <2>1, <2>2
<1>7. QED
  BY <1>5, <1>6

\* Merging depths that are moved keeps the moved depths.
LEMMA MergeMoves ==
    ASSUME NEW s \in Seq(Int), Len(s) >= 1, NEW offset \in Int
    PROVE  /\ Merge(s) \in Seq(Int) /\ Len(Merge(s)) >= 1
           /\ Merge(Lower(s, offset)) = Lower(Merge(s), offset)
<1>1. PICK N \in Nat : N = Len(s) /\ N >= 1 /\ \A i \in 1..N : s[i] \in Int
  BY LenProperties
<1>2. PICK low : low = Lower(s, offset)
  OBVIOUS
<1>3. low \in Seq(Int) /\ Len(low) = N /\ \A i \in 1..N : low[i] = s[i] + offset
  BY <1>1, <1>2, LowerIs
<1>4. PICK f : MergedUpTo(s, f, N) /\ Merge(s) = f[N]
  BY <1>1, MergeIs
<1>5. PICK g : MergedUpTo(low, g, N) /\ Merge(low) = g[N]
  BY <1>3, MergeIs
<1>6. \A n \in 1..N :
         /\ f[n] = IF n = 1 THEN <<s[1]>> ELSE Joined(f[n-1], s[n])
         /\ g[n] = IF n = 1 THEN <<low[1]>> ELSE Joined(g[n-1], low[n])
  BY <1>4, <1>5 DEF MergedUpTo
<1> DEFINE holds(n) == f[n] \in Seq(Int) /\ Len(f[n]) >= 1 /\ g[n] = Lower(f[n], offset)
           T == {n \in Nat : n + 1 <= N => holds(n + 1)}
<1>7. holds(1)
  <2>1. PICK d \in Int : d = s[1] /\ low[1] = d + offset
    BY <1>1, <1>3
  <2>2. f[1] = <<d>> /\ g[1] = <<d + offset>>
    BY <1>1, <1>6, <2>1
  <2>3. <<d>> \in Seq(Int) /\ Len(<<d>>) = 1 /\ Lower(<<d>>, offset) = <<d + offset>>
    BY DEF Lower
  <2>4. QED
    BY <2>2, <2>3
<1>8. ASSUME NEW n \in 1..N, n + 1 <= N, holds(n)
      PROVE  holds(n + 1)
  <2>1. PICK m \in 1..N : m = n + 1 /\ m # 1 /\ m - 1 = n
    BY <1>8
  <2>2. PICK d \in Int : d = s[m] /\ low[m] = d + offset
    BY <1>1, <1>3
  <2>3. f[m] = Joined(f[n], d) /\ g[m] = Joined(g[n], d + offset)
    BY <1>6, <2>1, <2>2
  <2>4. PICK kept \in Seq(Int) : kept = f[n] /\ Len(kept) >= 1 /\ g[n] = Lower(kept, offset)
    BY <1>8
  <2>5. /\ Joined(kept, d) \in Seq(Int) /\ Len(Joined(kept, d)) >= 1
        /\ Joined(Lower(kept, offset), d + offset) = Lower(Joined(kept, d), offset)
    BY <2>4, JoinedMoves
  <2>6. QED
    BY <2>1, <2>3, <2>4, <2>5
<1> HIDE DEF holds
<1>9. 0 \in T
  <2>1. 0 + 1 = 1
    OBVIOUS
  <2>2. QED
    BY <1>7, <2>1
<1>10. ASSUME NEW n \in Nat, n \in T
       PROVE  n + 1 \in T
  <2> SUFFICES ASSUME (n + 1) + 1 <= N PROVE holds((n + 1) + 1)
    OBVIOUS
  <2>1. n + 1 \in 1..N /\ n + 1 <= N
    OBVIOUS
  <2>2. holds(n + 1)
    BY <1>10, <2>1
  <2>3. QED
    BY <1>8, <2>1, <2>2
<1> HIDE DEF T
<1>11. Nat \subseteq T
  BY <1>9, <1>10, Counting
<1>12. holds(N)
  <2>1. PICK n \in Nat : n = N - 1 /\ n + 1 = N
    BY <1>1
  <2>2. n \in T
    BY <1>11
  <2>3. QED
    BY <2>1, <2>2 DEF T
<1>13. QED
  BY <1>2, <1>4, <1>5, <1>12 DEF holds

\* The boundaries move with the samples.
LEMMA BoundariesMove ==
    ASSUME NEW g \in Grids, NEW h \in Grids, NEW offset \in Int, GridMoved(g, h, offset),
           Len(g) >= 2
    PROVE  Boundaries(h) = Lower(Boundaries(g), offset)
<1>1. PICK n \in Nat : n = Len(g) /\ n = Len(h) /\ n >= 2
  BY GridTyped DEF GridMoved
<1>2. PICK d \in Int : d = g[n].depth /\ h[n].depth = d + offset
  BY <1>1, GridTyped DEF GridMoved
<1>3. Last(g).depth = d /\ Last(h).depth = d + offset
  BY <1>1, <1>2 DEF Last
<1>4. PICK marks : marks = Marks(g)
  OBVIOUS
<1>5. marks \in Seq(Int) /\ Marks(h) = Lower(marks, offset)
  BY <1>4, MarksMove
<1>6. Len(marks) >= 1
  <2>1. \E m \in Nat : \E place \in [1..m -> 1..Len(g)] :
              /\ m >= 2 /\ place[1] = 1 /\ place[m] = Len(g)
              /\ Marks(g) = [i \in 1..m |-> g[place[i]].depth]
              /\ \A i, j \in 1..m : i <= j => place[i] <= place[j]
              /\ \A k \in Candidates(g) : \E i \in 1..m : place[i] = k
    BY MarksAre
  <2>2. PICK m \in Nat : \E place : m >= 2 /\ marks = [i \in 1..m |-> g[place[i]].depth]
    BY <1>4, <2>1
  <2>3. QED
    BY <2>2
<1>7. PICK kept, lower : kept = Merge(marks) /\ lower = Lower(kept, offset)
  OBVIOUS
<1>8. kept \in Seq(Int) /\ Len(kept) >= 1 /\ Merge(Marks(h)) = lower
  BY <1>5, <1>6, <1>7, MergeMoves
<1>9. PICK last \in Int : last = Last(kept) /\ Last(lower) = last + offset
  BY <1>7, <1>8, LowerIs
<1>10. Boundaries(g) = IF last = d THEN kept ELSE Append(kept, d)
  BY <1>3, <1>4, <1>7, <1>9 DEF Boundaries
<1>11. Boundaries(h) = IF last + offset = d + offset THEN lower
                       ELSE Append(lower, d + offset)
  BY <1>3, <1>8, <1>9 DEF Boundaries
<1>12. last = d <=> last + offset = d + offset
  OBVIOUS
<1>13. Lower(Append(kept, d), offset) = Append(lower, d + offset)
  BY <1>7, <1>8, LowerAppend
<1>14. QED
  BY <1>7, <1>10, <1>11, <1>12, <1>13, Zenon

\* The gradient at a depth moves with the samples.
LEMMA GradAtMoves ==
    ASSUME NEW g \in Grids, NEW h \in Grids, NEW offset \in Int, GridMoved(g, h, offset),
           NEW d \in Int
    PROVE  gradAt(h, d + offset) = gradAt(g, d)
<1>1. PICK n \in Nat : n = Len(g) /\ n = Len(h)
  BY GridTyped DEF GridMoved
<1>2. \A i \in 1..n : g[i].depth \in Int /\ h[i].depth = g[i].depth + offset
  BY <1>1, GridTyped DEF GridMoved
<1>3. ASSUME NEW i \in 2..n
      PROVE  h[i].depth = d + offset <=> g[i].depth = d
  <2>1. i \in 1..n
    BY <1>1
  <2>2. QED
    BY <1>2, <2>1
<1>4. CASE \E i \in 2..n : g[i].depth = d
  <2>1. PICK k, l : /\ k = CHOOSE i \in 2..n : g[i].depth = d
                    /\ l = CHOOSE i \in 2..n : h[i].depth = d + offset
    OBVIOUS
  <2>2. k \in 2..n /\ g[k].depth = d /\ l \in 2..n /\ g[l].depth = d
    BY <1>3, <1>4, <2>1
  <2>3. k = l
    <3>1. k \in 1..n /\ l \in 1..n
      BY <1>1, <2>2
    <3>2. k < l \/ l < k \/ k = l
      BY <3>1
    <3>3. ~(g[k].depth < g[l].depth) /\ ~(g[l].depth < g[k].depth)
      BY <2>2
    <3>4. QED
      BY <1>1, <3>1, <3>2, <3>3, GridTyped
  <2>4. gradAt(g, d) = Gradient(g, k)
    BY <1>1, <1>4, <2>1, Zenon DEF gradAt
  <2>5. \E i \in 2..n : h[i].depth = d + offset
    BY <1>3, <1>4
  <2>6. gradAt(h, d + offset) = Gradient(h, l)
    BY <1>1, <2>1, <2>5, Zenon DEF gradAt
  <2>7. Gradient(h, k) = Gradient(g, k)
    BY <1>1, <2>2, CandidatesStay
  <2>8. QED
    BY <2>3, <2>4, <2>6, <2>7
<1>5. CASE ~ \E i \in 2..n : g[i].depth = d
  <2>1. gradAt(g, d) = 0
    BY <1>1, <1>5 DEF gradAt
  <2>2. ~ \E i \in 2..n : h[i].depth = d + offset
    BY <1>3, <1>5
  <2>3. gradAt(h, d + offset) = 0
    BY <1>1, <2>2 DEF gradAt
  <2>4. QED
    BY <2>1, <2>3
<1>6. QED
  BY <1>4, <1>5

\* The segments move with the samples, and keep their jumps.
LEMMA DetectMoves ==
    ASSUME NEW g \in Grids, NEW h \in Grids, NEW offset \in Int, GridMoved(g, h, offset),
           Len(g) >= 2, NEW n \in Nat, n = Len(Boundaries(g)) - 1
    PROVE  /\ Len(Boundaries(h)) - 1 = n
           /\ \A i \in 1..n : /\ Detect(h)[i].top = Detect(g)[i].top + offset
                              /\ Detect(h)[i].bottom = Detect(g)[i].bottom + offset
                              /\ Detect(h)[i].jump = Detect(g)[i].jump
<1>1. PICK b, c : b = Boundaries(g) /\ c = Boundaries(h)
  OBVIOUS
<1>2. Len(h) >= 2
  BY DEF GridMoved
<1>3. b \in Seq(Int) /\ c = Lower(b, offset)
  BY <1>1, BoundariesAre, BoundariesMove
<1>4. /\ Len(c) = Len(b) /\ \A i \in 1..Len(b) : c[i] = b[i] + offset
      /\ \A i \in 1..Len(b) : b[i] \in Int
  BY <1>3, LowerIs
<1>5. Len(b) = n + 1 /\ Len(c) = n + 1
  BY <1>1, <1>3, <1>4, LenProperties
<1>6. ~(Len(g) < 2) /\ ~(Len(h) < 2)
  BY <1>2, GridTyped
<1>7. Detect(g) = [i \in 1..n |->
                 [top    |-> b[i],
                  bottom |-> b[i+1],
                  jump   |-> IF i = 1 THEN 0
                             ELSE Abs(gradAt(g, b[i]) - gradAt(g, b[i-1]))]]
  BY <1>1, <1>6 DEF Detect
<1>8. Detect(h) = [i \in 1..n |->
                 [top    |-> c[i],
                  bottom |-> c[i+1],
                  jump   |-> IF i = 1 THEN 0
                             ELSE Abs(gradAt(h, c[i]) - gradAt(h, c[i-1]))]]
  <2>1. Len(c) - 1 = n
    BY <1>5
  <2>2. QED
    BY <1>1, <1>6, <2>1 DEF Detect
<1>9. ASSUME NEW i \in 1..n
      PROVE  /\ Detect(h)[i].top = Detect(g)[i].top + offset
             /\ Detect(h)[i].bottom = Detect(g)[i].bottom + offset
             /\ Detect(h)[i].jump = Detect(g)[i].jump
  <2>1. i \in 1..Len(b) /\ i + 1 \in 1..Len(b)
    BY <1>5
  <2>2. c[i] = b[i] + offset /\ c[i+1] = b[i+1] + offset
    BY <1>4, <2>1
  <2>3. CASE i = 1
    BY <1>7, <1>8, <2>2, <2>3
  <2>4. CASE i # 1
    <3>1. i - 1 \in 1..Len(b)
      BY <2>1, <2>4
    <3>2. PICK d \in Int, e \in Int : d = b[i] /\ e = b[i-1]
      BY <1>4, <2>1, <3>1
    <3>3. c[i] = d + offset /\ c[i-1] = e + offset
      BY <1>4, <2>1, <3>1, <3>2
    <3>4. /\ gradAt(h, d + offset) = gradAt(g, d)
          /\ gradAt(h, e + offset) = gradAt(g, e)
      BY GradAtMoves
    <3>5. Detect(g)[i].jump = Abs(gradAt(g, d) - gradAt(g, e))
      BY <1>7, <2>4, <3>2
    <3>6. Detect(h)[i].jump = Abs(gradAt(h, c[i]) - gradAt(h, c[i-1]))
      BY <1>8, <2>4
    <3>7. Detect(h)[i].jump = Detect(g)[i].jump
      BY <3>3, <3>4, <3>5, <3>6, Zenon
    <3>8. QED
      BY <1>7, <1>8, <2>2, <3>7
  <2>5. QED
    BY <2>3, <2>4
<1>10. QED
  BY <1>1, <1>5, <1>9

\* Segments, each deeper by offset.
LowerSegs(stored, offset) ==
    [i \in DOMAIN stored |-> [stored[i] EXCEPT !.top = @ + offset, !.bottom = @ + offset]]

\* What is stored of the moved samples are the moved segments.
LEMMA ToModelMoves ==
    ASSUME NEW g \in Grids, NEW h \in Grids, NEW offset \in Int, GridMoved(g, h, offset)
    PROVE  ToModel(h) = LowerSegs(ToModel(g), offset)
<1>1. Len(g) \in Nat /\ Len(h) = Len(g)
  BY GridTyped DEF GridMoved
<1>2. CASE Len(g) < 2
  <2>1. ToModel(g) = <<>> /\ ToModel(h) = <<>>
    BY <1>1, <1>2, ToModelIs
  <2>2. LowerSegs(<<>>, offset) = <<>>
    BY DEF LowerSegs
  <2>3. QED
    BY <2>1, <2>2
<1>3. CASE Len(g) >= 2
  <2>1. PICK n \in Nat : n = Len(Boundaries(g)) - 1
    <3>1. Len(Boundaries(g)) - 1 \in Nat \ {0}
      BY <1>3, DetectIs
    <3>2. QED
      BY <3>1
  <2>2. PICK a, b : a = Detect(g) /\ b = Detect(h)
    OBVIOUS
  <2>3. /\ Len(Boundaries(h)) - 1 = n
        /\ \A i \in 1..n : /\ b[i].top = a[i].top + offset
                           /\ b[i].bottom = a[i].bottom + offset
                           /\ b[i].jump = a[i].jump
    BY <1>3, <2>1, <2>2, DetectMoves
  <2>4. DOMAIN a = 1..n /\ DOMAIN b = 1..n
    BY <1>1, <1>3, <2>1, <2>2, <2>3, DetectIs DEF Intervals
  <2>5. Classify(b) = Classify(a)
    <3>1. PICK xs : xs = [i \in DOMAIN a |-> a[i].jump]
      OBVIOUS
    <3>2. xs = [i \in DOMAIN b |-> b[i].jump]
      BY <2>3, <2>4, <3>1
    <3>3. Classify(a) = [i \in DOMAIN a |->
                            IF 4 * a[i].jump > 3 * TwiceMedian(xs) /\ a[i].jump > 0
                            THEN "anomaly" ELSE "stable"]
      BY <3>1, Zenon DEF Classify
    <3>4. Classify(b) = [i \in DOMAIN b |->
                            IF 4 * b[i].jump > 3 * TwiceMedian(xs) /\ b[i].jump > 0
                            THEN "anomaly" ELSE "stable"]
      BY <3>2, Zenon DEF Classify
    <3>5. QED
      BY <2>3, <2>4, <3>3, <3>4
  <2>6. /\ ToModel(g) = [i \in 1..n |-> [top |-> a[i].top, bottom |-> a[i].bottom,
                                         state |-> Classify(a)[i]]]
        /\ ToModel(h) = [i \in 1..n |-> [top |-> b[i].top, bottom |-> b[i].bottom,
                                         state |-> Classify(b)[i]]]
    BY <1>1, <1>3, <2>1, <2>2, <2>3, ToModelIs
  <2>7. PICK old, new : old = ToModel(g) /\ new = ToModel(h)
    OBVIOUS
  <2>8. ASSUME NEW i \in 1..n
        PROVE  new[i] = [old[i] EXCEPT !.top = @ + offset, !.bottom = @ + offset]
    <3>1. /\ old[i] = [top |-> a[i].top, bottom |-> a[i].bottom, state |-> Classify(a)[i]]
          /\ new[i] = [top |-> a[i].top + offset, bottom |-> a[i].bottom + offset,
                       state |-> Classify(a)[i]]
      BY <2>3, <2>5, <2>6, <2>7
    <3>2. PICK x, y, z : x = a[i].top /\ y = a[i].bottom /\ z = Classify(a)[i]
      OBVIOUS
    <3>3. PICK r : r = [top |-> x, bottom |-> y, state |-> z]
      OBVIOUS
    <3>4. [r EXCEPT !.top = @ + offset, !.bottom = @ + offset] =
             [top |-> x + offset, bottom |-> y + offset, state |-> z]
      <4>1. r \in [top : {x}, bottom : {y}, state : {z}]
        BY <3>3
      <4>2. PICK moved : moved = [r EXCEPT !.top = @ + offset, !.bottom = @ + offset]
        OBVIOUS
      <4>3. moved \in [top : {x + offset}, bottom : {y + offset}, state : {z}]
        BY <4>1, <4>2
      <4>4. moved = [top |-> x + offset, bottom |-> y + offset, state |-> z]
        BY <4>3
      <4>5. QED
        BY <4>2, <4>4
    <3>5. old[i] = r /\ new[i] = [top |-> x + offset, bottom |-> y + offset, state |-> z]
      BY <3>1, <3>2, <3>3, Zenon
    <3>6. QED
      BY <3>4, <3>5, Zenon
  <2>9. DOMAIN old = 1..n /\ new = [i \in 1..n |-> new[i]]
    BY <2>6, <2>7
  <2>10. LowerSegs(old, offset) = [i \in 1..n |-> new[i]]
    BY <2>8, <2>9 DEF LowerSegs
  <2>11. QED
    BY <2>7, <2>9, <2>10
<1>4. QED
  BY <1>1, <1>2, <1>3

\* Moving a run by any offset moves its segments by it and keeps their states.
THEOREM LayeringAlwaysShifts == Spec => []LayeringShifts
<1>1. LayerInv /\ Uncorrected => LayeringShifts
  <2> SUFFICES ASSUME LayerInv, Uncorrected,
                      NEW q, q = Apply(profile, Shift), VerifyMonotonic(q)
               PROVE  ToModel(Resample(q)) = LowerSegs(segs, Shift)
    BY DEF LayeringShifts, LowerSegs
  <2>1. profile \in Profiles /\ Shift \in Int
    BY InputsAssumption DEF LayerInv
  <2>2. /\ q \in Profiles
        /\ ValidRows(q) = ValidRows(profile)
        /\ \A s \in ValidRows(q) : /\ q[s].cal = profile[s].cal + Shift
                                   /\ q[s].temp = profile[s].temp
    BY <2>1, CorrectionMoves
  <2>3. PointsMoved(ValidPoints(profile), ValidPoints(q), Shift)
    BY <2>1, <2>2, ValidPointsMove
  <2>4. GridMoved(Resample(profile), Resample(q), Shift)
    BY <2>1, <2>2, <2>3, ResampleMoves
  <2>5. Resample(profile) \in Grids /\ Resample(q) \in Grids
    BY <2>1, <2>2, ResampleGrid
  <2>6. segs = ToModel(Resample(profile))
    BY DEF LayerInv
  <2>7. QED
    BY <2>1, <2>4, <2>5, <2>6, ToModelMoves
<1>2. QED
  BY <1>1, LayerInvariant, ProfilesStayUncorrected, PTL
=============================================================================
