-------------------------- MODULE ComparisonProofs --------------------------
(***************************************************************************)
(* What Compare computes, for boundary lists of any length. The matches of *)
(* a baseline are a function defined by recursion; that it exists, and     *)
(* what holds of it, follows by induction from the least-number principle, *)
(* stated here for sets so that it can be cited.                           *)
(***************************************************************************)
EXTENDS Comparison, SequenceTheorems, WellFoundedInduction, TLAPS

-----------------------------------------------------------------------------
(* Induction *)

LEMMA Least ==
    ASSUME NEW T \in SUBSET Nat, T # {}
    PROVE  \E m \in T : \A k \in T : m <= k
<1> DEFINE R == OpToRel(<, Nat)
<1>1. IsWellFoundedOn(R, Nat)
  BY NatLessThanWellFounded
<1> HIDE DEF R
<1>2. PICK m \in T : \A k \in T : ~(<<k, m>> \in R)
  BY <1>1, WFMin
<1>3. \A k \in T : ~(k < m)
  BY <1>2 DEF R, OpToRel
<1>4. QED
  BY <1>3

LEMMA Counting ==
    ASSUME NEW T, 0 \in T, \A n \in Nat : n \in T => n + 1 \in T
    PROVE  Nat \subseteq T
<1> SUFFICES ASSUME NEW n \in Nat, n \notin T PROVE FALSE
  OBVIOUS
<1>1. PICK m \in Nat \ T : \A k \in Nat \ T : m <= k
  BY Least
<1>2. m # 0 /\ m - 1 \in Nat /\ ~(m <= m - 1)
  BY <1>1
<1>3. m - 1 \in T
  BY <1>1, <1>2
<1>4. QED
  BY <1>2, <1>3

-----------------------------------------------------------------------------
(* The matches, from one boundary to the next *)

\* The target boundary a baseline boundary takes, while the used ones are gone.
Counterpart(target, used, depth) ==
    LET near == {i \in NearestFree(target, DOMAIN target \ used, depth) :
                    Distance(target[i], depth) <= Reach}
    IN  IF near = {} THEN 0 ELSE CHOOSE i \in near : TRUE

\* The matches of the first n baseline boundaries, from those of the first n - 1.
Extended(baseline, target, f, n) ==
    IF n = 0 THEN <<>>
    ELSE Append(f[n-1], Counterpart(target, Range(f[n-1]), baseline[n]))

\* f gives the matches of the first n baseline boundaries, for n up to m.
MatchesUpTo(baseline, target, f, m) ==
    f = [n \in 0..m |-> Extended(baseline, target, f, n)]

\* There is such a function.
LEMMA MatchesExist ==
    ASSUME NEW baseline, NEW target, NEW m \in Nat
    PROVE  \E f : MatchesUpTo(baseline, target, f, m)
<1> DEFINE T == {n \in Nat : \E f : MatchesUpTo(baseline, target, f, n)}
<1>1. 0 \in T
  <2> DEFINE f == [n \in 0..0 |-> <<>>]
  <2>1. \A n \in 0..0 : Extended(baseline, target, f, n) = <<>>
    BY DEF Extended
  <2>2. MatchesUpTo(baseline, target, f, 0)
    BY <2>1 DEF MatchesUpTo
  <2>3. QED
    BY <2>2
<1>2. ASSUME NEW n \in Nat, n \in T
      PROVE  n + 1 \in T
  <2>1. PICK f : MatchesUpTo(baseline, target, f, n)
    BY <1>2
  <2> DEFINE g == [k \in 0..(n + 1) |-> IF k = n + 1 THEN Extended(baseline, target, f, n + 1)
                                        ELSE f[k]]
  <2>2. \A k \in 0..(n + 1) : k # 0 => g[k-1] = f[k-1]
    OBVIOUS
  <2>3. ASSUME NEW k \in 0..(n + 1)
        PROVE  g[k] = Extended(baseline, target, g, k)
    <3>1. Extended(baseline, target, g, k) = Extended(baseline, target, f, k)
      BY <2>2 DEF Extended
    <3>2. k # n + 1 => f[k] = Extended(baseline, target, f, k)
      BY <2>1 DEF MatchesUpTo
    <3>3. QED
      BY <3>1, <3>2
  <2>4. g = [k \in 0..(n + 1) |-> g[k]]
    OBVIOUS
  <2> HIDE DEF g
  <2>5. MatchesUpTo(baseline, target, g, n + 1)
    BY <2>3, <2>4 DEF MatchesUpTo
  <2>6. QED
    BY <2>5
<1>3. Nat \subseteq T
  BY <1>1, <1>2, Counting
<1>4. QED
  BY <1>3

\* Matches is its last value.
LEMMA MatchesAre ==
    ASSUME NEW baseline \in Seq(Int), NEW target \in Seq(Int)
    PROVE  \E f : /\ MatchesUpTo(baseline, target, f, Len(baseline))
                  /\ Matches(baseline, target) = f[Len(baseline)]
<1> DEFINE f == CHOOSE g : MatchesUpTo(baseline, target, g, Len(baseline))
<1>1. MatchesUpTo(baseline, target, f, Len(baseline))
  <2>1. Len(baseline) \in Nat
    OBVIOUS
  <2>2. QED
    BY <2>1, MatchesExist
<1>2. f = CHOOSE g : g = [n \in 0..Len(baseline) |-> Extended(baseline, target, g, n)]
  BY DEF MatchesUpTo
<1>3. Matches(baseline, target) = f[Len(baseline)]
  BY <1>2, Zenon DEF Matches, Extended, Counterpart
<1>4. QED
  BY <1>1, <1>3

\* What holds of the matches of no boundary, and of those of n + 1 when it holds
\* of those of n, holds of all: the members of holds[n] are the sequences of
\* length n it holds of.
LEMMA MatchesByInduction ==
    ASSUME NEW baseline \in Seq(Int), NEW target \in Seq(Int), NEW holds,
           <<>> \in holds[0],
           \A n \in 0..(Len(baseline) - 1) : \A match \in holds[n] :
               Append(match, Counterpart(target, Range(match), baseline[n+1]))
                   \in holds[n+1]
    PROVE  Matches(baseline, target) \in holds[Len(baseline)]
<1>1. PICK f : /\ MatchesUpTo(baseline, target, f, Len(baseline))
               /\ Matches(baseline, target) = f[Len(baseline)]
  BY MatchesAre
<1>2. Len(baseline) \in Nat
  OBVIOUS
<1>3. \A n \in 0..Len(baseline) : f[n] = Extended(baseline, target, f, n)
  BY <1>1 DEF MatchesUpTo
<1> DEFINE T == {n \in Nat : n <= Len(baseline) => f[n] \in holds[n]}
<1>4. 0 \in T
  <2>1. f[0] = <<>>
    BY <1>2, <1>3 DEF Extended
  <2>2. QED
    BY <2>1
<1>5. ASSUME NEW n \in Nat, n \in T
      PROVE  n + 1 \in T
  <2> SUFFICES ASSUME n + 1 <= Len(baseline)
               PROVE  f[n+1] \in holds[n+1]
    OBVIOUS
  <2>1. f[n] \in holds[n] /\ n \in 0..(Len(baseline) - 1) /\ n + 1 \in 0..Len(baseline)
    BY <1>2, <1>5
  <2>2. f[n+1] = Append(f[n], Counterpart(target, Range(f[n]), baseline[n+1]))
    <3>1. f[n+1] = Extended(baseline, target, f, n + 1)
      BY <1>3, <2>1
    <3>2. (n + 1) - 1 = n /\ n + 1 # 0
      OBVIOUS
    <3>3. QED
      BY <3>1, <3>2 DEF Extended
  <2>3. QED
    BY <2>1, <2>2
<1>6. Nat \subseteq T
  BY <1>4, <1>5, Counting
<1>7. QED
  BY <1>1, <1>2, <1>6

-----------------------------------------------------------------------------
(* One choice *)

LEMMA Distances ==
    ASSUME NEW d \in Int, NEW e \in Int
    PROVE  Distance(d, e) \in Nat
BY DEF Distance

LEMMA NearestExists ==
    ASSUME NEW target \in Seq(Int), NEW free \in SUBSET DOMAIN target, free # {},
           NEW depth \in Int
    PROVE  NearestFree(target, free, depth) # {}
<1>1. /\ DOMAIN target = 1..Len(target) /\ Len(target) \in Nat
      /\ \A i \in DOMAIN target : target[i] \in Int
  OBVIOUS
<1> DEFINE far == {Distance(target[i], depth) : i \in free}
<1>2. far \in SUBSET Nat /\ far # {}
  BY <1>1, Distances
<1>3. PICK m \in far : \A k \in far : m <= k
  BY <1>2, Least
<1> DEFINE nearest == {i \in free : Distance(target[i], depth) = m}
<1>4. nearest \in SUBSET Nat /\ nearest # {}
  BY <1>1, <1>3
<1>5. PICK i \in nearest : \A j \in nearest : i <= j
  BY <1>4, Least
<1>6. ASSUME NEW j \in free
      PROVE  \/ Distance(target[i], depth) < Distance(target[j], depth)
             \/ Distance(target[i], depth) = Distance(target[j], depth) /\ i <= j
  <2>1. m <= Distance(target[j], depth) /\ Distance(target[j], depth) \in Nat /\ m \in Nat
    BY <1>2, <1>3
  <2>2. CASE m = Distance(target[j], depth)
    BY <1>5, <2>2
  <2>3. CASE m # Distance(target[j], depth)
    BY <1>5, <2>1, <2>3
  <2>4. QED
    BY <2>2, <2>3
<1>7. i \in NearestFree(target, free, depth)
  BY <1>5, <1>6 DEF NearestFree
<1>8. QED
  BY <1>7

\* A baseline boundary takes the nearest free target boundary when that is
\* within reach, and none only when no free one is.
LEMMA Choice ==
    ASSUME NEW target \in Seq(Int), NEW used, NEW depth \in Int
    PROVE  LET i == Counterpart(target, used, depth)
           IN  \/ /\ i \in DOMAIN target \ used
                  /\ i \in NearestFree(target, DOMAIN target \ used, depth)
                  /\ Distance(target[i], depth) <= Reach
               \/ /\ i = 0
                  /\ \A j \in DOMAIN target :
                        Distance(target[j], depth) <= Reach => j \in used
<1> DEFINE i    == Counterpart(target, used, depth)
           free == DOMAIN target \ used
           near == {j \in NearestFree(target, free, depth) :
                       Distance(target[j], depth) <= Reach}
<1>1. i = IF near = {} THEN 0 ELSE CHOOSE j \in near : TRUE
  BY DEF Counterpart
<1>2. CASE near # {}
  <2>1. i \in near
    BY <1>1, <1>2
  <2>2. QED
    BY <2>1 DEF NearestFree
<1>3. CASE near = {}
  <2> SUFFICES ASSUME NEW j \in free, Distance(target[j], depth) <= Reach
               PROVE  FALSE
    BY <1>1, <1>3
  <2>1. PICK k : k \in NearestFree(target, free, depth)
    BY NearestExists
  <2>2. Distance(target[k], depth) \in Nat /\ Distance(target[j], depth) \in Nat
    <3>1. k \in free
      BY <2>1 DEF NearestFree
    <3>2. target[k] \in Int /\ target[j] \in Int
      BY <3>1
    <3>3. QED
      BY <3>2, Distances
  <2>3. Distance(target[k], depth) <= Distance(target[j], depth) /\ Reach \in Nat
    BY <2>1, <2>2, ComparisonAssumption DEF NearestFree, Reach
  <2>4. k \in near
    BY <2>1, <2>2, <2>3
  <2>5. QED
    BY <1>3, <2>4
<1>4. QED
  BY <1>2, <1>3

-----------------------------------------------------------------------------
(* The matching *)

\* The matches of the first n boundaries of the baseline: no target boundary is
\* taken twice, and none that is in reach of a vanished boundary is left.
Sound(baseline, target, match, n) ==
    /\ match \in [1..n -> 0..Len(target)]
    /\ \A j, k \in 1..n : match[j] = match[k] /\ match[j] # 0 => j = k
    /\ \A k \in 1..n : \A i \in DOMAIN target :
          match[k] = 0 /\ Distance(target[i], baseline[k]) <= Reach => i \in Range(match)

\* more is the sequence match of length n, and x after it.
Lengthened(more, match, n, x) ==
    /\ more \in [1..(n+1) -> Range(match) \cup {x}]
    /\ more[n+1] = x
    /\ \A k \in 1..n : more[k] = match[k]
    /\ Range(more) = Range(match) \cup {x}

LEMMA Appended ==
    ASSUME NEW n \in Nat, NEW S, NEW match \in [1..n -> S], NEW x
    PROVE  Lengthened(Append(match, x), match, n, x)
<1>1. match \in Seq(S \cup {x}) /\ Len(match) = n
  BY SeqDef
<1> DEFINE more == Append(match, x)
<1>2. /\ more \in Seq(S \cup {x}) /\ Len(more) = n + 1
      /\ more[n+1] = x
      /\ \A k \in 1..n : more[k] = match[k]
  BY <1>1, AppendProperties
<1>3. more \in [1..(n+1) -> S \cup {x}]
  <2>1. PICK X : X = S \cup {x}
    OBVIOUS
  <2> HIDE DEF more
  <2>2. more \in [1..Len(more) -> X]
    BY <1>2, <2>1, LenProperties
  <2>3. QED
    BY <1>2, <2>1, <2>2
<1> HIDE DEF more
<1>4. DOMAIN more = 1..(n+1) /\ more = [k \in 1..(n+1) |-> more[k]]
  BY <1>3
<1>5. Range(more) = Range(match) \cup {x}
  <2>1. DOMAIN more = 1..n \cup {n + 1} /\ DOMAIN match = 1..n
    BY <1>4
  <2>2. QED
    BY <1>2, <2>1 DEF Range
<1>6. more \in [1..(n+1) -> Range(match) \cup {x}]
  BY <1>4, <1>5 DEF Range
<1>7. QED
  BY <1>2, <1>5, <1>6 DEF more, Lengthened

\* One more choice keeps the matching sound.
LEMMA SoundStep ==
    ASSUME NEW baseline \in Seq(Int), NEW target \in Seq(Int),
           NEW n \in 0..(Len(baseline) - 1), NEW match, Sound(baseline, target, match, n)
    PROVE  Sound(baseline, target,
                 Append(match, Counterpart(target, Range(match), baseline[n+1])), n + 1)
<1>1. PICK c : c = Counterpart(target, Range(match), baseline[n+1])
  OBVIOUS
<1>2. PICK more : more = Append(match, c)
  OBVIOUS
<1>3. n \in Nat /\ Len(target) \in Nat /\ DOMAIN target = 1..Len(target)
  OBVIOUS
<1>4. Lengthened(more, match, n, c)
  <2>1. PICK S : match \in [1..n -> S]
    BY DEF Sound
  <2>2. QED
    BY <1>2, <1>3, <2>1, Appended
<1>5. \/ c \in DOMAIN target \ Range(match)
      \/ c = 0 /\ \A i \in DOMAIN target :
                     Distance(target[i], baseline[n+1]) <= Reach => i \in Range(match)
  <2>1. PICK depth \in Int : depth = baseline[n+1]
    OBVIOUS
  <2>2. PICK used : used = Range(match)
    OBVIOUS
  <2>3. c = Counterpart(target, used, depth)
    BY <1>1, <2>1, <2>2
  <2>4. \/ c \in DOMAIN target \ used
        \/ c = 0 /\ \A i \in DOMAIN target : Distance(target[i], depth) <= Reach => i \in used
    BY <2>3, Choice
  <2>5. QED
    BY <2>1, <2>2, <2>4
<1>6. more \in [1..(n+1) -> 0..Len(target)]
  <2>1. Range(match) \cup {c} \subseteq 0..Len(target)
    BY <1>3, <1>5 DEF Sound, Range
  <2>2. QED
    BY <1>4, <2>1 DEF Lengthened
<1>7. ASSUME NEW j \in 1..(n+1), NEW k \in 1..(n+1), more[j] = more[k], more[j] # 0
      PROVE  j = k
  <2>1. \A i \in 1..n : match[i] \in Range(match)
    BY DEF Sound, Range
  <2>2. \A i \in 1..(n+1) : i = n + 1 \/ i \in 1..n
    BY <1>3
  <2>3. c # 0 => c \notin Range(match)
    BY <1>3, <1>5
  <2>4. CASE j \in 1..n /\ k \in 1..n
    BY <1>4, <1>7, <2>4 DEF Sound, Lengthened
  <2>5. QED
    BY <1>4, <1>7, <2>1, <2>2, <2>3, <2>4 DEF Lengthened
<1>8. ASSUME NEW k \in 1..(n+1), NEW i \in DOMAIN target,
             more[k] = 0, Distance(target[i], baseline[k]) <= Reach
      PROVE  i \in Range(more)
  <2>1. CASE k = n + 1
    BY <1>3, <1>4, <1>5, <1>8, <2>1 DEF Lengthened
  <2>2. CASE k # n + 1
    <3>1. k \in 1..n /\ match[k] = 0
      BY <1>3, <1>4, <1>8, <2>2 DEF Lengthened
    <3>2. i \in Range(match)
      BY <1>8, <3>1 DEF Sound
    <3>3. QED
      BY <1>4, <3>2 DEF Lengthened
  <2>3. QED
    BY <2>1, <2>2
<1>9. Sound(baseline, target, more, n + 1)
  BY <1>6, <1>7, <1>8 DEF Sound
<1>10. QED
  BY <1>1, <1>2, <1>9

\* What Compare may rely on, for any two lists of boundaries.
LEMMA MatchesSound ==
    ASSUME NEW baseline \in Seq(Int), NEW target \in Seq(Int)
    PROVE  Sound(baseline, target, Matches(baseline, target), Len(baseline))
<1>1. PICK N : N = Len(baseline)
  OBVIOUS
<1> DEFINE holds == [n \in 0..N |->
                       {match \in [1..n -> 0..Len(target)] : Sound(baseline, target, match, n)}]
<1>2. N \in Nat
  BY <1>1
<1>3. <<>> \in holds[0]
  <2>1. <<>> \in [1..0 -> 0..Len(target)]
    OBVIOUS
  <2>2. Sound(baseline, target, <<>>, 0)
    BY <2>1 DEF Sound
  <2>3. QED
    BY <1>2, <2>1, <2>2
<1>4. ASSUME NEW n \in 0..(N - 1), NEW match \in holds[n]
      PROVE  Append(match, Counterpart(target, Range(match), baseline[n+1])) \in holds[n+1]
  <2>1. PICK more : more = Append(match, Counterpart(target, Range(match), baseline[n+1]))
    OBVIOUS
  <2>2. Sound(baseline, target, match, n)
    BY <1>2, <1>4
  <2>3. Sound(baseline, target, more, n + 1)
    BY <1>1, <2>1, <2>2, SoundStep
  <2>4. more \in holds[n+1]
    BY <1>2, <2>3 DEF Sound
  <2>5. QED
    BY <2>1, <2>4
<1> HIDE DEF holds
<1>5. Matches(baseline, target) \in holds[N]
  BY <1>1, <1>3, <1>4, MatchesByInduction
<1>6. QED
  BY <1>1, <1>2, <1>5 DEF holds

\* The movements Compare reports are numbers, and are only reported as not a
\* number where a boundary vanished.
LEMMA CompareTyped ==
    ASSUME NEW baseline \in Seq(Int), NEW target \in Seq(Int),
           BuildDetailSucceeds(Compare(baseline, target))
    PROVE  Compare(baseline, target)
             \in Seq([baseline : Int, target : Int, delta : Int, anomaly : BOOLEAN])
<1> DEFINE match == Matches(baseline, target)
           moves == Compare(baseline, target)
           Move  == [baseline : Int, target : Int, delta : Int, anomaly : BOOLEAN]
<1>1. moves = [n \in DOMAIN baseline |->
                  IF match[n] = 0 THEN VanishedMovement(baseline[n])
                                  ELSE Movement(baseline[n], target[match[n]])]
  BY DEF Compare
<1>2. Sound(baseline, target, match, Len(baseline))
  BY MatchesSound
<1>3. DOMAIN baseline = 1..Len(baseline) /\ Len(baseline) \in Nat
  OBVIOUS
<1> HIDE DEF match
<1>4. ASSUME NEW n \in DOMAIN baseline
      PROVE  moves[n] \in Move
  <2>1. match[n] # 0
    <3>1. moves[n].delta # NaN
      BY <1>1 DEF BuildDetailSucceeds
    <3>2. match[n] = 0 => moves[n].delta = NaN
      BY <1>1 DEF VanishedMovement
    <3>3. QED
      BY <3>1, <3>2
  <2>2. match[n] \in 1..Len(target)
    BY <1>2, <1>3, <2>1 DEF Sound
  <2>3. PICK d \in Int, e \in Int : d = baseline[n] /\ e = target[match[n]]
    BY <2>2
  <2>4. Movement(d, e) \in Move
    BY DEF Movement
  <2>5. QED
    BY <1>1, <2>1, <2>3, <2>4
<1>5. moves \in [1..Len(baseline) -> Move]
  <2>1. moves = [n \in 1..Len(baseline) |-> moves[n]]
    BY <1>1, <1>3
  <2> HIDE DEF moves, Move
  <2>2. QED
    BY <1>3, <1>4, <2>1
<1> HIDE DEF moves, Move
<1>6. moves \in Seq(Move)
  <2>1. PICK n \in Nat : n = Len(baseline)
    BY <1>3
  <2>2. moves \in [1..n -> Move]
    BY <1>5, <2>1
  <2>3. QED
    BY <2>2, SeqDef
<1>7. QED
  BY <1>6 DEF moves, Move

-----------------------------------------------------------------------------
(* A list and its copy *)

\* target is baseline moved by shift, which is less than half its spacing.
Moved(baseline, target, shift) ==
    /\ Len(target) = Len(baseline)
    /\ \A n \in DOMAIN baseline : target[n] = baseline[n] + shift
    /\ \A n \in 2..Len(baseline) : 2 * Distance(shift, 0) < baseline[n] - baseline[n-1]

\* Boundaries that are not neighbours are at least as far apart.
LEMMA Spaced ==
    ASSUME NEW baseline \in Seq(Int), NEW gap \in Nat,
           \A n \in 2..Len(baseline) : gap < baseline[n] - baseline[n-1],
           NEW j \in 1..Len(baseline), NEW k \in 1..Len(baseline), j < k
    PROVE  gap < baseline[k] - baseline[j]
<1>1. Len(baseline) \in Nat /\ \A n \in 1..Len(baseline) : baseline[n] \in Int
  OBVIOUS
<1> DEFINE T == {n \in Nat : j < n /\ n <= Len(baseline) => gap < baseline[n] - baseline[j]}
<1>2. 0 \in T
  OBVIOUS
<1>3. ASSUME NEW n \in Nat, n \in T
      PROVE  n + 1 \in T
  <2> SUFFICES ASSUME j < n + 1, n + 1 <= Len(baseline)
               PROVE  gap < baseline[n+1] - baseline[j]
    OBVIOUS
  <2>1. n + 1 \in 2..Len(baseline) /\ (n + 1) - 1 = n /\ n \in 1..Len(baseline)
    BY <1>1
  <2>2. gap < baseline[n+1] - baseline[n]
    BY <2>1
  <2>3. baseline[n+1] \in Int /\ baseline[n] \in Int /\ baseline[j] \in Int
    BY <1>1, <2>1
  <2>4. n = j \/ gap < baseline[n] - baseline[j]
    BY <1>1, <1>3
  <2>5. QED
    BY <2>2, <2>3, <2>4
<1>4. Nat \subseteq T
  BY <1>2, <1>3, Counting
<1>5. QED
  BY <1>4

\* The nearest boundary to one that moved is the one it became, also among the
\* boundaries below it.
LEMMA MovedNearest ==
    ASSUME NEW baseline \in Seq(Int), NEW target \in Seq(Int), NEW shift \in Int,
           Moved(baseline, target, shift), Distance(shift, 0) <= Reach,
           NEW n \in DOMAIN baseline
    PROVE  Counterpart(target, 1..(n - 1), baseline[n]) = n
<1> DEFINE free == DOMAIN target \ (1..(n - 1))
           near == {i \in NearestFree(target, free, baseline[n]) :
                       Distance(target[i], baseline[n]) <= Reach}
<1>1. /\ DOMAIN target = 1..Len(baseline) /\ DOMAIN baseline = 1..Len(baseline)
      /\ Len(baseline) \in Nat
      /\ \A k \in 1..Len(baseline) : baseline[k] \in Int
  BY DEF Moved
<1>2. n \in free /\ \A k \in free : k = n \/ n < k
  BY <1>1
<1>3. Distance(target[n], baseline[n]) = Distance(shift, 0) /\ Distance(shift, 0) \in Nat
  <2>1. target[n] = baseline[n] + shift /\ baseline[n] \in Int
    BY <1>1 DEF Moved
  <2>2. QED
    BY <2>1 DEF Distance
<1>4. ASSUME NEW k \in free, k # n
      PROVE  Distance(shift, 0) < Distance(target[k], baseline[n])
  <2>1. n < k /\ k \in 1..Len(baseline)
    BY <1>1, <1>2, <1>4
  <2>2. 2 * Distance(shift, 0) < baseline[k] - baseline[n]
    <3>1. PICK gap \in Nat : gap = 2 * Distance(shift, 0)
      BY <1>3
    <3>2. \A m \in 2..Len(baseline) : gap < baseline[m] - baseline[m-1]
      BY <3>1 DEF Moved
    <3>3. QED
      BY <1>1, <2>1, <3>1, <3>2, Spaced
  <2>3. target[k] = baseline[k] + shift /\ baseline[k] \in Int /\ baseline[n] \in Int
    BY <1>1, <2>1 DEF Moved
  <2>4. \A a, b \in Int : 2 * Distance(shift, 0) < b - a =>
                            Distance(shift, 0) < Distance(b + shift, a)
    BY DEF Distance
  <2>5. QED
    BY <2>2, <2>3, <2>4
<1> HIDE DEF free
<1>5. NearestFree(target, free, baseline[n]) = {n}
  <2>1. n \in NearestFree(target, free, baseline[n])
    BY <1>1, <1>2, <1>3, <1>4 DEF NearestFree
  <2>2. ASSUME NEW k \in free, k # n
        PROVE  k \notin NearestFree(target, free, baseline[n])
    <3>1. target[k] \in Int /\ baseline[n] \in Int
      BY <1>1 DEF free
    <3>2. /\ Distance(target[k], baseline[n]) \in Nat
          /\ Distance(shift, 0) < Distance(target[k], baseline[n])
      BY <1>4, <2>2, <3>1, Distances
    <3>3. n \in free /\ ~(Distance(target[k], baseline[n]) < Distance(target[n], baseline[n]))
             /\ Distance(target[k], baseline[n]) # Distance(target[n], baseline[n])
      BY <1>2, <1>3, <3>2
    <3>4. QED
      BY <3>3 DEF NearestFree
  <2>3. QED
    BY <2>1, <2>2 DEF NearestFree
<1>6. near = {n}
  BY <1>3, <1>5
<1>7. Counterpart(target, 1..(n - 1), baseline[n]) = CHOOSE i \in near : TRUE
  BY <1>6 DEF Counterpart, free
<1>8. QED
  BY <1>6, <1>7

\* Each boundary is matched with its copy.
LEMMA MovedMatches ==
    ASSUME NEW baseline \in Seq(Int), NEW target \in Seq(Int), NEW shift \in Int,
           Moved(baseline, target, shift), Distance(shift, 0) <= Reach
    PROVE  \A n \in DOMAIN baseline : Matches(baseline, target)[n] = n
<1>1. PICK N : N = Len(baseline)
  OBVIOUS
<1>2. N \in Nat /\ DOMAIN baseline = 1..N
  BY <1>1
<1> DEFINE holds == [n \in 0..N |-> {match \in [1..n -> 1..n] : \A k \in 1..n : match[k] = k}]
<1>3. <<>> \in holds[0]
  BY <1>2
<1>4. ASSUME NEW n \in 0..(N - 1), NEW match \in holds[n]
      PROVE  Append(match, Counterpart(target, Range(match), baseline[n+1])) \in holds[n+1]
  <2>1. PICK c : c = Counterpart(target, Range(match), baseline[n+1])
    OBVIOUS
  <2>2. PICK more : more = Append(match, c)
    OBVIOUS
  <2>3. n \in Nat /\ n + 1 \in 0..N /\ n + 1 \in DOMAIN baseline /\ (n + 1) - 1 = n
    BY <1>2
  <2>4. match \in [1..n -> 1..n] /\ \A k \in 1..n : match[k] = k
    BY <1>2
  <2>5. Range(match) = 1..n
    BY <2>4 DEF Range
  <2>6. c = n + 1
    BY <2>1, <2>3, <2>5, MovedNearest
  <2>7. Lengthened(more, match, n, n + 1)
    <3>1. PICK S : match \in [1..n -> S]
      BY <2>4
    <3>2. QED
      BY <2>2, <2>3, <2>6, <3>1, Appended
  <2>8. \A k \in 1..(n + 1) : more[k] = k
    BY <2>3, <2>4, <2>7 DEF Lengthened
  <2>9. more \in [1..(n + 1) -> 1..(n + 1)]
    <3>1. Range(match) \cup {n + 1} = 1..(n + 1)
      BY <2>3, <2>5
    <3>2. QED
      BY <2>7, <3>1 DEF Lengthened
  <2>10. more \in holds[n+1]
    BY <2>3, <2>8, <2>9
  <2>11. QED
    BY <2>1, <2>2, <2>10
<1> HIDE DEF holds
<1>5. Matches(baseline, target) \in holds[N]
  BY <1>1, <1>3, <1>4, MatchesByInduction
<1>6. QED
  BY <1>2, <1>5 DEF holds

LEMMA Anomalous ==
    ASSUME NEW d, NEW e
    PROVE  Movement(d, e).anomaly = (Distance(e, d) > DepthDeltaMax)
BY Zenon DEF Movement

\* Compare reports the shift, and an anomaly exactly when it is too large.
LEMMA MovedCompare ==
    ASSUME NEW baseline \in Seq(Int), NEW target \in Seq(Int), NEW shift \in Int,
           Moved(baseline, target, shift), Distance(shift, 0) <= Reach,
           NEW n \in DOMAIN baseline
    PROVE  /\ Compare(baseline, target)[n].delta = shift
           /\ Compare(baseline, target)[n].anomaly <=> Distance(shift, 0) > DepthDeltaMax
<1>1. Compare(baseline, target)[n] = Movement(baseline[n], target[n])
  BY MovedMatches DEF Compare
<1>2. target[n] = baseline[n] + shift /\ baseline[n] \in Int
  BY DEF Moved
<1>3. Distance(target[n], baseline[n]) = Distance(shift, 0)
  BY <1>2 DEF Distance
<1>4. Compare(baseline, target)[n].delta = target[n] - baseline[n]
  BY <1>1 DEF Movement
<1>5. Compare(baseline, target)[n].anomaly =
        (Distance(target[n], baseline[n]) > DepthDeltaMax)
  BY <1>1, Anomalous, Zenon
<1>6. target[n] - baseline[n] = shift
  BY <1>2
<1>7. QED
  BY <1>3, <1>4, <1>5, <1>6, Zenon
=============================================================================
