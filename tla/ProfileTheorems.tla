--------------------------- MODULE ProfileTheorems --------------------------
(***************************************************************************)
(* Facts about the operators of Profile, for every set of seq numbers and  *)
(* every value of the other parameters: what they return is a profile, and *)
(* a correction keeps the readings it does not compute.                    *)
(***************************************************************************)
EXTENDS Profile, SequenceTheorems, TLAPS

\* The record types the corrections of internal/datum and the plans of
\* internal/calibrate have.
Correction == [offset : Int, basis : Int, disturbance : BOOLEAN]

Plan == [offset : Int, scale : Int]

\* A stored row is a point.
LEMMA RowIsPoint ==
    ASSUME NEW p \in Profiles, NEW s \in Rows(p)
    PROVE  p[s] \in Point
BY DEF Profiles, Rows

\* The profile without rows is a profile.
LEMMA EmptyProfileType == EmptyProfile \in Profiles
BY DEF EmptyProfile, Profiles

\* INSERT ... ON CONFLICT DO UPDATE of a profile into a profile gives a profile.
LEMMA UpsertType ==
    ASSUME NEW p \in Profiles, NEW q \in Profiles
    PROVE  Upsert(p, q) \in Profiles
BY DEF Upsert, Profiles

\* The conversion of a batch gives a profile.
LEMMA ToMeasurePointsType ==
    ASSUME NEW batch \in Seq(RawPoint)
    PROVE  ToMeasurePoints(batch) \in Profiles
<1>1. ASSUME NEW b \in RawPoint
      PROVE  ToMeasurePoint(b) \in Point
  BY <1>1 DEF ToMeasurePoint, RawPoint, Point, PointStates
<1>2. ASSUME NEW s \in Seqs, \E i \in DOMAIN batch : batch[i].seq = s
      PROVE  batch[CHOOSE i \in DOMAIN batch : batch[i].seq = s] \in RawPoint
  BY <1>2
<1>3. QED
  BY <1>1, <1>2 DEF ToMeasurePoints, Profiles

\* A datum correction gives a profile.
LEMMA ApplyType ==
    ASSUME NEW p \in Profiles, NEW offset \in Int
    PROVE  Apply(p, offset) \in Profiles
<1>1. ASSUME NEW s \in Seqs, p[s] # NoRow
      PROVE  /\ p[s] \in Point
             /\ p[s].raw + offset \in Int
  BY <1>1 DEF Profiles, Point
<1>2. ASSUME NEW s \in Seqs
      PROVE  Apply(p, offset)[s] \in Point \cup {NoRow}
  <2>1. CASE p[s] = NoRow
    BY <2>1 DEF Apply
  <2>2. CASE p[s] # NoRow
    BY <2>2, <1>1 DEF Apply, Point, PointStates
  <2>3. QED
    BY <2>1, <2>2
<1>3. QED
  BY <1>2 DEF Apply, Profiles

\* A calibration plan gives a profile.
LEMMA ApplyPointsType ==
    ASSUME NEW p \in Profiles, NEW plan \in Plan
    PROVE  ApplyPoints(p, plan) \in Profiles
<1>1. ASSUME NEW s \in Seqs, p[s] # NoRow
      PROVE  /\ p[s] \in Point
             /\ p[s].raw * plan.scale + plan.offset \in Int
  BY <1>1 DEF Profiles, Point, Plan
<1>2. ASSUME NEW s \in Seqs
      PROVE  ApplyPoints(p, plan)[s] \in Point \cup {NoRow}
  <2>1. CASE p[s] = NoRow
    BY <2>1 DEF ApplyPoints
  <2>2. CASE p[s] # NoRow
    BY <2>2, <1>1 DEF ApplyPoints, Point
  <2>3. QED
    BY <2>1, <2>2
<1>3. QED
  BY <1>2 DEF ApplyPoints, Profiles

\* Compute gives corrections.
LEMMA ComputeType ==
    ASSUME NEW p \in Profiles, NEW ref \in Int
    PROVE  Compute(p, ref) \subseteq Correction
<1>1. ASSUME NEW s \in Nearest(p, ref)
      PROVE  p[s].raw \in Int
  BY RowIsPoint DEF Nearest, Point
<1>2. detectWellheadDisturbance(p) \in BOOLEAN
  BY DEF detectWellheadDisturbance
<1>3. QED
  BY <1>1, <1>2 DEF Compute, Correction

\* Build gives plans.
LEMMA BuildType ==
    ASSUME NEW strategy \in {"offset", "tie_point", "stretch"},
           NEW markers \in Seq(Marker)
    PROVE  Build(strategy, markers) \subseteq Plan
<1>1. CASE strategy = "offset"
  <2>1. ASSUME markers # <<>>
        PROVE  markers[1].cal - markers[1].raw \in Int
    <3>1. Len(markers) \in Nat /\ Len(markers) # 0
      BY <2>1
    <3>2. markers[1] \in Marker
      BY <3>1, ElementOfSeq
    <3>3. QED
      BY <3>2 DEF Marker
  <2>2. QED
    BY <1>1, <2>1 DEF Build, Plan
<1>2. CASE strategy = "tie_point"
  <2>1. ASSUME Len(markers) >= 1
        PROVE  markers[1].cal - markers[1].raw \in Int
    <3>1. markers[1] \in Marker
      BY <2>1, ElementOfSeq
    <3>2. QED
      BY <3>1 DEF Marker
  <2>2. QED
    BY <1>2, <2>1 DEF Build, Plan
<1>3. CASE strategy = "stretch"
  <2>1. ASSUME NEW k \in Scales, Len(markers) >= 2
        PROVE  k \in Int /\ markers[1].cal - k * markers[1].raw \in Int
    <3>1. k \in Int
      BY ProfileAssumption
    <3>2. markers[1] \in Marker
      BY <2>1, ElementOfSeq
    <3>3. QED
      BY <3>1, <3>2 DEF Marker
  <2>2. QED
    BY <1>3, <2>1 DEF Build, Plan
<1>4. QED
  BY <1>1, <1>2, <1>3
=============================================================================
