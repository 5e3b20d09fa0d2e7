---------------------------- MODULE RunDataProofs ---------------------------
(***************************************************************************)
(* Theorems about the rows RunService stores, for every set of runs,       *)
(* workers and requests: the rows a call computed from a profile it read   *)
(* earlier still fit the profile it writes them into.                      *)
(***************************************************************************)
EXTENDS RunServiceProofs, FiniteSetTheorems

-----------------------------------------------------------------------------
(* Profiles *)

\* The state of every row says what its gap flag says.
Classified(p) ==
    \A s \in Rows(p) : p[s].state = (IF p[s].gap THEN "missing" ELSE "valid")

\* Two profiles with the same rows and, in each, the same reading.
SameReadings(p, q) ==
    \A s \in Seqs :
        /\ p[s] = NoRow <=> q[s] = NoRow
        /\ p[s] # NoRow => Reading(p[s]) = Reading(q[s])

\* Completeness counted by flag and by state agree on a classified profile.
LEMMA ClassifiedCounts ==
    ASSUME NEW p \in Profiles, Classified(p)
    PROVE  PresentCount(p) = ValidCount(p)
<1> DEFINE gaps == {s \in Rows(p) : p[s].gap}
<1>1. IsFiniteSet(Rows(p))
  BY ProfileAssumption, FS_Subset DEF Rows
<1>2. {s \in Rows(p) : p[s].state = "valid"} = Rows(p) \ gaps
  BY DEF Classified
<1>3. Rows(p) \cap gaps = gaps
  OBVIOUS
<1>4. Cardinality(Rows(p) \ gaps) = Cardinality(Rows(p)) - Cardinality(Rows(p) \cap gaps)
  BY <1>1, FS_Difference
<1>5. QED
  BY <1>2, <1>3, <1>4 DEF PresentCount, ValidCount

\* An accepted batch is classified.
LEMMA BatchClassified ==
    ASSUME NEW batch \in Seq(RawPoint)
    PROVE  Classified(ToMeasurePoints(batch))
<1>1. ASSUME NEW b
      PROVE  ToMeasurePoint(b).state =
                (IF ToMeasurePoint(b).gap THEN "missing" ELSE "valid")
  BY DEF ToMeasurePoint
<1>2. ASSUME NEW s \in Rows(ToMeasurePoints(batch))
      PROVE  \E b : ToMeasurePoints(batch)[s] = ToMeasurePoint(b)
  BY <1>2 DEF Rows, ToMeasurePoints
<1>3. QED
  BY <1>1, <1>2 DEF Classified

\* Merging classified rows into a classified profile leaves it so.
LEMMA UpsertClassified ==
    ASSUME NEW p \in Profiles, NEW q \in Profiles, Classified(p), Classified(q)
    PROVE  Classified(Upsert(p, q))
BY DEF Classified, Upsert, Rows

\* Rows that cover a profile replace it.
LEMMA UpsertSame ==
    ASSUME NEW p \in Profiles, NEW q \in Profiles, SameReadings(p, q)
    PROVE  Upsert(p, q) = q
<1>1. \A s \in Seqs : (IF q[s] # NoRow THEN q[s] ELSE p[s]) = q[s]
  BY DEF SameReadings
<1>2. q = [s \in Seqs |-> q[s]]
  BY DEF Profiles
<1>3. QED
  BY <1>1, <1>2 DEF Upsert

\* A datum correction keeps the readings; one that is accepted marks no
\* conflict.
LEMMA ApplyKeeps ==
    ASSUME NEW p \in Profiles, NEW offset \in Int
    PROVE  /\ SameReadings(p, Apply(p, offset))
           /\ Classified(p) /\ VerifyMonotonic(Apply(p, offset)) =>
                 Classified(Apply(p, offset))
<1> DEFINE q == Apply(p, offset)
<1>1. ASSUME NEW s \in Seqs
      PROVE  /\ p[s] = NoRow <=> q[s] = NoRow
             /\ p[s] # NoRow =>
                   /\ p[s].raw \in Int /\ q[s].raw = p[s].raw
                   /\ q[s].cal = p[s].raw + offset
                   /\ q[s].temp = p[s].temp /\ q[s].gap = p[s].gap
                   /\ q[s].state \in {p[s].state, "depth_conflict"}
                   /\ q[s].state # p[s].state =>
                         /\ ~p[s].gap
                         /\ \E t \in Rows(p) : IsPred(p, t, s) /\ p[s].raw <= p[t].raw
  <2>1. CASE p[s] = NoRow
    BY <2>1 DEF Apply
  <2>2. CASE p[s] # NoRow
    <3> DEFINE st == IF /\ ~p[s].gap
                        /\ \E t \in Rows(p) : IsPred(p, t, s) /\ p[s].raw <= p[t].raw
                     THEN "depth_conflict" ELSE p[s].state
    <3>1. p[s] \in Point
      BY <2>2 DEF Profiles
    <3>2. q[s] = [p[s] EXCEPT !.cal = p[s].raw + offset, !.state = st]
      BY <2>2 DEF Apply
    <3>3. /\ st \in {p[s].state, "depth_conflict"}
          /\ st # p[s].state =>
                /\ ~p[s].gap
                /\ \E t \in Rows(p) : IsPred(p, t, s) /\ p[s].raw <= p[t].raw
      OBVIOUS
    <3> HIDE DEF st, q
    <3>4. /\ q[s].raw = p[s].raw /\ q[s].cal = p[s].raw + offset
          /\ q[s].temp = p[s].temp /\ q[s].gap = p[s].gap
          /\ q[s].state = st
      BY <3>1, <3>2 DEF Point
    <3>5. q[s] # NoRow
      <4>1. st \in PointStates
        BY <3>1, <3>3 DEF Point, PointStates
      <4>2. p[s].raw + offset \in Int
        BY <3>1 DEF Point
      <4>3. [p[s] EXCEPT !.cal = p[s].raw + offset, !.state = st] \in Point
        BY <3>1, <4>1, <4>2 DEF Point
      <4>4. QED
        BY <3>2, <4>3, NoRowAssumption
    <3>6. QED
      BY <2>2, <3>1, <3>3, <3>4, <3>5 DEF Point
  <2>3. QED
    BY <2>1, <2>2
<1> HIDE DEF q
<1>2. SameReadings(p, q)
  BY <1>1 DEF SameReadings, Reading
<1>3. ASSUME Classified(p), VerifyMonotonic(q)
      PROVE  Classified(q)
  <2>1. Rows(q) = Rows(p) /\ Rows(p) \subseteq Seqs
    BY <1>1 DEF Rows
  <2>2. ASSUME NEW s \in Rows(p)
        PROVE  q[s].state = p[s].state
    <3> SUFFICES ASSUME q[s].state # p[s].state
                 PROVE  FALSE
      OBVIOUS
    <3>1. p[s] # NoRow /\ s \in Seqs
      BY DEF Rows
    <3>2. ~p[s].gap /\ q[s].gap = p[s].gap
      BY <1>1, <3>1
    <3>3. PICK t \in Rows(p) : IsPred(p, t, s) /\ p[s].raw <= p[t].raw
      BY <1>1, <3>1
    <3>4. p[t] # NoRow /\ t \in Seqs
      BY DEF Rows
    <3>5. IsPred(q, t, s)
      BY <2>1, <3>3 DEF IsPred
    <3>6. q[s].cal > q[t].cal
      BY <1>3, <2>1, <3>2, <3>5 DEF VerifyMonotonic
    <3>7. /\ q[s].cal = p[s].raw + offset /\ q[t].cal = p[t].raw + offset
          /\ p[s].raw \in Int /\ p[t].raw \in Int
      BY <1>1, <3>1, <3>4
    <3>8. QED
      BY <3>3, <3>6, <3>7
  <2>3. QED
    BY <1>1, <1>3, <2>1, <2>2 DEF Classified, Rows
<1>4. QED
  BY <1>2, <1>3 DEF q

\* A calibration plan keeps the readings and the states.
LEMMA ApplyPointsKeeps ==
    ASSUME NEW p \in Profiles, NEW plan \in Plan
    PROVE  /\ SameReadings(p, ApplyPoints(p, plan))
           /\ Classified(p) => Classified(ApplyPoints(p, plan))
<1> DEFINE q == ApplyPoints(p, plan)
<1>1. ASSUME NEW s \in Seqs
      PROVE  /\ p[s] = NoRow <=> q[s] = NoRow
             /\ p[s] # NoRow =>
                   /\ q[s].raw = p[s].raw /\ q[s].temp = p[s].temp
                   /\ q[s].gap = p[s].gap /\ q[s].state = p[s].state
  <2>1. CASE p[s] = NoRow
    BY <2>1 DEF ApplyPoints
  <2>2. CASE p[s] # NoRow
    <3> DEFINE cal == p[s].raw * plan.scale + plan.offset
    <3>1. p[s] \in Point
      BY <2>2 DEF Profiles
    <3>2. q[s] = [p[s] EXCEPT !.cal = cal]
      BY <2>2 DEF ApplyPoints
    <3>3. cal \in Int
      BY <3>1 DEF Point, Plan
    <3> HIDE DEF q, cal
    <3>4. /\ q[s] \in Point
          /\ q[s].raw = p[s].raw /\ q[s].temp = p[s].temp
          /\ q[s].gap = p[s].gap /\ q[s].state = p[s].state
      BY <3>1, <3>2, <3>3 DEF Point
    <3>5. QED
      BY <2>2, <3>4, NoRowAssumption
  <2>3. QED
    BY <2>1, <2>2
<1> HIDE DEF q
<1>2. QED
  BY <1>1 DEF q, SameReadings, Reading, Classified, Rows

-----------------------------------------------------------------------------
(* The steps that matter to the rows *)

\* The call of w, a correction or a plan, keeps the rows q to write.
Proposes(w, q) ==
    LET p == points[calls[w].run]
    IN  /\ calls[w].op \in {"correct", "plan"} /\ calls[w].run \in Runs
        /\ calls'[w].op = calls[w].op /\ calls'[w].run = calls[w].run
        /\ calls'[w].pts = q
        /\ q \in Profiles /\ VerifyMonotonic(q) /\ SameReadings(p, q)
        /\ Classified(p) => Classified(q)

LEMMA ProposeSteps ==
    ASSUME TypeInv, NEW w \in Workers,
           calls[w].op \in {"correct", "plan"}, calls[w].pc = "list",
           NEW corrections \in
               SUBSET [pts : Profiles, basis : Int, disturbance : BOOLEAN],
           Propose(w, corrections),
           \A k \in corrections :
               /\ SameReadings(points[calls[w].run], k.pts)
               /\ Classified(points[calls[w].run]) /\ VerifyMonotonic(k.pts) =>
                     Classified(k.pts)
    PROVE  /\ \A v \in Workers \ {w} : calls'[v] = calls[v]
           /\ calls'[w].pc # "meta"
           /\ calls'[w].pc = "upsert" => \E q : Proposes(w, q)
<1>1. calls \in [Workers -> ShapedCalls]
  BY DEF TypeInv
<1>2. CASE Return(w)
  BY <1>1, <1>2 DEF Return, Set, NoCall
<1>3. ASSUME NEW k \in corrections, VerifyMonotonic(k.pts),
             Set(w, [calls[w] EXCEPT !.pc = "upsert", !.pts = k.pts,
                                     !.basis = k.basis,
                                     !.disturbance = k.disturbance])
      PROVE  /\ \A v \in Workers \ {w} : calls'[v] = calls[v]
             /\ calls'[w].pc = "upsert" /\ Proposes(w, k.pts)
  <2> DEFINE c == [calls[w] EXCEPT !.pc = "upsert", !.pts = k.pts,
                                   !.basis = k.basis,
                                   !.disturbance = k.disturbance]
  <2>1. calls[w] \in Call /\ calls[w].run \in Runs /\ k.pts \in Profiles
    BY <1>1 DEF ShapedCalls, Shape
  <2>2. /\ c.op = calls[w].op /\ c.run = calls[w].run
        /\ c.pts = k.pts /\ c.pc = "upsert"
    BY <2>1 DEF Call
  <2>3. calls' = [calls EXCEPT ![w] = c]
    BY <1>3 DEF Set
  <2> HIDE DEF c
  <2>4. calls'[w] = c /\ \A v \in Workers \ {w} : calls'[v] = calls[v]
    BY <1>1, <2>3
  <2>5. QED
    BY <1>3, <2>1, <2>2, <2>4 DEF Proposes
<1>4. QED
  BY <1>2, <1>3 DEF Propose

LEMMA CorrectSteps ==
    ASSUME TypeInv, NEW w \in Workers, NEW ref \in References, CorrectCompute(w, ref)
    PROVE  /\ \A v \in Workers \ {w} : calls'[v] = calls[v]
           /\ calls'[w].pc # "meta"
           /\ calls'[w].pc = "upsert" => \E q : Proposes(w, q)
<1> DEFINE p == points[calls[w].run]
           corrections == {[pts |-> Apply(p, c.offset), basis |-> c.basis,
                            disturbance |-> c.disturbance] : c \in Compute(p, ref)}
<1>1. calls[w].op = "correct" /\ calls[w].pc = "list"
  BY DEF CorrectCompute, At
<1>2. calls[w].run \in Runs
  BY <1>1 DEF TypeInv, ShapedCalls, Shape
<1>3. p \in Profiles /\ ref \in Int
  BY <1>2, RunServiceAssumption DEF TypeInv, TypeOK
<1>4. Compute(p, ref) \subseteq Correction
  BY <1>3, ComputeType
<1>5. ASSUME NEW c \in Compute(p, ref)
      PROVE  /\ Apply(p, c.offset) \in Profiles
             /\ c.basis \in Int /\ c.disturbance \in BOOLEAN
             /\ SameReadings(p, Apply(p, c.offset))
             /\ Classified(p) /\ VerifyMonotonic(Apply(p, c.offset)) =>
                   Classified(Apply(p, c.offset))
  <2>1. c.offset \in Int /\ c.basis \in Int /\ c.disturbance \in BOOLEAN
    BY <1>4 DEF Correction
  <2>2. QED
    BY <1>3, <2>1, ApplyType, ApplyKeeps
<1>6. corrections \in SUBSET [pts : Profiles, basis : Int, disturbance : BOOLEAN]
  BY <1>5
<1>7. \A k \in corrections :
          /\ SameReadings(p, k.pts)
          /\ Classified(p) /\ VerifyMonotonic(k.pts) => Classified(k.pts)
  BY <1>5
<1>8. Propose(w, corrections)
  BY DEF CorrectCompute
<1> HIDE DEF corrections
<1>9. QED
  BY <1>1, <1>6, <1>7, <1>8, ProposeSteps

LEMMA PlanSteps ==
    ASSUME TypeInv, NEW w \in Workers, NEW request \in PlanRequests,
           PlanCompute(w, request)
    PROVE  /\ \A v \in Workers \ {w} : calls'[v] = calls[v]
           /\ calls'[w].pc # "meta"
           /\ calls'[w].pc = "upsert" => \E q : Proposes(w, q)
<1> DEFINE p == points[calls[w].run]
           plans == {plan \in Build(request.strategy, request.markers) : Rows(p) # {}}
           corrections == {[pts |-> ApplyPoints(p, plan), basis |-> plan.offset,
                            disturbance |-> calls[w].disturbance] : plan \in plans}
<1>1. calls[w].op = "plan" /\ calls[w].pc = "list"
  BY DEF PlanCompute, At
<1>2. calls[w].run \in Runs /\ calls[w].disturbance \in BOOLEAN
  BY <1>1 DEF TypeInv, ShapedCalls, Shape, Call
<1>3. p \in Profiles
  BY <1>2 DEF TypeInv, TypeOK
<1>4. plans \subseteq Plan
  <2>1. /\ request.strategy \in {"offset", "tie_point", "stretch"}
        /\ request.markers \in Seq(Marker)
    BY RunServiceAssumption
  <2>2. QED
    BY <2>1, BuildType
<1>5. ASSUME NEW plan \in plans
      PROVE  /\ ApplyPoints(p, plan) \in Profiles
             /\ plan.offset \in Int
             /\ SameReadings(p, ApplyPoints(p, plan))
             /\ Classified(p) => Classified(ApplyPoints(p, plan))
  BY <1>3, <1>4, ApplyPointsType, ApplyPointsKeeps DEF Plan
<1>6. corrections \in SUBSET [pts : Profiles, basis : Int, disturbance : BOOLEAN]
  BY <1>2, <1>5
<1>7. \A k \in corrections :
          /\ SameReadings(p, k.pts)
          /\ Classified(p) /\ VerifyMonotonic(k.pts) => Classified(k.pts)
  BY <1>5
<1>8. Propose(w, corrections)
  BY DEF PlanCompute
<1> HIDE DEF corrections
<1>9. QED
  BY <1>1, <1>6, <1>7, <1>8, ProposeSteps

\* A call that has written its rows has none left to write.
LEMMA UpsertEnds ==
    ASSUME TypeInv, NEW w \in Workers, BulkUpsertPoints(w)
    PROVE  /\ \A v \in Workers \ {w} : calls'[v] = calls[v]
           /\ calls'[w].pc # "upsert"
           /\ calls[w].op # "ingest" => calls'[w].pc = "meta"
           /\ calls[w].op = "ingest" => calls'[w].pc # "meta"
<1>1. calls[w] \in Call /\ calls \in [Workers -> ShapedCalls]
  BY DEF TypeInv, ShapedCalls
<1>2. CASE calls[w].op = "ingest" /\ Begin(w, calls[w].op, calls[w].run, "tr_get")
  BY <1>1, <1>2 DEF Begin, Set, NoCall
<1>3. CASE calls[w].op = "ingest" /\ Return(w)
  BY <1>1, <1>3 DEF Return, Set, NoCall
<1>4. CASE calls[w].op # "ingest" /\ Goto(w, "meta")
  BY <1>1, <1>4 DEF Goto, Set, Call
<1>5. QED
  BY <1>2, <1>3, <1>4 DEF BulkUpsertPoints

\* Every other step leaves the rows alone, those stored and those to write.
LEMMA DataSteps ==
    ASSUME TypeInv, [Next]_vars
    PROVE  \/ \E w \in Workers, r \in Runs, batch \in Batches : IngestBegin(w, r, batch)
           \/ \E w \in Workers : BulkUpsertPoints(w)
           \/ /\ points' = points
              /\ \E w \in Workers :
                    /\ \A v \in Workers \ {w} : calls'[v] = calls[v]
                    /\ calls'[w].pc # "meta"
                    /\ calls'[w].pc = "upsert" => \E q : Proposes(w, q)
           \/ /\ points' = points
              /\ \A v \in Workers :
                    calls'[v] = calls[v] \/ calls'[v].pc \notin {"upsert", "meta"}
<1> USE DEF At
<1> DEFINE Same == /\ points' = points
                   /\ \A v \in Workers :
                         calls'[v] = calls[v] \/ calls'[v].pc \notin {"upsert", "meta"}
           Computed == /\ points' = points
                       /\ \E w \in Workers :
                             /\ \A v \in Workers \ {w} : calls'[v] = calls[v]
                             /\ calls'[w].pc # "meta"
                             /\ calls'[w].pc = "upsert" => \E q : Proposes(w, q)
<1>1. calls \in [Workers -> ShapedCalls]
  BY DEF TypeInv
<1>2. ASSUME NEW w \in Workers, NEW c, Set(w, c), points' = points,
             c.pc \notin {"upsert", "meta"}
      PROVE  Same
  BY <1>1, <1>2 DEF Set
<1>3. ASSUME NEW w \in Workers, NEW pc \in {"release", "tr_update"},
             Goto(w, pc), points' = points
      PROVE  Same
  <2>1. [calls[w] EXCEPT !.pc = pc].pc = pc
    BY <1>1 DEF ShapedCalls, Call
  <2>2. QED
    BY <1>2, <1>3, <2>1 DEF Goto
<1>4. ASSUME NEW w \in Workers, Return(w), points' = points
      PROVE  Same
  BY <1>2, <1>4 DEF Return, NoCall
<1>5. ASSUME NEW w \in Workers, Abandon(w), points' = points
      PROVE  Same
  BY <1>3, <1>4, <1>5 DEF Abandon
<1>6. ASSUME NEW w \in Workers, NEW op, NEW r, NEW pc \in {"get", "tr_get"},
             Begin(w, op, r, pc), points' = points
      PROVE  Same
  <2>1. [NoCall EXCEPT !.op = op, !.run = r, !.pc = pc].pc = pc
    BY DEF NoCall
  <2>2. QED
    BY <1>2, <1>6, <2>1 DEF Begin
<1>7. ASSUME NEW w \in Workers, NEW r \in Runs, NEW op, CorrectBegin(w, op, r)
      PROVE  Same
  <2>1. [NoCall EXCEPT !.op = op, !.run = r, !.pc = "list",
                       !.disturbance = run[r].disturbance].pc = "list"
    BY DEF NoCall
  <2>2. QED
    BY <1>2, <1>7, <2>1 DEF CorrectBegin, StoreUnchanged
<1>8. ASSUME NEW w \in Workers, NEW ref \in References, CorrectCompute(w, ref)
      PROVE  Computed
  BY <1>8, CorrectSteps DEF CorrectCompute, StoreUnchanged
<1>9. ASSUME NEW w \in Workers, NEW request \in PlanRequests, PlanCompute(w, request)
      PROVE  Computed
  BY <1>9, PlanSteps DEF PlanCompute, StoreUnchanged
<1>10. ASSUME NEW w \in Workers, SetWellRunMeta(w) \/ LayerRelease(w)
       PROVE  Same
  BY <1>4, <1>10 DEF SetWellRunMeta, LayerRelease, StoreUnchanged
<1>11. ASSUME NEW w \in Workers, NEW r \in Runs, LayerLock(w, r) \/ ArchiveBegin(w, r)
       PROVE  Same
  BY <1>6, <1>11 DEF LayerLock, ArchiveBegin, StoreUnchanged
<1>12. ASSUME NEW w \in Workers, LayerGet(w)
       PROVE  Same
  <2>1. points' = points
    BY <1>12 DEF LayerGet, StoreUnchanged
  <2>2. CASE Abandon(w)
    BY <1>5, <2>1, <2>2
  <2>3. CASE Set(w, [calls[w] EXCEPT !.pc = "list", !.seen = run[calls[w].run].state])
    <3>1. [calls[w] EXCEPT !.pc = "list", !.seen = run[calls[w].run].state].pc = "list"
      BY <1>1 DEF ShapedCalls, Call
    <3>2. QED
      BY <1>2, <2>1, <2>3, <3>1
  <2>4. QED
    BY <1>12, <2>2, <2>3 DEF LayerGet
<1>13. ASSUME NEW w \in Workers, LayerCompute(w)
       PROVE  Same
  <2>1. points' = points
    BY <1>13 DEF LayerCompute, StoreUnchanged
  <2>2. CASE Abandon(w)
    BY <1>5, <2>1, <2>2
  <2>3. ASSUME NEW shape, Set(w, [calls[w] EXCEPT !.pc = "replace", !.shape = shape])
        PROVE  Same
    <3>1. [calls[w] EXCEPT !.pc = "replace", !.shape = shape].pc = "replace"
      BY <1>1 DEF ShapedCalls, Call
    <3>2. QED
      BY <1>2, <2>1, <2>3, <3>1
  <2>4. QED
    BY <1>13, <2>2, <2>3 DEF LayerCompute
<1>14. ASSUME NEW w \in Workers, ReplaceSegments(w)
       PROVE  Same
  BY <1>6, <1>14 DEF ReplaceSegments
<1>15. ASSUME NEW w \in Workers, TransitionGet(w)
       PROVE  Same
  BY <1>3, <1>5, <1>15 DEF TransitionGet, StoreUnchanged
<1>16. ASSUME NEW w \in Workers, UpdateWellRunState(w)
       PROVE  Same
  BY <1>5, <1>16 DEF UpdateWellRunState
<1>17. ASSUME NEW w \in Workers, Fail(w)
       PROVE  Same
  BY <1>5, <1>17 DEF Fail, StoreUnchanged
<1>18. ASSUME Confirm \/ UNCHANGED vars
       PROVE  Same
  BY <1>18 DEF Confirm, ConfirmSegment, vars
<1>19. ASSUME Crash
       PROVE  Same
  BY <1>19 DEF Crash, StoreUnchanged, NoCall
<1> HIDE DEF Same, Computed
<1>20. ASSUME NEW w \in Workers, Request(w)
       PROVE  (\E r \in Runs, batch \in Batches : IngestBegin(w, r, batch)) \/ Same
  BY <1>7, <1>11, <1>20 DEF Request
<1>21. ASSUME NEW w \in Workers, Continue(w)
       PROVE  BulkUpsertPoints(w) \/ Computed \/ Same
  BY <1>8, <1>9, <1>10, <1>12, <1>13, <1>14, <1>15, <1>16, <1>21 DEF Continue
<1>22. ASSUME Fault
       PROVE  Same
  BY <1>17, <1>19, <1>22 DEF Fault
<1>23. \/ Fault \/ Confirm \/ UNCHANGED vars
       \/ \E w \in Workers : Request(w) \/ Continue(w)
  BY DEF Next, Step
<1>24. \/ \E w \in Workers, r \in Runs, batch \in Batches : IngestBegin(w, r, batch)
       \/ \E w \in Workers : BulkUpsertPoints(w)
       \/ Computed
       \/ Same
  BY <1>18, <1>20, <1>21, <1>22, <1>23
<1>25. QED
  BY <1>24 DEF Same, Computed

-----------------------------------------------------------------------------
(* Completeness *)

\* Stored rows and rows about to be written carry no depth conflict.
ClassInv ==
    /\ \A r \in Runs : Classified(points[r])
    /\ \A w \in Workers : calls[w].pc = "upsert" => Classified(calls[w].pts)

LEMMA ClassInit == Init => ClassInv
<1>1. Classified(EmptyProfile)
  BY DEF Classified, Rows, EmptyProfile
<1>2. QED
  BY <1>1 DEF Init, ClassInv, NoCall

LEMMA ClassNext == TypeInv /\ ClassInv /\ [Next]_vars => ClassInv'
<1> SUFFICES ASSUME TypeInv, ClassInv, [Next]_vars
             PROVE  ClassInv'
  OBVIOUS
<1> USE DEF ClassInv
<1>1. calls \in [Workers -> ShapedCalls]
  BY DEF TypeInv
<1>2. ASSUME NEW w \in Workers, NEW r \in Runs, NEW batch \in Batches,
             IngestBegin(w, r, batch)
      PROVE  ClassInv'
  <2> DEFINE c == [NoCall EXCEPT !.op = "ingest", !.run = r, !.pc = "upsert",
                                 !.seen = run[r].state,
                                 !.pts = ToMeasurePoints(batch)]
  <2>1. calls' = [calls EXCEPT ![w] = c] /\ points' = points
    BY <1>2 DEF IngestBegin, Set, StoreUnchanged
  <2>2. c.pts = ToMeasurePoints(batch)
    BY DEF NoCall
  <2>3. Classified(c.pts)
    BY <2>2, BatchClassified, RunServiceAssumption
  <2> HIDE DEF c
  <2>4. \A v \in Workers : calls'[v] = calls[v] \/ calls'[v] = c
    BY <1>1, <2>1
  <2>5. QED
    BY <2>1, <2>3, <2>4
<1>3. ASSUME NEW w \in Workers, BulkUpsertPoints(w)
      PROVE  ClassInv'
  <2> DEFINE r == calls[w].run
  <2>1. r \in Runs /\ calls[w].pts \in Profiles /\ points[r] \in Profiles
    BY <1>1, <1>3 DEF BulkUpsertPoints, ShapedCalls, Shape, Call, TypeInv, TypeOK
  <2>2. Classified(Upsert(points[r], calls[w].pts))
    BY <1>3, <2>1, UpsertClassified DEF BulkUpsertPoints
  <2>3. points' = [points EXCEPT ![r] = Upsert(points[r], calls[w].pts)]
    BY <1>3 DEF BulkUpsertPoints
  <2>4. \A q \in Runs : Classified(points'[q])
    BY <2>2, <2>3 DEF TypeInv, TypeOK
  <2>5. \A v \in Workers : calls'[v] = calls[v] \/ calls'[v].pc # "upsert"
    BY <1>3, UpsertEnds
  <2>6. QED
    BY <2>4, <2>5
<1>4. ASSUME NEW w \in Workers, points' = points,
             \A v \in Workers \ {w} : calls'[v] = calls[v],
             calls'[w].pc = "upsert" => \E q : Proposes(w, q)
      PROVE  ClassInv'
  BY <1>4 DEF Proposes
<1>5. QED
  BY <1>2, <1>3, <1>4, DataSteps

\* Completeness is the same by either count in every run, whatever was
\* ingested, corrected, interrupted and written from a profile that had changed.
THEOREM CompletenessIsOne == Spec => []CompletenessAgrees
<1>1. Init => TypeInv /\ ClassInv
  BY InitType, ClassInit
<1>2. TypeInv /\ ClassInv /\ [Next]_vars => (TypeInv /\ ClassInv)'
  BY NextType, ClassNext
<1>3. TypeInv /\ ClassInv => CompletenessAgrees
  BY ClassifiedCounts DEF ClassInv, CompletenessAgrees, TypeInv, TypeOK
<1>4. QED
  BY <1>1, <1>2, <1>3, PTL DEF Spec

-----------------------------------------------------------------------------
(* Corrections *)

\* The rows a correction is about to write increase and hold the readings its
\* run holds now, not only those it held when the correction read them.
FitInv ==
    \A w \in Workers :
        calls[w].pc = "upsert" /\ calls[w].op # "ingest" =>
            /\ VerifyMonotonic(calls[w].pts)
            /\ SameReadings(points[calls[w].run], calls[w].pts)

LEMMA FitInit == Init => FitInv
BY DEF Init, FitInv, NoCall

\* A correction writes exactly the rows it computed.
LEMMA CorrectionWrites ==
    ASSUME TypeInv, FitInv, NEW w \in Workers, calls[w].op # "ingest",
           BulkUpsertPoints(w)
    PROVE  /\ points' = [points EXCEPT ![calls[w].run] = calls[w].pts]
           /\ SameReadings(points[calls[w].run], calls[w].pts)
           /\ VerifyMonotonic(calls[w].pts)
<1>1. /\ calls[w].pc = "upsert" /\ calls[w].run \in Runs
      /\ calls[w].pts \in Profiles /\ points[calls[w].run] \in Profiles
  BY DEF BulkUpsertPoints, TypeInv, TypeOK, ShapedCalls, Shape, Call
<1>2. /\ SameReadings(points[calls[w].run], calls[w].pts)
      /\ VerifyMonotonic(calls[w].pts)
  BY <1>1 DEF FitInv
<1>3. Upsert(points[calls[w].run], calls[w].pts) = calls[w].pts
  BY <1>1, <1>2, UpsertSame
<1>4. QED
  BY <1>2, <1>3 DEF BulkUpsertPoints

LEMMA FitNext == TypeInv /\ IngestAlone /\ FitInv /\ [Next]_vars => FitInv'
<1> SUFFICES ASSUME TypeInv, IngestAlone, FitInv, [Next]_vars
             PROVE  FitInv'
  OBVIOUS
<1>1. calls \in [Workers -> ShapedCalls]
  BY DEF TypeInv
<1>2. ASSUME NEW w \in Workers, NEW r \in Runs, NEW batch \in Batches,
             IngestBegin(w, r, batch)
      PROVE  FitInv'
  <2> DEFINE c == [NoCall EXCEPT !.op = "ingest", !.run = r, !.pc = "upsert",
                                 !.seen = run[r].state,
                                 !.pts = ToMeasurePoints(batch)]
  <2>1. calls' = [calls EXCEPT ![w] = c] /\ points' = points
    BY <1>2 DEF IngestBegin, Set, StoreUnchanged
  <2>2. c.op = "ingest"
    BY DEF NoCall
  <2> HIDE DEF c
  <2>3. \A v \in Workers : calls'[v] = calls[v] \/ calls'[v] = c
    BY <1>1, <2>1
  <2>4. QED
    BY <2>1, <2>2, <2>3 DEF FitInv
<1>3. ASSUME NEW w \in Workers, BulkUpsertPoints(w)
      PROVE  FitInv'
  <2> DEFINE r == calls[w].run
  <2>1. \A v \in Workers \ {w} : calls'[v] = calls[v]
    BY <1>3, UpsertEnds
  <2>2. calls'[w].pc # "upsert"
    BY <1>3, UpsertEnds
  <2>3. points' = [points EXCEPT ![r] = Upsert(points[r], calls[w].pts)]
    BY <1>3 DEF BulkUpsertPoints
  <2>4. ASSUME NEW v \in Workers, v # w,
               calls[v].pc = "upsert", calls[v].op # "ingest"
        PROVE  /\ VerifyMonotonic(calls[v].pts)
               /\ SameReadings(points'[calls[v].run], calls[v].pts)
    <3>1. /\ VerifyMonotonic(calls[v].pts)
          /\ SameReadings(points[calls[v].run], calls[v].pts)
      BY <2>4 DEF FitInv
    <3>2. calls[v].run \in Runs
      BY <1>1, <2>4 DEF ShapedCalls, Shape
    <3>3. CASE calls[v].run # r
      BY <2>3, <3>1, <3>2, <3>3 DEF TypeInv, TypeOK
    <3>4. CASE calls[v].run = r
      <4>1. calls[w].op # "ingest"
        BY <2>4, <3>4 DEF IngestAlone
      <4>2. /\ points' = [points EXCEPT ![r] = calls[w].pts]
            /\ SameReadings(points[r], calls[w].pts)
        BY <1>3, <4>1, CorrectionWrites
      <4>3. points'[r] = calls[w].pts
        BY <3>2, <3>4, <4>2 DEF TypeInv, TypeOK
      <4>4. SameReadings(calls[w].pts, calls[v].pts)
        BY <3>1, <3>4, <4>2 DEF SameReadings
      <4>5. QED
        BY <3>1, <3>4, <4>3, <4>4
    <3>5. QED
      BY <3>3, <3>4
  <2>5. QED
    BY <2>1, <2>2, <2>4 DEF FitInv
<1>4. ASSUME NEW w \in Workers, points' = points,
             \A v \in Workers \ {w} : calls'[v] = calls[v],
             calls'[w].pc = "upsert" => \E q : Proposes(w, q)
      PROVE  FitInv'
  BY <1>4 DEF FitInv, Proposes
<1>5. CASE /\ points' = points
           /\ \A v \in Workers :
                 calls'[v] = calls[v] \/ calls'[v].pc \notin {"upsert", "meta"}
  BY <1>5 DEF FitInv
<1>6. QED
  BY <1>2, <1>3, <1>4, <1>5, DataSteps

\* A call goes from its rows to its meta data by writing the rows.
LEMMA MetaFollowsUpsert ==
    ASSUME TypeInv, [Next]_vars, NEW w \in Workers,
           calls[w].pc = "upsert", calls'[w].pc = "meta"
    PROVE  BulkUpsertPoints(w)
<1>1. calls \in [Workers -> ShapedCalls]
  BY DEF TypeInv
<1>2. ASSUME NEW v \in Workers, NEW r \in Runs, NEW batch \in Batches,
             IngestBegin(v, r, batch)
      PROVE  FALSE
  <2> DEFINE c == [NoCall EXCEPT !.op = "ingest", !.run = r, !.pc = "upsert",
                                 !.seen = run[r].state,
                                 !.pts = ToMeasurePoints(batch)]
  <2>1. calls' = [calls EXCEPT ![v] = c] /\ c.pc = "upsert"
    BY <1>2 DEF IngestBegin, Set, NoCall
  <2> HIDE DEF c
  <2>2. QED
    BY <1>1, <2>1
<1>3. ASSUME NEW v \in Workers, BulkUpsertPoints(v)
      PROVE  BulkUpsertPoints(w)
  <2>1. \A u \in Workers \ {v} : calls'[u] = calls[u]
    BY <1>3, UpsertEnds
  <2>2. QED
    BY <1>3, <2>1
<1>4. QED
  BY <1>2, <1>3, DataSteps

\* Corrections and plans may overlap one another, layering, failures and
\* restarts in any number: while ingestion is exclusive, none of them ever
\* overwrites a reading with one it read earlier.
THEOREM CorrectionsKeepReadings == ExclusiveIngest => (Spec => CorrectionKeepsReadings)
<1> SUFFICES ASSUME ExclusiveIngest
             PROVE  Spec => CorrectionKeepsReadings
  OBVIOUS
<1> DEFINE Keeps ==
      \A w \in Workers :
         /\ calls[w].pc = "upsert" /\ calls[w].op # "ingest"
         /\ calls'[w].pc = "meta"
         => \A r \in Runs : \A s \in Rows(points[r]) :
               Reading(points'[r][s]) = Reading(points[r][s])
<1>1. Init => LifeInv /\ FitInv
  BY LifeInit, FitInit
<1>2. LifeInv /\ FitInv /\ [Next]_vars => (LifeInv /\ FitInv)'
  BY LifeNext, FitNext DEF LifeInv
<1>3. LifeInv /\ FitInv /\ [Next]_vars => Keeps
  <2> SUFFICES ASSUME LifeInv, FitInv, [Next]_vars, NEW w \in Workers,
                      calls[w].pc = "upsert", calls[w].op # "ingest",
                      calls'[w].pc = "meta",
                      NEW r \in Runs, NEW s \in Rows(points[r])
               PROVE  Reading(points'[r][s]) = Reading(points[r][s])
    OBVIOUS
  <2>1. TypeInv
    BY DEF LifeInv
  <2>2. BulkUpsertPoints(w)
    BY <2>1, MetaFollowsUpsert
  <2>3. /\ points' = [points EXCEPT ![calls[w].run] = calls[w].pts]
        /\ SameReadings(points[calls[w].run], calls[w].pts)
    BY <2>1, <2>2, CorrectionWrites
  <2>4. s \in Seqs /\ points[r][s] # NoRow
    BY DEF Rows
  <2>5. QED
    BY <2>1, <2>3, <2>4 DEF SameReadings, TypeInv, TypeOK
<1> HIDE DEF Keeps
<1>4. Spec => [][Keeps]_vars
  BY <1>1, <1>2, <1>3, PTL DEF Spec
<1>5. QED
  BY <1>4 DEF Keeps, CorrectionKeepsReadings

\* Under the same condition a correction or plan leaves its run with exactly the
\* rows it computed, whatever other corrections wrote in between.
THEOREM CorrectionsAreWhole == ExclusiveIngest => (Spec => CorrectionIsWhole)
<1> SUFFICES ASSUME ExclusiveIngest
             PROVE  Spec => CorrectionIsWhole
  OBVIOUS
<1> DEFINE Whole ==
      \A w \in Workers :
         /\ calls[w].pc = "upsert" /\ calls[w].op # "ingest"
         /\ calls'[w].pc = "meta"
         => points'[calls[w].run] = calls[w].pts
<1>1. Init => LifeInv /\ FitInv
  BY LifeInit, FitInit
<1>2. LifeInv /\ FitInv /\ [Next]_vars => (LifeInv /\ FitInv)'
  BY LifeNext, FitNext DEF LifeInv
<1>3. LifeInv /\ FitInv /\ [Next]_vars => Whole
  <2> SUFFICES ASSUME LifeInv, FitInv, [Next]_vars, NEW w \in Workers,
                      calls[w].pc = "upsert", calls[w].op # "ingest",
                      calls'[w].pc = "meta"
               PROVE  points'[calls[w].run] = calls[w].pts
    OBVIOUS
  <2>1. TypeInv
    BY DEF LifeInv
  <2>2. BulkUpsertPoints(w)
    BY <2>1, MetaFollowsUpsert
  <2>3. points' = [points EXCEPT ![calls[w].run] = calls[w].pts]
    BY <2>1, <2>2, CorrectionWrites
  <2>4. calls[w].run \in Runs
    BY <2>1 DEF TypeInv, ShapedCalls, Shape
  <2>5. QED
    BY <2>1, <2>3, <2>4 DEF TypeInv, TypeOK
<1> HIDE DEF Whole
<1>4. Spec => [][Whole]_vars
  BY <1>1, <1>2, <1>3, PTL DEF Spec
<1>5. QED
  BY <1>4 DEF Whole, CorrectionIsWhole

-----------------------------------------------------------------------------
(* Segment ids *)

LEMMA SegmentSteps ==
    ASSUME [Next]_vars
    PROVE  segments' = segments \/ Confirm \/ \E w \in Workers : ReplaceSegments(w)
BY DEF Next, Step, Fault, Request, Continue, StoreUnchanged, vars,
       IngestBegin, CorrectBegin, LayerLock, ArchiveBegin, CorrectCompute,
       PlanCompute, BulkUpsertPoints, SetWellRunMeta, LayerGet, LayerCompute,
       TransitionGet, UpdateWellRunState, LayerRelease, Crash, Fail

\* No id is ever used for a second segment, whichever runs are layered again
\* and whatever is confirmed, lost or interrupted meanwhile.
THEOREM FreshSegmentIDs == Spec => SegmentIDsFresh
<1> DEFINE Fresh ==
      \A r \in Runs : \A t \in segments'[r] :
         t.id <= lastSegID =>
            \E s \in segments[r] : s.id = t.id /\ s.idx = t.idx /\ s.top = t.top
<1>1. TypeInv /\ [Next]_vars => Fresh
  <2> SUFFICES ASSUME TypeInv, [Next]_vars, NEW r \in Runs, NEW t \in segments'[r],
                      t.id <= lastSegID
               PROVE  \E s \in segments[r] :
                         s.id = t.id /\ s.idx = t.idx /\ s.top = t.top
    OBVIOUS
  <2>1. CASE segments' = segments
    BY <2>1
  <2>2. ASSUME NEW id, NEW st, ConfirmSegment(id, st)
        PROVE  \E s \in segments[r] : s.id = t.id /\ s.idx = t.idx /\ s.top = t.top
    <3> DEFINE row(s) == IF s.id = id
                         THEN [s EXCEPT !.state = st, !.confirmed = (st = "confirmed")]
                         ELSE s
    <3>1. segments'[r] = {row(s) : s \in segments[r]}
      BY <2>2 DEF ConfirmSegment, UpdateSegmentState
    <3>2. segments[r] \subseteq Segment
      BY DEF TypeInv, TypeOK
    <3>3. \A s \in segments[r] :
             row(s).id = s.id /\ row(s).idx = s.idx /\ row(s).top = s.top
      BY <3>2 DEF Segment
    <3> HIDE DEF row
    <3>4. QED
      BY <3>1, <3>3
  <2>3. ASSUME NEW w \in Workers, ReplaceSegments(w)
        PROVE  \E s \in segments[r] : s.id = t.id /\ s.idx = t.idx /\ s.top = t.top
    <3>1. segments' = [segments EXCEPT ![calls[w].run] =
                          SegmentRows(lastSegID, calls[w].shape)]
      BY <2>3 DEF ReplaceSegments
    <3>2. CASE r # calls[w].run
      BY <3>1, <3>2 DEF TypeInv, TypeOK
    <3>3. CASE r = calls[w].run
      <4>1. t \in SegmentRows(lastSegID, calls[w].shape)
        BY <3>1, <3>3 DEF TypeInv, TypeOK
      <4>2. PICK i \in 1..Len(calls[w].shape) : t.id = lastSegID + i
        BY <4>1 DEF SegmentRows
      <4>3. lastSegID \in Nat
        BY DEF TypeInv, TypeOK
      <4>4. i \in Int /\ i >= 1
        OBVIOUS
      <4>5. QED
        BY <4>2, <4>3, <4>4
    <3>4. QED
      BY <3>2, <3>3
  <2>4. QED
    BY <2>1, <2>2, <2>3, SegmentSteps DEF Confirm
<1> HIDE DEF Fresh
<1>2. Spec => [][Fresh]_vars
  BY <1>1, InitType, NextType, PTL DEF Spec
<1>3. QED
  BY <1>2 DEF Fresh, SegmentIDsFresh

-----------------------------------------------------------------------------
(* Archived runs *)

\* The archived flag and the archived state are set together.
FlagInv == \A r \in Runs : run[r].archived <=> run[r].state = "archived"

\* The statements that write well_runs.
LEMMA RunSteps ==
    ASSUME [Next]_vars
    PROVE  \/ run' = run
           \/ \E w \in Workers : SetWellRunMeta(w) \/ UpdateWellRunState(w)
BY DEF Next, Step, Fault, Request, Continue, StoreUnchanged, vars, Confirm,
       ConfirmSegment, IngestBegin, CorrectBegin, LayerLock, ArchiveBegin,
       CorrectCompute, PlanCompute, BulkUpsertPoints, LayerGet, LayerCompute,
       ReplaceSegments, TransitionGet, LayerRelease, Crash, Fail

LEMMA FlagNext == TypeInv /\ FlagInv /\ [Next]_vars => FlagInv'
<1> SUFFICES ASSUME TypeInv, FlagInv, [Next]_vars
             PROVE  FlagInv'
  OBVIOUS
<1>1. run \in [Runs -> Run] /\ calls \in [Workers -> ShapedCalls]
  BY DEF TypeInv, TypeOK
<1>2. ASSUME NEW w \in Workers, SetWellRunMeta(w)
      PROVE  FlagInv'
  <2>1. \A r \in Runs : /\ run'[r].archived = run[r].archived
                        /\ run'[r].state = run[r].state
    BY <1>1, <1>2 DEF SetWellRunMeta, Run
  <2>2. QED
    BY <2>1 DEF FlagInv
<1>3. ASSUME NEW w \in Workers, UpdateWellRunState(w)
      PROVE  FlagInv'
  <2> DEFINE to == TransitionTarget(calls[w].op)
  <2>1. run' = [run EXCEPT ![calls[w].run].state = to,
                           ![calls[w].run].archived = (to = "archived")]
    BY <1>3 DEF UpdateWellRunState
  <2> HIDE DEF to
  <2>2. \A r \in Runs :
           IF r = calls[w].run
           THEN run'[r].state = to /\ run'[r].archived = (to = "archived")
           ELSE run'[r] = run[r]
    BY <1>1, <2>1 DEF Run
  <2>3. QED
    BY <2>2 DEF FlagInv
<1>4. QED
  BY <1>2, <1>3, RunSteps DEF FlagInv

\* A call that writes a run wrote it before the step, or has just found the run
\* not archived.
LEMMA WriterSteps ==
    ASSUME TypeInv, [Next]_vars, NEW v \in Workers,
           Writing(calls'[v])
    PROVE  \/ Writing(calls[v]) /\ calls'[v].run = calls[v].run
           \/ ~run[calls'[v].run].archived
<1> USE DEF At
<1> DEFINE Ok == \/ Writing(calls[v]) /\ calls'[v].run = calls[v].run
                 \/ ~run[calls'[v].run].archived
<1>1. calls \in [Workers -> ShapedCalls]
  BY DEF TypeInv
<1>2. ASSUME NEW w \in Workers, NEW c, Set(w, c),
             \/ ~Writing(c)
             \/ Writing(calls[w]) /\ c.run = calls[w].run
             \/ ~run[c.run].archived
      PROVE  Ok
  BY <1>1, <1>2 DEF Set
<1> HIDE DEF Ok
<1>3. ASSUME NEW w \in Workers, Return(w)
      PROVE  Ok
  <2>1. ~Writing(NoCall)
    BY DEF NoCall, Writing
  <2>2. QED
    BY <1>2, <1>3, <2>1 DEF Return
<1>4. ASSUME NEW w \in Workers, NEW pc, Goto(w, pc),
             pc = "release" \/ calls[w].pc \notin {"get", "release"}
      PROVE  Ok
  <2> DEFINE c == [calls[w] EXCEPT !.pc = pc]
  <2>1. c.op = calls[w].op /\ c.run = calls[w].run /\ c.pc = pc
    BY <1>1 DEF ShapedCalls, Call
  <2>2. Set(w, c)
    BY <1>4 DEF Goto
  <2> HIDE DEF c
  <2>3. Writing(c) => Writing(calls[w])
    BY <1>4, <2>1 DEF Writing
  <2>4. QED
    BY <1>2, <2>1, <2>2, <2>3
<1>5. ASSUME NEW w \in Workers, Abandon(w)
      PROVE  Ok
  BY <1>3, <1>4, <1>5 DEF Abandon
<1>6. ASSUME NEW w \in Workers, NEW op, NEW r, NEW pc, Begin(w, op, r, pc),
             \/ op = "archive"
             \/ op = "layer" /\ pc = "get"
             \/ Writing(calls[w]) /\ r = calls[w].run
      PROVE  Ok
  <2> DEFINE c == [NoCall EXCEPT !.op = op, !.run = r, !.pc = pc]
  <2>1. c.op = op /\ c.run = r /\ c.pc = pc
    BY DEF NoCall
  <2>2. Set(w, c)
    BY <1>6 DEF Begin
  <2> HIDE DEF c
  <2>3. QED
    BY <1>2, <1>6, <2>1, <2>2 DEF Writing
<1>7. ASSUME NEW w \in Workers, NEW r \in Runs, NEW batch \in Batches,
             IngestBegin(w, r, batch)
      PROVE  Ok
  <2> DEFINE c == [NoCall EXCEPT !.op = "ingest", !.run = r, !.pc = "upsert",
                                 !.seen = run[r].state,
                                 !.pts = ToMeasurePoints(batch)]
  <2>1. Set(w, c) /\ ~run[r].archived
    BY <1>7 DEF IngestBegin
  <2>2. c.run = r
    BY DEF NoCall
  <2> HIDE DEF c
  <2>3. QED
    BY <1>2, <2>1, <2>2
<1>8. ASSUME NEW w \in Workers, NEW r \in Runs, NEW op, CorrectBegin(w, op, r)
      PROVE  Ok
  <2> DEFINE c == [NoCall EXCEPT !.op = op, !.run = r, !.pc = "list",
                                 !.disturbance = run[r].disturbance]
  <2>1. Set(w, c) /\ ~run[r].archived
    BY <1>8 DEF CorrectBegin
  <2>2. c.run = r
    BY DEF NoCall
  <2> HIDE DEF c
  <2>3. QED
    BY <1>2, <2>1, <2>2
<1>9. ASSUME NEW w \in Workers, NEW corrections, Propose(w, corrections),
             calls[w].op \in {"correct", "plan"}
      PROVE  Ok
  <2>1. ASSUME NEW k, Set(w, [calls[w] EXCEPT !.pc = "upsert", !.pts = k.pts,
                                              !.basis = k.basis,
                                              !.disturbance = k.disturbance])
        PROVE  Ok
    <3> DEFINE c == [calls[w] EXCEPT !.pc = "upsert", !.pts = k.pts,
                                     !.basis = k.basis,
                                     !.disturbance = k.disturbance]
    <3>1. c.op = calls[w].op /\ c.run = calls[w].run
      BY <1>1 DEF ShapedCalls, Call
    <3>2. Set(w, c)
      BY <2>1
    <3> HIDE DEF c
    <3>3. Writing(calls[w])
      BY <1>9 DEF Writing
    <3>4. QED
      BY <1>2, <3>1, <3>2, <3>3
  <2>2. QED
    BY <1>3, <1>9, <2>1 DEF Propose
<1>10. ASSUME NEW w \in Workers, Request(w)
       PROVE  Ok
  <2>1. ASSUME NEW r \in Runs, LayerLock(w, r)
        PROVE  Ok
    <3>1. Begin(w, "layer", r, "get")
      BY <2>1 DEF LayerLock
    <3>2. QED
      BY <1>6, <3>1
  <2>2. ASSUME NEW r \in Runs, ArchiveBegin(w, r)
        PROVE  Ok
    <3>1. Begin(w, "archive", r, "tr_get")
      BY <2>2 DEF ArchiveBegin
    <3>2. QED
      BY <1>6, <3>1
  <2>3. QED
    BY <1>7, <1>8, <1>10, <2>1, <2>2 DEF Request
<1>11. ASSUME NEW w \in Workers, LayerGet(w)
       PROVE  Ok
  <2> DEFINE c == [calls[w] EXCEPT !.pc = "list",
                                   !.seen = run[calls[w].run].state]
  <2>1. c.op = calls[w].op /\ c.run = calls[w].run
    BY <1>1 DEF ShapedCalls, Call
  <2>2. Abandon(w) \/ (Set(w, c) /\ ~run[c.run].archived)
    BY <1>11, <2>1 DEF LayerGet
  <2> HIDE DEF c
  <2>3. QED
    BY <1>2, <1>5, <2>1, <2>2
<1>12. ASSUME NEW w \in Workers, LayerCompute(w)
       PROVE  Ok
  <2>1. ASSUME NEW shape, Set(w, [calls[w] EXCEPT !.pc = "replace", !.shape = shape])
        PROVE  Ok
    <3> DEFINE c == [calls[w] EXCEPT !.pc = "replace", !.shape = shape]
    <3>1. c.run = calls[w].run
      BY <1>1 DEF ShapedCalls, Call
    <3>2. Set(w, c)
      BY <2>1
    <3> HIDE DEF c
    <3>3. Writing(calls[w])
      BY <1>12 DEF LayerCompute, Writing
    <3>4. QED
      BY <1>2, <3>1, <3>2, <3>3
  <2>2. QED
    BY <1>5, <1>12, <2>1 DEF LayerCompute
<1>13. ASSUME NEW w \in Workers, Continue(w)
       PROVE  Ok
  <2>1. ASSUME BulkUpsertPoints(w)
        PROVE  Ok
    <3>1. calls[w].pc = "upsert" /\ Writing(calls[w])
      BY <1>1, <2>1 DEF BulkUpsertPoints, ShapedCalls, Shape, Writing
    <3>2. Begin(w, calls[w].op, calls[w].run, "tr_get") \/ Return(w) \/ Goto(w, "meta")
      BY <2>1 DEF BulkUpsertPoints
    <3>3. QED
      BY <1>3, <1>4, <1>6, <3>1, <3>2
  <2>2. ASSUME ReplaceSegments(w)
        PROVE  Ok
    <3>1. Writing(calls[w]) /\ Begin(w, "layer", calls[w].run, "tr_get")
      BY <2>2 DEF ReplaceSegments, Writing
    <3>2. QED
      BY <1>6, <3>1
  <2>3. ASSUME TransitionGet(w)
        PROVE  Ok
    BY <1>4, <1>5, <2>3 DEF TransitionGet
  <2>4. QED
    BY <1>3, <1>5, <1>9, <1>11, <1>12, <1>13, <2>1, <2>2, <2>3
       DEF Continue, CorrectCompute, PlanCompute, SetWellRunMeta,
           UpdateWellRunState, LayerRelease
<1>14. ASSUME Fault
       PROVE  Ok
  <2>1. CASE Crash
    BY <2>1 DEF Crash, NoCall, Writing
  <2>2. QED
    BY <1>5, <1>14, <2>1 DEF Fault, Fail
<1>15. ASSUME Confirm \/ UNCHANGED vars
       PROVE  Ok
  BY <1>15 DEF Confirm, ConfirmSegment, vars, Ok
<1>16. QED
  BY <1>10, <1>13, <1>14, <1>15 DEF Next, Step, Ok

\* A confirmation leaves every interval where it is.
LEMMA ConfirmKeepsIntervals ==
    ASSUME NEW id, NEW st, ConfirmSegment(id, st), TypeInv, NEW r \in Runs
    PROVE  Intervals(segments'[r]) = Intervals(segments[r])
<1> DEFINE row(s) == IF s.id = id
                     THEN [s EXCEPT !.state = st, !.confirmed = (st = "confirmed")]
                     ELSE s
<1>1. segments'[r] = {row(s) : s \in segments[r]}
  BY DEF ConfirmSegment, UpdateSegmentState
<1>2. segments[r] \subseteq Segment
  BY DEF TypeInv, TypeOK
<1>3. \A s \in segments[r] :
         row(s).id = s.id /\ row(s).idx = s.idx /\ row(s).top = s.top
  BY <1>2 DEF Segment
<1> HIDE DEF row
<1> DEFINE place(s) == [id |-> s.id, idx |-> s.idx, top |-> s.top]
<1>4. \A s \in segments[r] : place(row(s)) = place(s)
  BY <1>3
<1> HIDE DEF place
<1>5. {place(s) : s \in segments'[r]} = {place(s) : s \in segments[r]}
  BY <1>1, <1>4
<1>6. QED
  BY <1>5 DEF Intervals, place

LEMMA Settled ==
    ASSUME LifeInv, FlagInv, [Next]_vars, NEW r \in Runs,
           run[r].archived, Writers(r) = {}
    PROVE  /\ points'[r] = points[r]
           /\ run'[r] = run[r]
           /\ Intervals(segments'[r]) = Intervals(segments[r])
           /\ Writers(r)' = {}
<1>1. /\ run \in [Runs -> Run] /\ points \in [Runs -> Profiles]
      /\ calls \in [Workers -> ShapedCalls] /\ TypeInv
  BY DEF LifeInv, TypeInv, TypeOK
<1>2. \A w \in Workers : calls[w].run = r => ~Writing(calls[w])
  BY DEF Writers
<1>3. points'[r] = points[r]
  <2>1. ASSUME NEW w \in Workers, BulkUpsertPoints(w)
        PROVE  points'[r] = points[r]
    <3>1. calls[w].run # r
      BY <1>1, <1>2, <2>1 DEF BulkUpsertPoints, ShapedCalls, Shape, Writing
    <3>2. QED
      BY <1>1, <2>1, <3>1 DEF BulkUpsertPoints
  <2>2. ASSUME NEW w \in Workers, NEW q \in Runs, NEW batch \in Batches,
               IngestBegin(w, q, batch)
        PROVE  points'[r] = points[r]
    BY <2>2 DEF IngestBegin, StoreUnchanged
  <2>3. QED
    BY <1>1, <2>1, <2>2, DataSteps
<1>4. run'[r] = run[r]
  <2>1. ASSUME NEW w \in Workers, SetWellRunMeta(w)
        PROVE  run'[r] = run[r]
    <3>1. calls[w].run # r
      BY <1>1, <1>2, <2>1 DEF SetWellRunMeta, ShapedCalls, Shape, Writing
    <3>2. QED
      BY <1>1, <2>1, <3>1 DEF SetWellRunMeta
  <2>2. ASSUME NEW w \in Workers, UpdateWellRunState(w)
        PROVE  run'[r] = run[r]
    <3> DEFINE to == TransitionTarget(calls[w].op)
    <3>1. /\ calls[w].pc = "tr_update" /\ calls[w].op \in {"ingest", "layer", "archive"}
          /\ run' = [run EXCEPT ![calls[w].run].state = to,
                                ![calls[w].run].archived = (to = "archived")]
      BY <1>1, <2>2 DEF UpdateWellRunState, ShapedCalls, Shape
    <3>2. CASE calls[w].run # r
      BY <1>1, <3>1, <3>2
    <3>3. CASE calls[w].run = r
      <4>1. run[r].state = "archived"
        BY DEF FlagInv
      <4>2. calls[w].op = "archive"
        BY <1>2, <3>1, <3>3 DEF Writing
      <4>3. to = "archived"
        BY <4>2 DEF TransitionTarget
      <4> HIDE DEF to
      <4>4. run[r] \in Run /\ run[r].archived = TRUE
        BY <1>1 DEF Run
      <4>5. run'[r] = [run[r] EXCEPT !.state = "archived", !.archived = TRUE]
        BY <1>1, <3>1, <3>3, <4>3
      <4>6. ASSUME NEW x \in Run, x.state = "archived", x.archived = TRUE
            PROVE  [x EXCEPT !.state = "archived", !.archived = TRUE] = x
        BY <4>6 DEF Run
      <4>7. QED
        BY <4>1, <4>4, <4>5, <4>6
    <3>4. QED
      BY <3>2, <3>3
  <2>3. QED
    BY <2>1, <2>2, RunSteps
<1>5. Intervals(segments'[r]) = Intervals(segments[r])
  <2>1. ASSUME NEW w \in Workers, ReplaceSegments(w)
        PROVE  segments'[r] = segments[r]
    <3>1. calls[w].run # r
      BY <1>2, <2>1 DEF ReplaceSegments, Writing, At
    <3>2. segments' = [segments EXCEPT ![calls[w].run] =
                          SegmentRows(lastSegID, calls[w].shape)]
      BY <2>1 DEF ReplaceSegments
    <3>3. QED
      BY <1>1, <3>1, <3>2 DEF TypeInv, TypeOK
  <2>2. ASSUME Confirm
        PROVE  Intervals(segments'[r]) = Intervals(segments[r])
    BY <1>1, <2>2, ConfirmKeepsIntervals DEF Confirm
  <2>3. QED
    BY <2>1, <2>2, SegmentSteps
<1>6. Writers(r)' = {}
  <2>1. ASSUME NEW v \in Workers, calls'[v].run = r, Writing(calls'[v])
        PROVE  FALSE
    BY <1>1, <1>2, <2>1, WriterSteps
  <2>2. Writers(r)' = {v \in Workers : calls'[v].run = r /\ Writing(calls'[v])}
    BY DEF Writers, Writing
  <2>3. QED
    BY <2>1, <2>2
<1>7. QED
  BY <1>3, <1>4, <1>5, <1>6

\* While ingestion is exclusive, an archived run is final as soon as the calls
\* that began before it was archived are over, for any number of workers that
\* correct, layer and archive it at once.
THEOREM ArchivedIsFinal == ExclusiveIngest => (Spec => ArchivedSettles)
<1> SUFFICES ASSUME ExclusiveIngest
             PROVE  Spec => ArchivedSettles
  OBVIOUS
<1> DEFINE Settles ==
      \A r \in Runs :
         run[r].archived /\ Writers(r) = {} =>
            /\ points'[r] = points[r]
            /\ run'[r] = run[r]
            /\ Intervals(segments'[r]) = Intervals(segments[r])
            /\ Writers(r)' = {}
<1>1. Init => LifeInv /\ FlagInv
  <2>1. Init => FlagInv
    BY DEF Init, FlagInv
  <2>2. QED
    BY <2>1, LifeInit
<1>2. LifeInv /\ FlagInv /\ [Next]_vars => (LifeInv /\ FlagInv)'
  BY LifeNext, FlagNext DEF LifeInv
<1>3. LifeInv /\ FlagInv /\ [Next]_vars => Settles
  BY Settled
<1> HIDE DEF Settles
<1>4. Spec => [][Settles]_vars
  BY <1>1, <1>2, <1>3, PTL DEF Spec
<1>5. QED
  BY <1>4 DEF Settles, ArchivedSettles
=============================================================================
