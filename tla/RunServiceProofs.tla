-------------------------- MODULE RunServiceProofs --------------------------
(***************************************************************************)
(* Theorems about RunService, for every set of runs, workers, requests and *)
(* profiles, with crashes and failing statements.                          *)
(***************************************************************************)
EXTENDS RunService, ProfileTheorems

-----------------------------------------------------------------------------
(* Type correctness *)

\* Which operation is at which statement, and on a run unless idle.
Shape(c) ==
    /\ c.pc = "idle" => c.op = "none" /\ c.run = NoRun
    /\ c.pc # "idle" => c.run \in Runs
    /\ c.pc = "upsert" => c.op \in {"ingest", "correct", "plan"}
    /\ c.pc = "meta" => c.op \in {"correct", "plan"}
    /\ c.pc = "list" => c.op \in {"correct", "plan", "layer"}
    /\ c.pc \in {"get", "replace", "release"} => c.op = "layer"
    /\ c.pc = "replace" => c.shape # <<>>
    /\ c.pc \in {"tr_get", "tr_update"} => c.op \in {"ingest", "layer", "archive"}

ShapedCalls == {c \in Call : Shape(c)}

\* Every variable has its type, and every call the shape of one in progress.
TypeInv == TypeOK /\ calls \in [Workers -> ShapedCalls]

LEMMA NoCallShaped == NoCall \in ShapedCalls
BY EmptyProfileType DEF NoCall, ShapedCalls, Shape, Call, AllOps, Labels, WellRunStates

\* A call that has just begun.
LEMMA BegunShaped ==
    ASSUME NEW op \in AllOps, NEW r \in Runs, NEW pc \in Labels,
           \/ pc = "upsert" /\ op \in {"ingest", "correct", "plan"}
           \/ pc = "list" /\ op \in {"correct", "plan", "layer"}
           \/ pc = "get" /\ op = "layer"
           \/ pc = "tr_get" /\ op \in {"ingest", "layer", "archive"}
    PROVE  [NoCall EXCEPT !.op = op, !.run = r, !.pc = pc] \in ShapedCalls
<1> DEFINE c == [NoCall EXCEPT !.op = op, !.run = r, !.pc = pc]
<1>1. c \in Call /\ c.op = op /\ c.run = r /\ c.pc = pc
  BY NoCallShaped DEF ShapedCalls, Call
<1> HIDE DEF c
<1>2. Shape(c)
  BY <1>1 DEF Shape
<1>3. QED
  BY <1>1, <1>2 DEF ShapedCalls, c

\* An early return of a call in flight leaves shaped calls.
LEMMA AbandonShaped ==
    ASSUME TypeInv, NEW w \in Workers, calls[w].pc # "idle", Abandon(w)
    PROVE  calls' \in [Workers -> ShapedCalls]
<1>1. CASE Return(w)
  BY <1>1, NoCallShaped DEF Return, Set, TypeInv
<1>2. CASE calls[w].op = "layer" /\ Goto(w, "release")
  <2> DEFINE c == [calls[w] EXCEPT !.pc = "release"]
  <2>1. calls[w] \in Call /\ calls[w].run \in Runs
    BY DEF TypeInv, ShapedCalls, Shape
  <2>2. c \in Call /\ c.op = "layer" /\ c.run \in Runs /\ c.pc = "release"
    BY <1>2, <2>1 DEF Call, Labels
  <2>3. calls' = [calls EXCEPT ![w] = c]
    BY <1>2 DEF Goto, Set
  <2> HIDE DEF c
  <2>4. c \in ShapedCalls
    BY <2>2 DEF ShapedCalls, Shape
  <2>5. QED
    BY <2>3, <2>4 DEF TypeInv
<1>3. QED
  BY <1>1, <1>2 DEF Abandon

\* Proposed rows leave shaped calls.
LEMMA ProposeShaped ==
    ASSUME TypeInv, NEW w \in Workers,
           calls[w].op \in {"correct", "plan"}, calls[w].pc = "list",
           NEW corrections \in
               SUBSET [pts : Profiles, basis : Int, disturbance : BOOLEAN],
           Propose(w, corrections)
    PROVE  calls' \in [Workers -> ShapedCalls]
<1>1. CASE Return(w)
  BY <1>1, NoCallShaped DEF Return, Set, TypeInv
<1>2. ASSUME NEW k \in corrections,
             Set(w, [calls[w] EXCEPT !.pc = "upsert", !.pts = k.pts,
                                     !.basis = k.basis,
                                     !.disturbance = k.disturbance])
      PROVE  calls' \in [Workers -> ShapedCalls]
  <2> DEFINE c == [calls[w] EXCEPT !.pc = "upsert", !.pts = k.pts,
                                   !.basis = k.basis,
                                   !.disturbance = k.disturbance]
  <2>1. k \in [pts : Profiles, basis : Int, disturbance : BOOLEAN]
    BY <1>2
  <2>2. calls[w] \in Call /\ calls[w].run \in Runs
    BY DEF TypeInv, ShapedCalls, Shape
  <2>3. /\ c \in Call /\ c.op \in {"correct", "plan"}
        /\ c.run \in Runs /\ c.pc = "upsert"
    BY <2>1, <2>2 DEF Call, Labels
  <2>4. calls' = [calls EXCEPT ![w] = c]
    BY <1>2 DEF Set
  <2> HIDE DEF c
  <2>5. c \in ShapedCalls
    BY <2>3 DEF ShapedCalls, Shape
  <2>6. QED
    BY <2>4, <2>5 DEF TypeInv
<1>3. QED
  BY <1>1, <1>2 DEF Propose

LEMMA InitType == Init => TypeInv
<1>1. NoCall \in Call
  BY NoCallShaped DEF ShapedCalls
<1>2. QED
  BY <1>1, NoCallShaped, EmptyProfileType DEF Init, TypeInv, TypeOK, Run, WellRunStates

\* The states of segment rows under an update by id.
LEMMA UpdateSegmentStateType ==
    ASSUME NEW rows \in SUBSET Segment, NEW id, NEW st \in SegmentStates
    PROVE  UpdateSegmentState(rows, id, st) \in SUBSET Segment
BY DEF UpdateSegmentState, Segment

\* The rows one layering pass inserts.
LEMMA SegmentRowsType ==
    ASSUME NEW last \in Nat, NEW shape \in Seq(FoundSegment)
    PROVE  SegmentRows(last, shape) \in SUBSET Segment
<1>1. ASSUME NEW i \in 1..Len(shape)
      PROVE  /\ shape[i].top \in Int /\ shape[i].state \in SegmentStates
             /\ last + i \in Nat \ {0} /\ i \in Nat \ {0}
  <2>1. shape[i] \in FoundSegment
    BY ElementOfSeq
  <2>2. QED
    BY <2>1 DEF FoundSegment, SegmentStates
<1>2. ASSUME NEW i \in 1..Len(shape)
      PROVE  [id |-> last + i, idx |-> i, top |-> shape[i].top,
              state |-> shape[i].state, confirmed |-> FALSE] \in Segment
  BY <1>1 DEF Segment
<1>3. QED
  BY <1>2 DEF SegmentRows

LEMMA NextType == TypeInv /\ [Next]_vars => TypeInv'
<1> SUFFICES ASSUME TypeInv, [Next]_vars
             PROVE  TypeInv'
  OBVIOUS
<1> USE DEF At
<1>1. ASSUME NEW w \in Workers, NEW r \in Runs, NEW batch \in Batches,
             IngestBegin(w, r, batch)
      PROVE  TypeInv'
  <2> DEFINE c == [NoCall EXCEPT !.op = "ingest", !.run = r, !.pc = "upsert",
                                 !.seen = run[r].state,
                                 !.pts = ToMeasurePoints(batch)]
  <2>1. calls' = [calls EXCEPT ![w] = c]
    BY <1>1 DEF IngestBegin, Set
  <2>2. ToMeasurePoints(batch) \in Profiles /\ run[r].state \in WellRunStates
    BY ToMeasurePointsType, RunServiceAssumption DEF TypeInv, TypeOK, Run
  <2>3. c \in Call /\ c.op = "ingest" /\ c.run = r /\ c.pc = "upsert"
    BY <2>2, NoCallShaped DEF ShapedCalls, Call, AllOps, Labels
  <2> HIDE DEF c
  <2>4. c \in ShapedCalls
    BY <2>3 DEF ShapedCalls, Shape
  <2>5. QED
    BY <1>1, <2>1, <2>3, <2>4 DEF TypeInv, TypeOK, IngestBegin, StoreUnchanged
<1>2. ASSUME NEW w \in Workers, NEW r \in Runs, NEW op \in {"correct", "plan"},
             CorrectBegin(w, op, r)
      PROVE  TypeInv'
  <2> DEFINE c == [NoCall EXCEPT !.op = op, !.run = r, !.pc = "list",
                                 !.disturbance = run[r].disturbance]
  <2>1. calls' = [calls EXCEPT ![w] = c]
    BY <1>2 DEF CorrectBegin, Set
  <2>2. run[r].disturbance \in BOOLEAN
    BY DEF TypeInv, TypeOK, Run
  <2>3. c \in Call /\ c.op = op /\ c.run = r /\ c.pc = "list"
    BY <2>2, NoCallShaped DEF ShapedCalls, Call, AllOps, Labels
  <2> HIDE DEF c
  <2>4. c \in ShapedCalls
    BY <2>3 DEF ShapedCalls, Shape
  <2>5. QED
    BY <1>2, <2>1, <2>3, <2>4 DEF TypeInv, TypeOK, CorrectBegin, StoreUnchanged
<1>3. ASSUME NEW w \in Workers, NEW ref \in References, CorrectCompute(w, ref)
      PROVE  TypeInv'
  <2> DEFINE p == points[calls[w].run]
             corrections == {[pts |-> Apply(p, k.offset), basis |-> k.basis,
                              disturbance |-> k.disturbance] : k \in Compute(p, ref)}
  <2>1. calls[w].run \in Runs /\ p \in Profiles /\ ref \in Int
    BY <1>3, RunServiceAssumption
       DEF CorrectCompute, TypeInv, TypeOK, ShapedCalls, Shape
  <2>2. corrections \in SUBSET [pts : Profiles, basis : Int, disturbance : BOOLEAN]
    BY <2>1, ApplyType, ComputeType DEF Correction
  <2>3. Propose(w, corrections) /\ calls[w].op = "correct" /\ calls[w].pc = "list"
    BY <1>3 DEF CorrectCompute
  <2> HIDE DEF corrections
  <2>4. calls' \in [Workers -> ShapedCalls]
    BY <2>2, <2>3, ProposeShaped
  <2>5. QED
    BY <1>3, <2>4 DEF TypeInv, TypeOK, ShapedCalls, CorrectCompute, StoreUnchanged
<1>4. ASSUME NEW w \in Workers, NEW request \in PlanRequests,
             PlanCompute(w, request)
      PROVE  TypeInv'
  <2> DEFINE p == points[calls[w].run]
             plans == {plan \in Build(request.strategy, request.markers) : Rows(p) # {}}
             corrections == {[pts |-> ApplyPoints(p, plan), basis |-> plan.offset,
                              disturbance |-> calls[w].disturbance] : plan \in plans}
  <2>1. calls[w].run \in Runs /\ p \in Profiles /\ calls[w].disturbance \in BOOLEAN
    BY <1>4 DEF PlanCompute, TypeInv, TypeOK, ShapedCalls, Shape, Call
  <2>2. request \in [strategy : {"offset", "tie_point", "stretch"},
                     markers : Seq(Marker)]
    BY RunServiceAssumption
  <2>3. plans \subseteq Plan
    BY <2>2, BuildType
  <2>4. corrections \in SUBSET [pts : Profiles, basis : Int, disturbance : BOOLEAN]
    BY <2>1, <2>3, ApplyPointsType DEF Plan
  <2>5. Propose(w, corrections) /\ calls[w].op = "plan" /\ calls[w].pc = "list"
    BY <1>4 DEF PlanCompute
  <2> HIDE DEF corrections
  <2>6. calls' \in [Workers -> ShapedCalls]
    BY <2>4, <2>5, ProposeShaped
  <2>7. QED
    BY <1>4, <2>6 DEF TypeInv, TypeOK, ShapedCalls, PlanCompute, StoreUnchanged
<1>5. ASSUME NEW w \in Workers, BulkUpsertPoints(w)
      PROVE  TypeInv'
  <2>1. /\ calls[w] \in Call /\ calls[w].run \in Runs /\ calls[w].pts \in Profiles
        /\ calls[w].op \in {"ingest", "correct", "plan"}
    BY <1>5 DEF BulkUpsertPoints, TypeInv, ShapedCalls, Shape, Call
  <2>2. Upsert(points[calls[w].run], calls[w].pts) \in Profiles
    BY <2>1, UpsertType DEF TypeInv, TypeOK
  <2>3. points' \in [Runs -> Profiles]
    BY <1>5, <2>2 DEF BulkUpsertPoints, TypeInv, TypeOK
  <2>4. CASE calls[w].op = "ingest" /\ Begin(w, calls[w].op, calls[w].run, "tr_get")
    <3>1. [NoCall EXCEPT !.op = calls[w].op, !.run = calls[w].run, !.pc = "tr_get"]
             \in ShapedCalls
      BY <2>1, <2>4, BegunShaped DEF AllOps, Labels
    <3>2. calls' \in [Workers -> ShapedCalls]
      BY <2>4, <3>1 DEF Begin, Set, TypeInv
    <3>3. QED
      BY <1>5, <2>3, <3>2 DEF BulkUpsertPoints, TypeInv, TypeOK, ShapedCalls
  <2>5. CASE Return(w)
    <3>1. calls' \in [Workers -> ShapedCalls]
      BY <2>5, NoCallShaped DEF Return, Set, TypeInv
    <3>2. QED
      BY <1>5, <2>3, <3>1 DEF BulkUpsertPoints, TypeInv, TypeOK, ShapedCalls
  <2>6. CASE calls[w].op # "ingest" /\ Goto(w, "meta")
    <3> DEFINE c == [calls[w] EXCEPT !.pc = "meta"]
    <3>1. /\ c \in Call /\ c.op \in {"correct", "plan"}
          /\ c.run \in Runs /\ c.pc = "meta"
      BY <2>1, <2>6 DEF Call, Labels
    <3>2. calls' = [calls EXCEPT ![w] = c]
      BY <2>6 DEF Goto, Set
    <3> HIDE DEF c
    <3>3. calls' \in [Workers -> ShapedCalls]
      BY <3>1, <3>2 DEF TypeInv, ShapedCalls, Shape
    <3>4. QED
      BY <1>5, <2>3, <3>3 DEF BulkUpsertPoints, TypeInv, TypeOK, ShapedCalls
  <2>7. QED
    BY <1>5, <2>4, <2>5, <2>6 DEF BulkUpsertPoints
<1>6. ASSUME NEW w \in Workers, SetWellRunMeta(w)
      PROVE  TypeInv'
  <2>1. calls[w].basis \in Int /\ calls[w].disturbance \in BOOLEAN
    BY DEF TypeInv, TypeOK, Call
  <2>2. run' \in [Runs -> Run]
    BY <1>6, <2>1 DEF SetWellRunMeta, TypeInv, TypeOK, Run
  <2>3. calls' \in [Workers -> ShapedCalls]
    BY <1>6, NoCallShaped DEF SetWellRunMeta, Return, Set, TypeInv
  <2>4. QED
    BY <1>6, <2>2, <2>3 DEF SetWellRunMeta, TypeInv, TypeOK, ShapedCalls
<1>7. ASSUME NEW w \in Workers, NEW r \in Runs, LayerLock(w, r)
      PROVE  TypeInv'
  <2>1. [NoCall EXCEPT !.op = "layer", !.run = r, !.pc = "get"] \in ShapedCalls
    BY BegunShaped DEF AllOps, Labels
  <2>2. calls' \in [Workers -> ShapedCalls]
    BY <1>7, <2>1 DEF LayerLock, Begin, Set, TypeInv
  <2>3. QED
    BY <1>7, <2>2 DEF LayerLock, StoreUnchanged, TypeInv, TypeOK, ShapedCalls
<1>8. ASSUME NEW w \in Workers, LayerGet(w)
      PROVE  TypeInv'
  <2>1. /\ calls[w] \in Call /\ calls[w].run \in Runs
        /\ calls[w].op = "layer" /\ calls[w].pc = "get"
        /\ run[calls[w].run].state \in WellRunStates
    BY <1>8 DEF LayerGet, TypeInv, TypeOK, ShapedCalls, Shape, Run
  <2>2. CASE Abandon(w)
    <3>1. calls' \in [Workers -> ShapedCalls]
      BY <2>1, <2>2, AbandonShaped
    <3>2. QED
      BY <1>8, <3>1 DEF LayerGet, StoreUnchanged, TypeInv, TypeOK, ShapedCalls
  <2>3. CASE Set(w, [calls[w] EXCEPT !.pc = "list",
                                     !.seen = run[calls[w].run].state])
    <3> DEFINE c == [calls[w] EXCEPT !.pc = "list",
                                     !.seen = run[calls[w].run].state]
    <3>1. c \in Call /\ c.op = "layer" /\ c.run \in Runs /\ c.pc = "list"
      BY <2>1 DEF Call, Labels
    <3>2. calls' = [calls EXCEPT ![w] = c]
      BY <2>3 DEF Set
    <3> HIDE DEF c
    <3>3. calls' \in [Workers -> ShapedCalls]
      BY <3>1, <3>2 DEF TypeInv, ShapedCalls, Shape
    <3>4. QED
      BY <1>8, <3>3 DEF LayerGet, StoreUnchanged, TypeInv, TypeOK, ShapedCalls
  <2>4. QED
    BY <1>8, <2>2, <2>3 DEF LayerGet
<1>9. ASSUME NEW w \in Workers, LayerCompute(w)
      PROVE  TypeInv'
  <2>1. /\ calls[w] \in Call /\ calls[w].run \in Runs
        /\ calls[w].op = "layer" /\ calls[w].pc = "list"
    BY <1>9 DEF LayerCompute, TypeInv, ShapedCalls, Shape
  <2>2. CASE Abandon(w)
    <3>1. calls' \in [Workers -> ShapedCalls]
      BY <2>1, <2>2, AbandonShaped
    <3>2. QED
      BY <1>9, <3>1 DEF LayerCompute, StoreUnchanged, TypeInv, TypeOK, ShapedCalls
  <2>3. ASSUME NEW shape \in SegmentShapes,
               Set(w, [calls[w] EXCEPT !.pc = "replace", !.shape = shape])
        PROVE  TypeInv'
    <3> DEFINE c == [calls[w] EXCEPT !.pc = "replace", !.shape = shape]
    <3>1. shape \in Seq(FoundSegment) /\ shape # <<>>
      BY RunServiceAssumption
    <3>2. /\ c \in Call /\ c.op = "layer" /\ c.run \in Runs
          /\ c.pc = "replace" /\ c.shape # <<>>
      BY <2>1, <3>1 DEF Call, Labels
    <3>3. calls' = [calls EXCEPT ![w] = c]
      BY <2>3 DEF Set
    <3> HIDE DEF c
    <3>4. calls' \in [Workers -> ShapedCalls]
      BY <3>2, <3>3 DEF TypeInv, ShapedCalls, Shape
    <3>5. QED
      BY <1>9, <3>4 DEF LayerCompute, StoreUnchanged, TypeInv, TypeOK, ShapedCalls
  <2>4. QED
    BY <1>9, <2>2, <2>3 DEF LayerCompute
<1>10. ASSUME NEW w \in Workers, ReplaceSegments(w)
       PROVE  TypeInv'
  <2>1. calls[w].run \in Runs /\ calls[w].shape \in Seq(FoundSegment)
    BY <1>10 DEF ReplaceSegments, TypeInv, ShapedCalls, Shape, Call
  <2>2. segments' \in [Runs -> SUBSET Segment]
    BY <1>10, <2>1, SegmentRowsType DEF ReplaceSegments, TypeInv, TypeOK
  <2>3. lastSegID' \in Nat
    BY <1>10, <2>1 DEF ReplaceSegments, TypeInv, TypeOK
  <2>4. [NoCall EXCEPT !.op = "layer", !.run = calls[w].run, !.pc = "tr_get"]
           \in ShapedCalls
    BY <2>1, BegunShaped DEF AllOps, Labels
  <2>5. calls' \in [Workers -> ShapedCalls]
    BY <1>10, <2>4 DEF ReplaceSegments, Begin, Set, TypeInv
  <2>6. QED
    BY <1>10, <2>2, <2>3, <2>5 DEF ReplaceSegments, TypeInv, TypeOK, ShapedCalls
<1>11. ASSUME NEW w \in Workers, LayerRelease(w)
       PROVE  TypeInv'
  <2>1. calls' \in [Workers -> ShapedCalls]
    BY <1>11, NoCallShaped DEF LayerRelease, Return, Set, TypeInv
  <2>2. QED
    BY <1>11, <2>1 DEF LayerRelease, StoreUnchanged, TypeInv, TypeOK, ShapedCalls
<1>12. ASSUME NEW w \in Workers, NEW r \in Runs, ArchiveBegin(w, r)
       PROVE  TypeInv'
  <2>1. [NoCall EXCEPT !.op = "archive", !.run = r, !.pc = "tr_get"] \in ShapedCalls
    BY BegunShaped DEF AllOps, Labels
  <2>2. calls' \in [Workers -> ShapedCalls]
    BY <1>12, <2>1 DEF ArchiveBegin, Begin, Set, TypeInv
  <2>3. QED
    BY <1>12, <2>2 DEF ArchiveBegin, StoreUnchanged, TypeInv, TypeOK, ShapedCalls
<1>13. ASSUME NEW w \in Workers, TransitionGet(w)
       PROVE  TypeInv'
  <2>1. /\ calls[w] \in Call /\ calls[w].run \in Runs /\ calls[w].pc = "tr_get"
        /\ calls[w].op \in {"ingest", "layer", "archive"}
    BY <1>13 DEF TransitionGet, TypeInv, ShapedCalls, Shape
  <2>2. CASE Abandon(w)
    <3>1. calls' \in [Workers -> ShapedCalls]
      BY <2>1, <2>2, AbandonShaped
    <3>2. QED
      BY <1>13, <3>1 DEF TransitionGet, StoreUnchanged, TypeInv, TypeOK, ShapedCalls
  <2>3. CASE Goto(w, "tr_update")
    <3> DEFINE c == [calls[w] EXCEPT !.pc = "tr_update"]
    <3>1. /\ c \in Call /\ c.op \in {"ingest", "layer", "archive"}
          /\ c.run \in Runs /\ c.pc = "tr_update"
      BY <2>1 DEF Call, Labels
    <3>2. calls' = [calls EXCEPT ![w] = c]
      BY <2>3 DEF Goto, Set
    <3> HIDE DEF c
    <3>3. calls' \in [Workers -> ShapedCalls]
      BY <3>1, <3>2 DEF TypeInv, ShapedCalls, Shape
    <3>4. QED
      BY <1>13, <3>3 DEF TransitionGet, StoreUnchanged, TypeInv, TypeOK, ShapedCalls
  <2>4. QED
    BY <1>13, <2>2, <2>3 DEF TransitionGet
<1>14. ASSUME NEW w \in Workers, UpdateWellRunState(w)
       PROVE  TypeInv'
  <2>1. /\ calls[w].run \in Runs /\ calls[w].pc # "idle"
        /\ calls[w].op \in {"ingest", "layer", "archive"}
    BY <1>14 DEF UpdateWellRunState, TypeInv, ShapedCalls, Shape
  <2> DEFINE to == TransitionTarget(calls[w].op)
  <2>2. to \in WellRunStates /\ (to = "archived") \in BOOLEAN
    BY <2>1 DEF TransitionTarget, WellRunStates
  <2>3. run' = [run EXCEPT ![calls[w].run].state = to,
                           ![calls[w].run].archived = (to = "archived")]
    BY <1>14 DEF UpdateWellRunState
  <2> HIDE DEF to
  <2>4. run' \in [Runs -> Run]
    BY <2>1, <2>2, <2>3 DEF TypeInv, TypeOK, Run
  <2>5. calls' \in [Workers -> ShapedCalls]
    BY <1>14, <2>1, AbandonShaped DEF UpdateWellRunState
  <2>6. QED
    BY <1>14, <2>4, <2>5 DEF UpdateWellRunState, TypeInv, TypeOK, ShapedCalls
<1>15. ASSUME NEW id \in 1..lastSegID, NEW st \in {"stable", "anomaly", "confirmed"},
              ConfirmSegment(id, st)
       PROVE  TypeInv'
  <2>1. st \in SegmentStates
    BY DEF SegmentStates
  <2>2. segments' \in [Runs -> SUBSET Segment]
    BY <1>15, <2>1, UpdateSegmentStateType DEF ConfirmSegment, TypeInv, TypeOK
  <2>3. QED
    BY <1>15, <2>2 DEF ConfirmSegment, TypeInv, TypeOK
<1>16. ASSUME NEW w \in Workers, Fail(w)
       PROVE  TypeInv'
  <2>1. calls' \in [Workers -> ShapedCalls]
    BY <1>16, AbandonShaped DEF Fail
  <2>2. QED
    BY <1>16, <2>1 DEF Fail, StoreUnchanged, TypeInv, TypeOK, ShapedCalls
<1>17. CASE Crash
  BY <1>17, NoCallShaped DEF Crash, StoreUnchanged, TypeInv, TypeOK, ShapedCalls
<1>18. CASE UNCHANGED vars
  BY <1>18 DEF vars, TypeInv, TypeOK
<1>19. QED
  BY <1>1, <1>2, <1>3, <1>4, <1>5, <1>6, <1>7, <1>8, <1>9, <1>10, <1>11, <1>12,
     <1>13, <1>14, <1>15, <1>16, <1>17, <1>18
     DEF Next, Step, Fault, Request, Continue, Confirm

\* Every variable keeps its type, through crashes and failing statements: each
\* call writes only profiles, states and segment rows the tables can hold.
THEOREM TypeCorrect == Spec => []TypeOK
<1>1. Spec => []TypeInv
  BY InitType, NextType, PTL DEF Spec
<1>2. TypeInv => TypeOK
  BY DEF TypeInv
<1>3. QED
  BY <1>1, <1>2, PTL

-----------------------------------------------------------------------------
(* The layering lock *)

\* Steps that take no lock and give none back leave every Layer call where it
\* is: same worker, same run.
LEMMA LockSteps ==
    ASSUME TypeInv, [Next]_vars
    PROVE  \/ \E w \in Workers, r \in Runs : LayerLock(w, r)
           \/ \E w \in Workers : LayerRelease(w)
           \/ Crash
           \/ /\ layering' = layering
              /\ \A v \in Workers :
                    /\ calls'[v].op = "layer" <=> calls[v].op = "layer"
                    /\ calls[v].op = "layer" => calls'[v].run = calls[v].run
<1> USE DEF At
<1> DEFINE Same == /\ layering' = layering
                   /\ \A v \in Workers :
                         /\ calls'[v].op = "layer" <=> calls[v].op = "layer"
                         /\ calls[v].op = "layer" => calls'[v].run = calls[v].run
<1>1. calls \in [Workers -> ShapedCalls] /\ NoCall.op = "none"
  BY DEF TypeInv, NoCall
\* The three ways the call of a worker changes without touching the lock.
<1>2. ASSUME NEW w \in Workers, NEW c, Set(w, c), layering' = layering,
             c.op = calls[w].op, c.run = calls[w].run
      PROVE  Same
  BY <1>1, <1>2 DEF Set
<1>3. ASSUME NEW w \in Workers, NEW c, Set(w, c), layering' = layering,
             c.op # "layer", calls[w].op # "layer"
      PROVE  Same
  BY <1>1, <1>3 DEF Set
<1>4. ASSUME NEW w \in Workers, Abandon(w), layering' = layering
      PROVE  Same
  <2>1. CASE calls[w].op = "layer" /\ Goto(w, "release")
    <3>1. /\ [calls[w] EXCEPT !.pc = "release"].op = calls[w].op
          /\ [calls[w] EXCEPT !.pc = "release"].run = calls[w].run
      BY <1>1 DEF ShapedCalls, Call
    <3>2. QED
      BY <1>2, <1>4, <2>1, <3>1 DEF Goto
  <2>2. CASE calls[w].op # "layer" /\ Return(w)
    BY <1>1, <1>3, <1>4, <2>2 DEF Return
  <2>3. QED
    BY <1>4, <2>1, <2>2 DEF Abandon
<1> HIDE DEF Same
<1>5. ASSUME NEW w \in Workers, calls[w].pc = "idle"
      PROVE  calls[w].op # "layer"
  BY <1>1, <1>5 DEF ShapedCalls, Shape
<1>6. ASSUME NEW w \in Workers, NEW r \in Runs, NEW batch \in Batches,
             IngestBegin(w, r, batch)
      PROVE  Same
  <2> DEFINE c == [NoCall EXCEPT !.op = "ingest", !.run = r, !.pc = "upsert",
                                 !.seen = run[r].state,
                                 !.pts = ToMeasurePoints(batch)]
  <2>1. Set(w, c) /\ layering' = layering /\ calls[w].op # "layer"
    BY <1>5, <1>6 DEF IngestBegin, MayBegin
  <2>2. c.op # "layer"
    BY DEF NoCall
  <2> HIDE DEF c
  <2>3. QED
    BY <1>3, <2>1, <2>2
<1>7. ASSUME NEW w \in Workers, NEW r \in Runs, NEW op \in {"correct", "plan"},
             CorrectBegin(w, op, r)
      PROVE  Same
  <2> DEFINE c == [NoCall EXCEPT !.op = op, !.run = r, !.pc = "list",
                                 !.disturbance = run[r].disturbance]
  <2>1. Set(w, c) /\ layering' = layering /\ calls[w].op # "layer"
    BY <1>5, <1>7 DEF CorrectBegin, MayBegin
  <2>2. c.op # "layer"
    BY DEF NoCall
  <2> HIDE DEF c
  <2>3. QED
    BY <1>3, <2>1, <2>2
<1>8. ASSUME NEW w \in Workers, NEW corrections, Propose(w, corrections),
             calls[w].op # "layer", layering' = layering
      PROVE  Same
  <2>1. CASE Return(w)
    BY <1>1, <1>3, <1>8, <2>1 DEF Return
  <2>2. ASSUME NEW k, Set(w, [calls[w] EXCEPT !.pc = "upsert", !.pts = k.pts,
                                              !.basis = k.basis,
                                              !.disturbance = k.disturbance])
        PROVE  Same
    <3> DEFINE c == [calls[w] EXCEPT !.pc = "upsert", !.pts = k.pts,
                                     !.basis = k.basis,
                                     !.disturbance = k.disturbance]
    <3>1. c.op = calls[w].op
      BY <1>1 DEF ShapedCalls, Call
    <3>2. Set(w, c)
      BY <2>2
    <3> HIDE DEF c
    <3>3. QED
      BY <1>3, <1>8, <3>1, <3>2
  <2>3. QED
    BY <1>8, <2>1, <2>2 DEF Propose
<1>9. ASSUME NEW w \in Workers, NEW ref \in References, CorrectCompute(w, ref)
      PROVE  Same
  BY <1>8, <1>9 DEF CorrectCompute
<1>10. ASSUME NEW w \in Workers, NEW request \in PlanRequests,
              PlanCompute(w, request)
       PROVE  Same
  BY <1>8, <1>10 DEF PlanCompute
<1>11. ASSUME NEW w \in Workers, BulkUpsertPoints(w)
       PROVE  Same
  <2>1. calls[w].op # "layer" /\ layering' = layering
    BY <1>1, <1>11 DEF BulkUpsertPoints, ShapedCalls, Shape
  <2>2. CASE Return(w)
    BY <1>1, <1>3, <2>1, <2>2 DEF Return
  <2>3. CASE Begin(w, calls[w].op, calls[w].run, "tr_get")
    <3> DEFINE c == [NoCall EXCEPT !.op = calls[w].op, !.run = calls[w].run,
                                   !.pc = "tr_get"]
    <3>1. c.op # "layer"
      BY <2>1 DEF NoCall
    <3>2. Set(w, c)
      BY <2>3 DEF Begin
    <3> HIDE DEF c
    <3>3. QED
      BY <1>3, <2>1, <3>1, <3>2
  <2>4. CASE Goto(w, "meta")
    <3>1. [calls[w] EXCEPT !.pc = "meta"].op # "layer"
      BY <1>1, <2>1 DEF ShapedCalls, Call
    <3>2. QED
      BY <1>3, <2>1, <2>4, <3>1 DEF Goto
  <2>5. QED
    BY <1>11, <2>2, <2>3, <2>4 DEF BulkUpsertPoints
<1>12. ASSUME NEW w \in Workers, SetWellRunMeta(w)
       PROVE  Same
  <2>1. calls[w].op # "layer" /\ layering' = layering /\ Return(w)
    BY <1>1, <1>12 DEF SetWellRunMeta, ShapedCalls, Shape
  <2>2. QED
    BY <1>1, <1>3, <2>1 DEF Return
<1>13. ASSUME NEW w \in Workers, LayerGet(w)
       PROVE  Same
  <2> DEFINE c == [calls[w] EXCEPT !.pc = "list",
                                   !.seen = run[calls[w].run].state]
  <2>1. c.op = calls[w].op /\ c.run = calls[w].run
    BY <1>1 DEF ShapedCalls, Call
  <2>2. layering' = layering /\ (Abandon(w) \/ Set(w, c))
    BY <1>13 DEF LayerGet
  <2> HIDE DEF c
  <2>3. QED
    BY <1>2, <1>4, <2>1, <2>2
<1>14. ASSUME NEW w \in Workers, LayerCompute(w)
       PROVE  Same
  <2>1. CASE Abandon(w)
    BY <1>4, <1>14, <2>1 DEF LayerCompute
  <2>2. ASSUME NEW shape \in SegmentShapes,
               Set(w, [calls[w] EXCEPT !.pc = "replace", !.shape = shape])
        PROVE  Same
    <3> DEFINE c == [calls[w] EXCEPT !.pc = "replace", !.shape = shape]
    <3>1. c.op = calls[w].op /\ c.run = calls[w].run
      BY <1>1 DEF ShapedCalls, Call
    <3>2. Set(w, c) /\ layering' = layering
      BY <1>14, <2>2 DEF LayerCompute
    <3> HIDE DEF c
    <3>3. QED
      BY <1>2, <3>1, <3>2
  <2>3. QED
    BY <1>14, <2>1, <2>2 DEF LayerCompute
<1>15. ASSUME NEW w \in Workers, ReplaceSegments(w)
       PROVE  Same
  <2> DEFINE c == [NoCall EXCEPT !.op = "layer", !.run = calls[w].run,
                                 !.pc = "tr_get"]
  <2>1. c.op = calls[w].op /\ c.run = calls[w].run
    BY <1>15 DEF ReplaceSegments, NoCall
  <2>2. Set(w, c) /\ layering' = layering
    BY <1>15 DEF ReplaceSegments, Begin
  <2> HIDE DEF c
  <2>3. QED
    BY <1>2, <2>1, <2>2
<1>16. ASSUME NEW w \in Workers, NEW r \in Runs, ArchiveBegin(w, r)
       PROVE  Same
  <2> DEFINE c == [NoCall EXCEPT !.op = "archive", !.run = r, !.pc = "tr_get"]
  <2>1. c.op # "layer"
    BY DEF NoCall
  <2>2. Set(w, c) /\ layering' = layering /\ calls[w].op # "layer"
    BY <1>5, <1>16 DEF ArchiveBegin, Begin, MayBegin
  <2> HIDE DEF c
  <2>3. QED
    BY <1>3, <2>1, <2>2
<1>17. ASSUME NEW w \in Workers, TransitionGet(w)
       PROVE  Same
  <2>1. CASE Goto(w, "tr_update")
    <3>1. /\ [calls[w] EXCEPT !.pc = "tr_update"].op = calls[w].op
          /\ [calls[w] EXCEPT !.pc = "tr_update"].run = calls[w].run
      BY <1>1 DEF ShapedCalls, Call
    <3>2. QED
      BY <1>2, <1>17, <2>1, <3>1 DEF Goto, TransitionGet
  <2>2. CASE Abandon(w)
    BY <1>4, <1>17, <2>2 DEF TransitionGet
  <2>3. QED
    BY <1>17, <2>1, <2>2 DEF TransitionGet
<1>18. ASSUME NEW w \in Workers, UpdateWellRunState(w)
       PROVE  Same
  BY <1>4, <1>18 DEF UpdateWellRunState
<1>19. ASSUME NEW w \in Workers, Fail(w)
       PROVE  Same
  BY <1>4, <1>19 DEF Fail
<1>20. CASE Confirm \/ UNCHANGED vars
  BY <1>20 DEF Same, Confirm, ConfirmSegment, vars
<1>21. QED
  BY <1>6, <1>7, <1>9, <1>10, <1>11, <1>12, <1>13, <1>14, <1>15, <1>16, <1>17,
     <1>18, <1>19, <1>20
     DEF Same, Next, Step, Fault, Request, Continue

LEMMA LockInit == Init => LayeringSerial
BY DEF Init, LayeringSerial, LayerCalls, NoCall

LEMMA LockNext == TypeInv /\ LayeringSerial /\ [Next]_vars => LayeringSerial'
<1> SUFFICES ASSUME TypeInv, LayeringSerial, [Next]_vars
             PROVE  LayeringSerial'
  OBVIOUS
<1> USE DEF LayeringSerial, LayerCalls
<1>1. calls \in [Workers -> ShapedCalls]
  BY DEF TypeInv
<1>2. ASSUME NEW w \in Workers, NEW r \in Runs, LayerLock(w, r)
      PROVE  LayeringSerial'
  <2> DEFINE c == [NoCall EXCEPT !.op = "layer", !.run = r, !.pc = "get"]
  <2>1. c.op = "layer" /\ c.run = r
    BY DEF NoCall
  <2>2. /\ calls' = [calls EXCEPT ![w] = c]
        /\ r \notin layering /\ layering' = layering \cup {r}
        /\ calls[w].pc = "idle"
    BY <1>2 DEF LayerLock, Begin, Set, MayBegin
  <2>3. calls[w].op # "layer"
    BY <1>1, <2>2 DEF ShapedCalls, Shape
  <2> HIDE DEF c
  <2>4. \A v \in Workers : v # w => calls'[v] = calls[v]
    BY <1>1, <2>2
  <2>5. calls'[w] = c
    BY <1>1, <2>2
  <2>6. QED
    BY <2>1, <2>2, <2>3, <2>4, <2>5
<1>3. ASSUME NEW w \in Workers, LayerRelease(w)
      PROVE  LayeringSerial'
  <2>1. /\ calls' = [calls EXCEPT ![w] = NoCall] /\ NoCall.op # "layer"
        /\ layering' = layering \ {calls[w].run}
        /\ calls[w].op = "layer"
    BY <1>3 DEF LayerRelease, Return, Set, At, NoCall
  <2>2. calls'[w].op # "layer" /\ \A v \in Workers : v # w => calls'[v] = calls[v]
    BY <1>1, <2>1
  <2>3. QED
    BY <2>1, <2>2
<1>4. CASE Crash
  BY <1>4 DEF Crash, NoCall
<1>5. CASE /\ layering' = layering
           /\ \A v \in Workers :
                 /\ calls'[v].op = "layer" <=> calls[v].op = "layer"
                 /\ calls[v].op = "layer" => calls'[v].run = calls[v].run
  BY <1>5
<1>6. QED
  BY <1>2, <1>3, <1>4, <1>5, LockSteps

\* The in-memory lock is exact for any number of runs and goroutines: it is
\* held for a run while, and only while, one Layer call works on it, whatever
\* returns early, fails or restarts.
THEOREM LockIsExact == Spec => []LayeringSerial
<1>1. Init => TypeInv /\ LayeringSerial
  BY InitType, LockInit
<1>2. TypeInv /\ LayeringSerial /\ [Next]_vars => (TypeInv /\ LayeringSerial)'
  BY NextType, LockNext
<1>3. QED
  BY <1>1, <1>2, PTL DEF Spec

-----------------------------------------------------------------------------
(* Layering passes *)

IDs(rows) == {s.id : s \in rows}

LEMMA ConfirmKeepsIDs ==
    ASSUME NEW id, NEW st, ConfirmSegment(id, st), TypeInv, NEW r \in Runs
    PROVE  IDs(segments'[r]) = IDs(segments[r])
<1> DEFINE row(s) == IF s.id = id
                     THEN [s EXCEPT !.state = st, !.confirmed = (st = "confirmed")]
                     ELSE s
<1>1. segments'[r] = {row(s) : s \in segments[r]}
  BY DEF ConfirmSegment, UpdateSegmentState
<1>2. segments[r] \subseteq Segment
  BY DEF TypeInv, TypeOK
<1>3. \A s \in segments[r] : row(s).id = s.id
  BY <1>2 DEF Segment
<1> HIDE DEF row
<1>4. QED
  BY <1>1, <1>3 DEF IDs

LEMMA ReplaceNext ==
    ASSUME TypeInv, LayeringSerial, [Next]_vars, NEW r \in Runs,
           IDs(segments'[r]) # IDs(segments[r])
    PROVE  \A w \in LayerCalls(r) : calls[w].pc \notin {"tr_get", "tr_update"}
<1>1. segments' # segments
  OBVIOUS
<1>2. PICK w \in Workers : ReplaceSegments(w)
  <2>1. ~ Confirm
    BY ConfirmKeepsIDs DEF Confirm
  <2>2. QED
    BY <1>1, <2>1
       DEF Next, Step, Fault, Request, Continue, StoreUnchanged, vars,
           IngestBegin, CorrectBegin, LayerLock, ArchiveBegin, CorrectCompute,
           PlanCompute, BulkUpsertPoints, SetWellRunMeta, LayerGet,
           LayerCompute, TransitionGet, UpdateWellRunState, LayerRelease,
           Crash, Fail
<1>3. calls[w].op = "layer" /\ calls[w].pc = "replace"
  BY <1>2 DEF ReplaceSegments, At
<1>4. calls[w].run = r
  BY <1>2 DEF ReplaceSegments, TypeInv, TypeOK
<1>5. QED
  BY <1>3, <1>4 DEF LayeringSerial, LayerCalls

\* No layering pass replaces the segments another pass has stored and is about
\* to mark the run layered with, for any number of concurrent Layer calls,
\* failures and restarts.
THEOREM SerialReplace == Spec => ReplaceIsSerial
<1> DEFINE Serial ==
      \A r \in Runs :
         {s.id : s \in segments'[r]} # {s.id : s \in segments[r]} =>
            \A w \in LayerCalls(r) : calls[w].pc \notin {"tr_get", "tr_update"}
<1>1. Init => TypeInv /\ LayeringSerial
  BY InitType, LockInit
<1>2. TypeInv /\ LayeringSerial /\ [Next]_vars => (TypeInv /\ LayeringSerial)'
  BY NextType, LockNext
<1>3. TypeInv /\ LayeringSerial /\ [Next]_vars => Serial
  BY ReplaceNext DEF IDs
<1> HIDE DEF Serial
<1>4. Spec => [][Serial]_vars
  BY <1>1, <1>2, <1>3, PTL DEF Spec
<1>5. QED
  BY <1>4 DEF Serial, ReplaceIsSerial

-----------------------------------------------------------------------------
(* The life of a run *)

\* What the refinement maps the variables to.
State == [r \in Runs |-> run[r].state]
Segmented == {r \in Runs : segments[r] # {}}

\* What a call in flight may rely on about the run it works on: the reads it
\* has made are still true when it writes, as far as its writes need them.
CallReady(c) ==
    /\ c.op = "archive" /\ c.pc \in {"tr_get", "tr_update"} =>
          State[c.run] \in {"layered", "archived"}
    /\ c.op = "layer" /\ c.pc = "list" =>
          c.seen = "collecting" \/ State[c.run] # "collecting"
    /\ c.op = "layer" /\ c.pc \in {"replace", "tr_get", "tr_update"} =>
          State[c.run] # "collecting"
    /\ c.op = "layer" /\ c.pc \in {"tr_get", "tr_update"} => c.run \in Segmented
    /\ c.op = "layer" /\ c.pc = "tr_update" => State[c.run] = "pending_layering"
    /\ c.op = "ingest" /\ c.pc = "tr_update" => State[c.run] = "collecting"

Ready == \A w \in Workers : CallReady(calls[w])

\* While a run ingests, no other call works on it.
IngestAlone ==
    \A v, w \in Workers :
        calls[v].op = "ingest" /\ v # w => calls[w].run # calls[v].run

StateHasSegments ==
    \A r \in Runs :
        /\ State[r] \in {"layered", "archived"} => r \in Segmented
        /\ r \in Segmented => State[r] # "collecting"

\* The inductive invariant of the refinement.
LifeInv == TypeInv /\ LayeringSerial /\ Ready /\ IngestAlone /\ StateHasSegments

LEMMA LifeInit == Init => LifeInv /\ Lifecycle!Init
<1> SUFFICES ASSUME Init
             PROVE  LifeInv /\ Lifecycle!Init
  OBVIOUS
<1>1. TypeInv /\ LayeringSerial
  BY InitType, LockInit
<1>2. \A w \in Workers : calls[w].op = "none"
  BY DEF Init, NoCall
<1>3. Ready /\ IngestAlone
  BY <1>2 DEF Ready, CallReady, IngestAlone
<1>4. Segmented = {} /\ \A r \in Runs : State[r] = "collecting"
  BY DEF Init, State, Segmented
<1>5. StateHasSegments
  BY <1>4 DEF StateHasSegments
<1>6. Lifecycle!Init
  BY <1>4 DEF Lifecycle!Init, State, Segmented
<1>7. QED
  BY <1>1, <1>3, <1>5, <1>6 DEF LifeInv

\* A step that changes neither the state of a run nor which runs have segments,
\* and advances one call to a call that is ready, keeps every call ready.
LEMMA QuietReady ==
    ASSUME LifeInv, State' = State, Segmented' = Segmented,
           NEW w \in Workers, NEW c, Set(w, c), CallReady(c)
    PROVE  Ready' /\ StateHasSegments'
<1>1. calls' = [calls EXCEPT ![w] = c] /\ calls \in [Workers -> ShapedCalls]
  BY DEF Set, LifeInv, TypeInv
<1>2. \A v \in Workers : calls'[v] = c \/ calls'[v] = calls[v]
  BY <1>1
<1>3. Ready'
  BY <1>2 DEF LifeInv, Ready, CallReady
<1>4. StateHasSegments'
  BY DEF LifeInv, StateHasSegments
<1>5. QED
  BY <1>3, <1>4

\* A call that ends, or goes on with the same run, stays alone if it ingests.
LEMMA AdvanceAlone ==
    ASSUME LifeInv, NEW w \in Workers, NEW c, Set(w, c),
           \/ c = NoCall
           \/ c.op = calls[w].op /\ c.run = calls[w].run
    PROVE  IngestAlone'
<1>1. calls' = [calls EXCEPT ![w] = c] /\ calls \in [Workers -> ShapedCalls]
  BY DEF Set, LifeInv, TypeInv
<1>2. \A v \in Workers : calls[v].op = "ingest" => calls[v].run \in Runs
  BY <1>1 DEF ShapedCalls, Shape
<1>3. NoCall.op # "ingest" /\ NoCall.run \notin Runs
  BY RunServiceAssumption DEF NoCall
<1>4. QED
  BY <1>1, <1>2, <1>3 DEF LifeInv, IngestAlone

\* A call that begins finds its run free of ingests, and free if it ingests.
LEMMA BeginAlone ==
    ASSUME LifeInv, ExclusiveIngest, NEW w \in Workers, NEW op, NEW r \in Runs,
           MayBegin(w, op, r), NEW c, Set(w, c), c.op = op, c.run = r
    PROVE  IngestAlone'
<1>1. calls' = [calls EXCEPT ![w] = c] /\ calls \in [Workers -> ShapedCalls]
  BY DEF Set, LifeInv, TypeInv
<1>2. \A v \in Workers : calls[v].run = r => op # "ingest" /\ calls[v].op # "ingest"
  BY DEF MayBegin
<1>3. QED
  BY <1>1, <1>2 DEF LifeInv, IngestAlone

\* The end of a call is ready.
LEMMA NoCallReady == CallReady(NoCall)
BY DEF CallReady, NoCall

\* Confirming segments leaves every run with the segments it had.
LEMMA ConfirmKeepsSegments ==
    ASSUME NEW id, NEW st, ConfirmSegment(id, st)
    PROVE  Segmented' = Segmented
<1>1. ASSUME NEW r \in Runs
      PROVE  segments'[r] # {} <=> segments[r] # {}
  BY DEF ConfirmSegment, UpdateSegmentState
<1>2. QED
  BY <1>1 DEF Segmented

\* The parts of LifeInv that depend on the calls and their runs.
LifeParts == Ready /\ IngestAlone /\ StateHasSegments

LEMMA LifeNext ==
    ASSUME ExclusiveIngest, LifeInv, [Next]_vars
    PROVE  LifeInv' /\ [Lifecycle!Next]_(Lifecycle!vars)
<1> USE DEF At
<1>1. TypeInv' /\ LayeringSerial'
  BY NextType, LockNext DEF LifeInv
<1>2. calls \in [Workers -> ShapedCalls]
  BY DEF LifeInv, TypeInv
<1> DEFINE Quiet == State' = State /\ Segmented' = Segmented
           Goal == LifeParts' /\ [Lifecycle!Next]_(Lifecycle!vars)
<1>3. ASSUME Quiet, LifeParts'
      PROVE  Goal
  BY <1>3 DEF Lifecycle!vars, State, Segmented
<1>4. UNCHANGED <<run, segments>> => Quiet
  BY DEF State, Segmented
\* Quiet steps of a call: it ends, it goes on, or it begins.
<1>5. ASSUME NEW w \in Workers, Quiet, Return(w)
      PROVE  Goal
  BY <1>3, <1>5, QuietReady, AdvanceAlone, NoCallReady DEF Return, LifeParts
<1>6. ASSUME NEW w \in Workers, NEW c, Quiet, Set(w, c), CallReady(c),
             c.op = calls[w].op, c.run = calls[w].run
      PROVE  Goal
  BY <1>3, <1>6, QuietReady, AdvanceAlone DEF LifeParts
<1>7. ASSUME NEW w \in Workers, NEW op, NEW r \in Runs, NEW c, Quiet,
             MayBegin(w, op, r), Set(w, c), CallReady(c), c.op = op, c.run = r
      PROVE  Goal
  BY <1>3, <1>7, QuietReady, BeginAlone DEF LifeParts
<1>8. ASSUME NEW w \in Workers, Quiet, Abandon(w)
      PROVE  Goal
  <2>1. CASE Return(w)
    BY <1>5, <1>8, <2>1
  <2>2. CASE calls[w].op = "layer" /\ Goto(w, "release")
    <3> DEFINE c == [calls[w] EXCEPT !.pc = "release"]
    <3>1. c.op = calls[w].op /\ c.run = calls[w].run /\ c.pc = "release"
      BY <1>2 DEF ShapedCalls, Call
    <3>2. Set(w, c)
      BY <2>2 DEF Goto
    <3> HIDE DEF c
    <3>3. CallReady(c)
      BY <3>1 DEF CallReady
    <3>4. QED
      BY <1>6, <1>8, <3>1, <3>2, <3>3
  <2>3. QED
    BY <1>8, <2>1, <2>2 DEF Abandon
<1> HIDE DEF Goal, Quiet
<1>9. ASSUME NEW w \in Workers, NEW r \in Runs, NEW batch \in Batches,
             IngestBegin(w, r, batch)
      PROVE  Goal
  <2> DEFINE c == [NoCall EXCEPT !.op = "ingest", !.run = r, !.pc = "upsert",
                                 !.seen = run[r].state,
                                 !.pts = ToMeasurePoints(batch)]
  <2>1. MayBegin(w, "ingest", r) /\ Set(w, c) /\ Quiet
    BY <1>4, <1>9 DEF IngestBegin, StoreUnchanged
  <2>2. c.op = "ingest" /\ c.run = r /\ c.pc = "upsert"
    BY DEF NoCall
  <2> HIDE DEF c
  <2>3. QED
    BY <1>7, <2>1, <2>2 DEF CallReady
<1>10. ASSUME NEW w \in Workers, NEW r \in Runs, NEW op \in {"correct", "plan"},
              CorrectBegin(w, op, r)
       PROVE  Goal
  <2> DEFINE c == [NoCall EXCEPT !.op = op, !.run = r, !.pc = "list",
                                 !.disturbance = run[r].disturbance]
  <2>1. MayBegin(w, op, r) /\ Set(w, c) /\ Quiet
    BY <1>4, <1>10 DEF CorrectBegin, StoreUnchanged
  <2>2. c.op = op /\ c.run = r
    BY DEF NoCall
  <2> HIDE DEF c
  <2>3. QED
    BY <1>7, <2>1, <2>2 DEF CallReady
<1>11. ASSUME NEW w \in Workers, NEW corrections, Propose(w, corrections),
              calls[w].op \in {"correct", "plan"}, UNCHANGED <<run, segments>>
       PROVE  Goal
  <2>1. CASE Return(w)
    BY <1>4, <1>5, <1>11, <2>1
  <2>2. ASSUME NEW k, Set(w, [calls[w] EXCEPT !.pc = "upsert", !.pts = k.pts,
                                              !.basis = k.basis,
                                              !.disturbance = k.disturbance])
        PROVE  Goal
    <3> DEFINE c == [calls[w] EXCEPT !.pc = "upsert", !.pts = k.pts,
                                     !.basis = k.basis,
                                     !.disturbance = k.disturbance]
    <3>1. c.op = calls[w].op /\ c.run = calls[w].run
      BY <1>2 DEF ShapedCalls, Call
    <3>2. Set(w, c)
      BY <2>2
    <3> HIDE DEF c
    <3>3. CallReady(c)
      BY <1>11, <3>1 DEF CallReady
    <3>4. QED
      BY <1>4, <1>6, <1>11, <3>1, <3>2, <3>3
  <2>3. QED
    BY <1>11, <2>1, <2>2 DEF Propose
<1>12. ASSUME NEW w \in Workers, NEW ref \in References, CorrectCompute(w, ref)
       PROVE  Goal
  BY <1>11, <1>12 DEF CorrectCompute, StoreUnchanged
<1>13. ASSUME NEW w \in Workers, NEW request \in PlanRequests,
              PlanCompute(w, request)
       PROVE  Goal
  BY <1>11, <1>13 DEF PlanCompute, StoreUnchanged
<1>14. ASSUME NEW w \in Workers, BulkUpsertPoints(w)
       PROVE  Goal
  <2>1. Quiet /\ calls[w].op \in {"ingest", "correct", "plan"}
    BY <1>2, <1>4, <1>14 DEF BulkUpsertPoints, ShapedCalls, Shape
  <2>2. CASE Return(w)
    BY <1>5, <2>1, <2>2
  <2>3. CASE calls[w].op = "ingest" /\ Begin(w, calls[w].op, calls[w].run, "tr_get")
    <3> DEFINE c == [NoCall EXCEPT !.op = calls[w].op, !.run = calls[w].run,
                                   !.pc = "tr_get"]
    <3>1. c.op = "ingest" /\ c.op = calls[w].op /\ c.run = calls[w].run /\ c.pc = "tr_get"
      BY <2>3 DEF NoCall
    <3>2. Set(w, c)
      BY <2>3 DEF Begin
    <3> HIDE DEF c
    <3>3. CallReady(c)
      BY <3>1 DEF CallReady
    <3>4. QED
      BY <1>6, <2>1, <3>1, <3>2, <3>3
  <2>4. CASE calls[w].op # "ingest" /\ Goto(w, "meta")
    <3> DEFINE c == [calls[w] EXCEPT !.pc = "meta"]
    <3>1. c.op = calls[w].op /\ c.run = calls[w].run
      BY <1>2 DEF ShapedCalls, Call
    <3>2. Set(w, c)
      BY <2>4 DEF Goto
    <3> HIDE DEF c
    <3>3. CallReady(c)
      BY <2>1, <2>4, <3>1 DEF CallReady
    <3>4. QED
      BY <1>6, <2>1, <3>1, <3>2, <3>3
  <2>5. QED
    BY <1>14, <2>2, <2>3, <2>4 DEF BulkUpsertPoints
<1>15. ASSUME NEW w \in Workers, SetWellRunMeta(w)
       PROVE  Goal
  <2>1. State' = State
    BY <1>15 DEF SetWellRunMeta, State, LifeInv, TypeInv, TypeOK, Run
  <2>2. Quiet /\ Return(w)
    BY <1>15, <2>1 DEF SetWellRunMeta, Segmented, Quiet
  <2>3. QED
    BY <1>5, <2>2
<1>16. ASSUME NEW w \in Workers, NEW r \in Runs, LayerLock(w, r)
       PROVE  Goal
  <2> DEFINE c == [NoCall EXCEPT !.op = "layer", !.run = r, !.pc = "get"]
  <2>1. MayBegin(w, "layer", r) /\ Set(w, c) /\ Quiet
    BY <1>4, <1>16 DEF LayerLock, Begin, StoreUnchanged
  <2>2. c.op = "layer" /\ c.run = r /\ c.pc = "get"
    BY DEF NoCall
  <2> HIDE DEF c
  <2>3. QED
    BY <1>7, <2>1, <2>2 DEF CallReady
<1>17. ASSUME NEW w \in Workers, LayerGet(w)
       PROVE  Goal
  <2> DEFINE c == [calls[w] EXCEPT !.pc = "list",
                                   !.seen = run[calls[w].run].state]
  <2>1. Quiet /\ (Abandon(w) \/ Set(w, c))
    BY <1>4, <1>17 DEF LayerGet, StoreUnchanged
  <2>2. /\ c.op = calls[w].op /\ c.run = calls[w].run /\ c.pc = "list"
        /\ c.op = "layer" /\ c.run \in Runs /\ c.seen = State[c.run]
    BY <1>2, <1>17 DEF LayerGet, ShapedCalls, Shape, Call, State
  <2> HIDE DEF c
  <2>3. CallReady(c)
    BY <2>2 DEF CallReady
  <2>4. QED
    BY <1>6, <1>8, <2>1, <2>2, <2>3
<1>18. ASSUME NEW w \in Workers, LayerCompute(w)
       PROVE  Goal
  <2>1. Quiet /\ calls[w].op = "layer" /\ calls[w].pc = "list"
    BY <1>4, <1>18 DEF LayerCompute, StoreUnchanged
  <2>2. CASE Abandon(w)
    BY <1>8, <2>1, <2>2
  <2>3. ASSUME NEW shape \in SegmentShapes,
               calls[w].seen \in {"pending_layering", "layered"},
               Set(w, [calls[w] EXCEPT !.pc = "replace", !.shape = shape])
        PROVE  Goal
    <3> DEFINE c == [calls[w] EXCEPT !.pc = "replace", !.shape = shape]
    <3>1. /\ c.op = calls[w].op /\ c.run = calls[w].run
          /\ c.op = "layer" /\ c.pc = "replace"
      BY <1>2, <2>1 DEF ShapedCalls, Call
    <3>2. Set(w, c)
      BY <2>3
    <3> HIDE DEF c
    <3>3. State[calls[w].run] # "collecting"
      BY <2>1, <2>3 DEF LifeInv, Ready, CallReady
    <3>4. CallReady(c)
      BY <3>1, <3>3 DEF CallReady
    <3>5. QED
      BY <1>6, <2>1, <3>1, <3>2, <3>4
  <2>4. QED
    BY <1>18, <2>2, <2>3 DEF LayerCompute, RunReadiness
<1>19. ASSUME NEW w \in Workers, ReplaceSegments(w)
       PROVE  Goal
  <2> DEFINE r == calls[w].run
             c == [NoCall EXCEPT !.op = "layer", !.run = r, !.pc = "tr_get"]
  <2>1. /\ calls[w].op = "layer" /\ calls[w].pc = "replace" /\ r \in Runs
        /\ calls[w].shape # <<>> /\ calls[w].shape \in Seq(FoundSegment)
    BY <1>2, <1>19 DEF ReplaceSegments, ShapedCalls, Shape, Call
  <2>2. State' = State
    BY <1>19 DEF ReplaceSegments, State
  <2>3. State[r] # "collecting"
    BY <2>1 DEF LifeInv, Ready, CallReady
  <2>4. Segmented' = Segmented \cup {r}
    <3>1. 1 \in 1..Len(calls[w].shape)
      BY <2>1
    <3>2. segments'[r] # {} /\ \A q \in Runs : q # r => segments'[q] = segments[q]
      BY <1>19, <2>1, <3>1 DEF ReplaceSegments, SegmentRows, LifeInv, TypeInv, TypeOK
    <3>3. QED
      BY <2>1, <3>2 DEF Segmented
  <2>5. c.op = "layer" /\ c.run = r /\ c.pc = "tr_get"
    BY DEF NoCall
  <2>6. Set(w, c)
    BY <1>19 DEF ReplaceSegments, Begin
  <2> HIDE DEF c
  <2>7. IngestAlone'
    BY <2>1, <2>5, <2>6, AdvanceAlone
  <2>8. \A v \in Workers : calls'[v] = c \/ calls'[v] = calls[v]
    BY <1>2, <2>6 DEF Set
  <2>9. Ready'
    BY <2>2, <2>3, <2>4, <2>5, <2>8 DEF LifeInv, Ready, CallReady
  <2>10. StateHasSegments'
    BY <2>2, <2>3, <2>4 DEF LifeInv, StateHasSegments
  <2>11. Lifecycle!Segmented(r)
    BY <2>1, <2>2, <2>3, <2>4 DEF Lifecycle!Segmented, State, Segmented
  <2>12. Lifecycle!Next
    BY <2>1, <2>11 DEF Lifecycle!Next, Lifecycle!Segmented
  <2>13. QED
    BY <2>7, <2>9, <2>10, <2>12 DEF Goal, LifeParts
<1>20. ASSUME NEW w \in Workers, LayerRelease(w)
       PROVE  Goal
  BY <1>4, <1>5, <1>20 DEF LayerRelease, StoreUnchanged
<1>21. ASSUME NEW w \in Workers, NEW r \in Runs, ArchiveBegin(w, r)
       PROVE  Goal
  <2> DEFINE c == [NoCall EXCEPT !.op = "archive", !.run = r, !.pc = "tr_get"]
  <2>1. MayBegin(w, "archive", r) /\ Set(w, c) /\ Quiet
    BY <1>4, <1>21 DEF ArchiveBegin, Begin, StoreUnchanged
  <2>2. c.op = "archive" /\ c.run = r /\ State[r] = "layered"
    BY <1>21 DEF NoCall, ArchiveBegin, State
  <2> HIDE DEF c
  <2>3. QED
    BY <1>7, <2>1, <2>2 DEF CallReady
<1>22. ASSUME NEW w \in Workers, TransitionGet(w)
       PROVE  Goal
  <2>1. /\ Quiet /\ calls[w].run \in Runs /\ calls[w].pc = "tr_get"
        /\ calls[w].op \in {"ingest", "layer", "archive"}
    BY <1>2, <1>4, <1>22 DEF TransitionGet, StoreUnchanged, ShapedCalls, Shape
  <2>2. CASE Abandon(w)
    BY <1>8, <2>1, <2>2
  <2>3. CASE /\ WellRunCanTransition(run[calls[w].run].state,
                                     TransitionTarget(calls[w].op))
             /\ Goto(w, "tr_update")
    <3> DEFINE c == [calls[w] EXCEPT !.pc = "tr_update"]
    <3>1. c.op = calls[w].op /\ c.run = calls[w].run /\ c.pc = "tr_update"
      BY <1>2 DEF ShapedCalls, Call
    <3>2. Set(w, c)
      BY <2>3 DEF Goto
    <3>3. State[calls[w].run] \in WellRunStates
      BY <2>1 DEF State, LifeInv, TypeInv, TypeOK, Run
    <3>4. TransitionTarget(calls[w].op) \in wellRunTransitions[State[calls[w].run]]
      BY <2>1, <2>3 DEF WellRunCanTransition, State
    <3>5. calls[w].op = "layer" => State[calls[w].run] = "pending_layering"
      BY <3>3, <3>4 DEF TransitionTarget, wellRunTransitions, WellRunStates
    <3>6. calls[w].op = "ingest" => State[calls[w].run] = "collecting"
      BY <3>3, <3>4 DEF TransitionTarget, wellRunTransitions, WellRunStates
    <3>7. CallReady(calls[w])
      BY DEF LifeInv, Ready
    <3> HIDE DEF c
    <3>8. CallReady(c)
      BY <2>1, <3>1, <3>5, <3>6, <3>7 DEF CallReady
    <3>9. QED
      BY <1>6, <2>1, <3>1, <3>2, <3>8
  <2>4. QED
    BY <1>22, <2>2, <2>3 DEF TransitionGet
<1>23. ASSUME NEW w \in Workers, UpdateWellRunState(w)
       PROVE  Goal
  <2> DEFINE r == calls[w].run
             op == calls[w].op
             to == TransitionTarget(op)
  <2>1. r \in Runs /\ op \in {"ingest", "layer", "archive"} /\ calls[w].pc = "tr_update"
    BY <1>2, <1>23 DEF UpdateWellRunState, ShapedCalls, Shape
  <2>2. CallReady(calls[w])
    BY DEF LifeInv, Ready
  <2>3. State' = [State EXCEPT ![r] = to]
    BY <1>23, <2>1 DEF UpdateWellRunState, State, LifeInv, TypeInv, TypeOK, Run
  <2>4. Segmented' = Segmented
    BY <1>23 DEF UpdateWellRunState, Segmented
  <2>5. \/ op = "ingest" /\ State[r] = "collecting" /\ to = "pending_layering"
        \/ op = "layer" /\ State[r] = "pending_layering" /\ to = "layered" /\ r \in Segmented
        \/ op = "archive" /\ State[r] \in {"layered", "archived"} /\ to = "archived"
    BY <2>1, <2>2 DEF CallReady, TransitionTarget
  <2>6. \A q \in Runs : State'[q] = IF q = r THEN to ELSE State[q]
    BY <2>3 DEF State
  <2>7. StateHasSegments'
    BY <2>1, <2>4, <2>5, <2>6 DEF LifeInv, StateHasSegments
  <2>8. PICK c : Set(w, c) /\ (c = NoCall \/ (/\ c.op = op /\ c.run = r
                                              /\ c.pc = "release" /\ op = "layer"))
    <3>1. /\ [calls[w] EXCEPT !.pc = "release"].op = op
          /\ [calls[w] EXCEPT !.pc = "release"].run = r
          /\ [calls[w] EXCEPT !.pc = "release"].pc = "release"
      BY <1>2 DEF ShapedCalls, Call
    <3>2. QED
      BY <1>23, <3>1 DEF UpdateWellRunState, Abandon, Return, Goto
  <2>9. IngestAlone'
    BY <2>8, AdvanceAlone
  \* Another call on the run is neither an ingest, nor a second Layer call, nor
  \* at odds with the state this call has checked.
  <2>10. ASSUME NEW v \in Workers, v # w
         PROVE  CallReady(calls[v])'
    <3>1. calls'[v] = calls[v]
      BY <1>2, <2>8, <2>10 DEF Set
    <3>2. CallReady(calls[v])
      BY DEF LifeInv, Ready
    <3>3. CASE calls[v].run # r
      <4>1. calls[v].pc # "idle" => State'[calls[v].run] = State[calls[v].run]
        BY <1>2, <2>6, <3>3 DEF ShapedCalls, Shape
      <4>2. calls[v].pc = "idle" => calls[v].op = "none"
        BY <1>2 DEF ShapedCalls, Shape
      <4>3. QED
        BY <2>4, <3>1, <3>2, <4>1, <4>2 DEF CallReady
    <3>4. CASE calls[v].run = r
      <4>1. calls[v].op # "ingest"
        BY <2>10, <3>4 DEF LifeInv, IngestAlone
      <4>2. op # "ingest"
        BY <2>10, <3>4 DEF LifeInv, IngestAlone
      <4>3. op = "layer" => calls[v].op # "layer"
        BY <2>1, <2>10, <3>4 DEF LifeInv, LayeringSerial, LayerCalls
      <4>4. State'[r] = to
        BY <2>1, <2>6
      <4>5. QED
        BY <2>4, <2>5, <3>1, <3>2, <3>4, <4>1, <4>2, <4>3, <4>4 DEF CallReady
    <3>5. QED
      BY <3>3, <3>4
  <2>11. CallReady(calls[w])'
    <3>1. calls'[w] = c
      BY <1>2, <2>8 DEF Set
    <3>2. QED
      BY <2>8, <3>1, NoCallReady DEF CallReady, NoCall
  <2>12. Ready'
    BY <2>10, <2>11 DEF Ready
  <2>13. [Lifecycle!Next]_(Lifecycle!vars)
    <3>1. CASE op = "ingest" \/ op = "layer" \/ State[r] = "layered"
      <4>1. Lifecycle!Collected(r) \/ Lifecycle!Layered(r) \/ Lifecycle!Archived(r)
        BY <2>3, <2>4, <2>5, <3>1
           DEF Lifecycle!Collected, Lifecycle!Layered, Lifecycle!Archived,
               State, Segmented
      <4>2. QED
        BY <2>1, <4>1
           DEF Lifecycle!Next, Lifecycle!Collected, Lifecycle!Layered,
               Lifecycle!Archived
    <3>2. CASE op = "archive" /\ State[r] = "archived"
      <4>1. State' = State
        BY <2>3, <2>5, <3>2 DEF State
      <4>2. QED
        BY <2>4, <4>1 DEF Lifecycle!vars, State, Segmented
    <3>3. QED
      BY <2>5, <3>1, <3>2
  <2>14. QED
    BY <2>7, <2>9, <2>12, <2>13 DEF Goal, LifeParts
<1>24. ASSUME NEW w \in Workers, Fail(w)
       PROVE  Goal
  BY <1>4, <1>8, <1>24 DEF Fail, StoreUnchanged
<1>25. ASSUME NEW id, NEW st, ConfirmSegment(id, st)
       PROVE  Goal
  <2>1. Quiet
    BY <1>25, ConfirmKeepsSegments DEF ConfirmSegment, State, Quiet
  <2>2. LifeParts'
    BY <1>25, <2>1
       DEF Quiet, ConfirmSegment, LifeInv, LifeParts, Ready, CallReady,
           IngestAlone, StateHasSegments
  <2>3. QED
    BY <1>3, <2>1, <2>2 DEF Goal
<1>26. ASSUME Crash
       PROVE  Goal
  <2>1. Quiet /\ calls' = [w \in Workers |-> NoCall]
    BY <1>4, <1>26 DEF Crash, StoreUnchanged
  <2>2. LifeParts'
    BY <2>1, NoCallReady
       DEF Quiet, LifeInv, LifeParts, Ready, CallReady, IngestAlone,
           StateHasSegments, NoCall
  <2>3. QED
    BY <1>3, <2>1, <2>2
<1>27. ASSUME UNCHANGED vars
       PROVE  Goal
  <2>1. Quiet
    BY <1>4, <1>27 DEF vars
  <2>2. LifeParts'
    BY <1>27, <2>1
       DEF Quiet, vars, LifeInv, LifeParts, Ready, CallReady, IngestAlone,
           StateHasSegments
  <2>3. QED
    BY <1>3, <2>1, <2>2
<1>28. ASSUME NEW w \in Workers, Request(w) \/ Continue(w)
       PROVE  Goal
  BY <1>9, <1>10, <1>12, <1>13, <1>14, <1>15, <1>16, <1>17, <1>18, <1>19, <1>20,
     <1>21, <1>22, <1>23, <1>28
     DEF Request, Continue
<1>29. ASSUME Confirm
       PROVE  Goal
  BY <1>25, <1>29 DEF Confirm
<1>30. ASSUME Fault
       PROVE  Goal
  BY <1>24, <1>26, <1>30 DEF Fault
<1>31. Goal
  BY <1>27, <1>28, <1>29, <1>30 DEF Next, Step
<1>32. QED
  BY <1>1, <1>31 DEF Goal, LifeInv, LifeParts

\* While ingestion is exclusive, the service implements the promised life of a
\* run: none of its stale reads lets a run skip a state, go back, be layered
\* without segments or be archived before it is layered.
THEOREM LifecycleImplemented == ExclusiveIngest => (Spec => ImplementsLifecycle)
<1> SUFFICES ASSUME ExclusiveIngest
             PROVE  Spec => Lifecycle!Spec
  BY DEF ImplementsLifecycle
<1>1. Init => LifeInv /\ Lifecycle!Init
  BY LifeInit
<1>2. LifeInv /\ [Next]_vars => LifeInv' /\ [Lifecycle!Next]_(Lifecycle!vars)
  BY LifeNext
<1>3. QED
  BY <1>1, <1>2, PTL DEF Spec, Lifecycle!Spec
=============================================================================
