----------------------------- MODULE RunService -----------------------------
(***************************************************************************)
(* The well-run operations of internal/service over internal/store: ingest,*)
(* depth correction, calibration plan, layering, segment confirmation and  *)
(* archiving.                                                              *)
(*                                                                         *)
(* Every HTTP request runs in a goroutine of its own and its call performs *)
(* several SQL statements. Each statement is atomic, the call is not: only *)
(* layering is serialized, per run, by a lock kept in memory. A worker is  *)
(* such a goroutine, and a call advances by one statement or one lock      *)
(* operation per step. Statements may fail, and the process may crash and  *)
(* restart on the same database.                                           *)
(***************************************************************************)
EXTENDS Profile

CONSTANTS
    Runs,            \* the well runs of the database
    Workers,         \* goroutines, each serving one call at a time
    NoRun,           \* the run of an idle worker
    Ops,             \* the operations clients request
    Batches,         \* batches of raw points
    References,      \* reference depths of correction requests
    PlanRequests,    \* [strategy, markers] of calibration requests
    SegmentShapes,   \* the segment lists one layering pass may find
    MaxSegmentID,    \* bound: no layering starts once an id this high is used
    ExclusiveIngest  \* TRUE: nothing else runs on a run while it ingests

AllOps == {"ingest", "correct", "plan", "layer", "archive", "confirm"}

\* A segment as the segmentation finds it.
FoundSegment == [top : Int, state : {"stable", "anomaly"}]

ASSUME RunServiceAssumption ==
    /\ NoRun \notin Runs
    /\ Ops \subseteq AllOps
    /\ Batches \subseteq Seq(RawPoint)
    /\ References \subseteq Int
    /\ PlanRequests \subseteq [strategy : {"offset", "tie_point", "stretch"},
                               markers : Seq(Marker)]
    /\ SegmentShapes \subseteq Seq(FoundSegment)
    /\ \A shape \in SegmentShapes : shape # <<>> /\ shape[1].state = "stable"
    /\ MaxSegmentID \in Nat
    /\ ExclusiveIngest \in BOOLEAN

VARIABLES
    run,        \* well_runs: state, archived, depth_basis, disturbance of a run
    points,     \* measure_points: the profile of each run
    segments,   \* segments: the rows of each run
    lastSegID,  \* AUTOINCREMENT counter of segments
    layering,   \* Service.layering, the runs whose layering lock is held
    calls       \* the call each worker serves, with its local variables

vars == <<run, points, segments, lastSegID, layering, calls>>

Run == [state : WellRunStates, archived : BOOLEAN, basis : Int,
        disturbance : BOOLEAN]

Segment == [id : Nat \ {0}, idx : Nat \ {0}, top : Int, state : SegmentStates,
            confirmed : BOOLEAN]

Labels == {"idle", "upsert", "list", "meta", "get", "replace",
           "tr_get", "tr_update", "release"}

Call == [op          : AllOps \cup {"none"},
         pc          : Labels,
         run         : Runs \cup {NoRun},
         seen        : WellRunStates,             \* r.State as the call read it
         pts         : Profiles,                  \* rows it is about to write
         basis       : Int,                       \* meta it is about to write
         disturbance : BOOLEAN,
         shape       : Seq(FoundSegment)]         \* segments it is to store

NoCall == [op |-> "none", pc |-> "idle", run |-> NoRun, seen |-> "collecting",
           pts |-> EmptyProfile, basis |-> 0, disturbance |-> FALSE,
           shape |-> <<>>]

TypeOK ==
    /\ run \in [Runs -> Run]
    /\ points \in [Runs -> Profiles]
    /\ segments \in [Runs -> SUBSET Segment]
    /\ lastSegID \in Nat
    /\ layering \in SUBSET Runs
    /\ calls \in [Workers -> Call]

Init ==
    /\ run = [r \in Runs |-> [state |-> "collecting", archived |-> FALSE,
                              basis |-> 0, disturbance |-> FALSE]]
    /\ points = [r \in Runs |-> EmptyProfile]
    /\ segments = [r \in Runs |-> {}]
    /\ lastSegID = 0
    /\ layering = {}
    /\ calls = [w \in Workers |-> NoCall]

-----------------------------------------------------------------------------
(* Calls *)

At(w, op, pc) == calls[w].op = op /\ calls[w].pc = pc

\* IngestPoints has no route: the program ingests from one goroutine, before
\* it asks for anything else on the run.
MayBegin(w, op, r) ==
    /\ calls[w].pc = "idle"
    /\ op \in Ops
    /\ ExclusiveIngest =>
          \A v \in Workers : calls[v].run = r => op # "ingest" /\ calls[v].op # "ingest"

\* The worker's call becomes c.
Set(w, c) == calls' = [calls EXCEPT ![w] = c]

Begin(w, op, r, pc) == Set(w, [NoCall EXCEPT !.op = op, !.run = r, !.pc = pc])

Goto(w, pc) == Set(w, [calls[w] EXCEPT !.pc = pc])

\* Return to the client, with a result or with an error.
Return(w) == Set(w, NoCall)

\* An early return of Layer still runs the deferred release of the lock.
Abandon(w) ==
    \/ calls[w].op = "layer" /\ Goto(w, "release")
    \/ calls[w].op # "layer" /\ Return(w)

StoreUnchanged == UNCHANGED <<run, points, segments, lastSegID>>

-----------------------------------------------------------------------------
(* IngestPoints *)

\* Read the run, validate the batch and convert it. A refused batch changes
\* nothing.
IngestBegin(w, r, batch) ==
    /\ MayBegin(w, "ingest", r)
    /\ ~run[r].archived
    /\ batch # <<>>
    /\ Validate(batch)
    /\ Set(w, [NoCall EXCEPT !.op = "ingest", !.run = r, !.pc = "upsert",
                             !.seen = run[r].state,
                             !.pts = ToMeasurePoints(batch)])
    /\ StoreUnchanged /\ UNCHANGED layering

-----------------------------------------------------------------------------
(* CorrectDepth and CorrectDepthPlan *)

\* Variant: the archived flag is not looked at.
CorrectBegin_IgnoresArchived(w, op, r) ==
    /\ op \in {"correct", "plan"}
    /\ MayBegin(w, op, r)
    /\ Set(w, [NoCall EXCEPT !.op = op, !.run = r, !.pc = "list",
                             !.disturbance = run[r].disturbance])
    /\ StoreUnchanged /\ UNCHANGED layering

\* Read the run. The flag read here is what a calibration plan writes back.
CorrectBegin(w, op, r) ==
    /\ op \in {"correct", "plan"}
    /\ MayBegin(w, op, r)
    /\ ~run[r].archived
    /\ Set(w, [NoCall EXCEPT !.op = op, !.run = r, !.pc = "list",
                             !.disturbance = run[r].disturbance])
    /\ StoreUnchanged /\ UNCHANGED layering

\* Variant: the corrected depths are written without being verified.
Propose_Unverified(w, corrections) ==
    \/ \E c \in corrections :
          Set(w, [calls[w] EXCEPT !.pc = "upsert", !.pts = c.pts,
                                  !.basis = c.basis,
                                  !.disturbance = c.disturbance])
    \/ corrections = {} /\ Return(w)

\* Keep the computed rows and meta for the writes that follow, or return an
\* error when there is no correction or it is not monotone.
Propose(w, corrections) ==
    LET accepted == {c \in corrections : VerifyMonotonic(c.pts)}
    IN  \/ \E c \in accepted :
              Set(w, [calls[w] EXCEPT !.pc = "upsert", !.pts = c.pts,
                                      !.basis = c.basis,
                                      !.disturbance = c.disturbance])
        \/ accepted = {} /\ Return(w)

\* Read all points and compute the shift onto a reference depth.
CorrectCompute(w, ref) ==
    LET p == points[calls[w].run]
    IN  /\ At(w, "correct", "list")
        /\ Propose(w, {[pts |-> Apply(p, c.offset), basis |-> c.basis,
                        disturbance |-> c.disturbance] : c \in Compute(p, ref)})
        /\ StoreUnchanged /\ UNCHANGED layering

\* Read all points and apply the transform of a calibration strategy.
PlanCompute(w, request) ==
    LET p == points[calls[w].run]
    IN  /\ At(w, "plan", "list")
        /\ Propose(w, {[pts |-> ApplyPoints(p, plan), basis |-> plan.offset,
                        disturbance |-> calls[w].disturbance] :
                           plan \in {plan \in Build(request.strategy, request.markers) :
                                        Rows(p) # {}}})
        /\ StoreUnchanged /\ UNCHANGED layering

-----------------------------------------------------------------------------
(* The writes of ingest, correction and plan *)

\* Variant: the transition is made for runs read in any state but collecting.
BulkUpsertPoints_WrongState(w) ==
    LET c == calls[w]
    IN  /\ c.pc = "upsert"
        /\ points' = [points EXCEPT ![c.run] = Upsert(@, c.pts)]
        /\ \/ c.op = "ingest" /\ c.seen # "collecting"
                /\ Begin(w, c.op, c.run, "tr_get")
           \/ c.op = "ingest" /\ c.seen = "collecting" /\ Return(w)
           \/ c.op # "ingest" /\ Goto(w, "meta")
        /\ UNCHANGED <<run, segments, lastSegID, layering>>

\* One transaction. An ingest that read the run as collecting goes on to its
\* transition, a correction to its meta data.
BulkUpsertPoints(w) ==
    LET c == calls[w]
    IN  /\ c.pc = "upsert"
        /\ points' = [points EXCEPT ![c.run] = Upsert(@, c.pts)]
        /\ \/ c.op = "ingest" /\ c.seen = "collecting"
                /\ Begin(w, c.op, c.run, "tr_get")
           \/ c.op = "ingest" /\ c.seen # "collecting" /\ Return(w)
           \/ c.op # "ingest" /\ Goto(w, "meta")
        /\ UNCHANGED <<run, segments, lastSegID, layering>>

SetWellRunMeta(w) ==
    LET c == calls[w]
    IN  /\ c.pc = "meta"
        /\ run' = [run EXCEPT ![c.run].basis = c.basis,
                              ![c.run].disturbance = c.disturbance]
        /\ Return(w)
        /\ UNCHANGED <<points, segments, lastSegID, layering>>

-----------------------------------------------------------------------------
(* Layer *)

\* Variant: the lock is set without testing it.
LayerLock_NoTest(w, r) ==
    /\ MayBegin(w, "layer", r)
    /\ lastSegID < MaxSegmentID
    /\ layering' = layering \cup {r}
    /\ Begin(w, "layer", r, "get")
    /\ StoreUnchanged

\* Take the layering lock of the run. A call that finds it taken returns
\* ErrLayeringLocked and changes nothing.
LayerLock(w, r) ==
    /\ MayBegin(w, "layer", r)
    /\ lastSegID < MaxSegmentID
    /\ r \notin layering
    /\ layering' = layering \cup {r}
    /\ Begin(w, "layer", r, "get")
    /\ StoreUnchanged

\* Variant: no deferred release, and the archived return forgets the lock.
LayerGet_LeaksLock(w) ==
    LET r == calls[w].run
    IN  /\ At(w, "layer", "get")
        /\ \/ run[r].archived /\ Return(w)
           \/ ~run[r].archived
              /\ Set(w, [calls[w] EXCEPT !.pc = "list", !.seen = run[r].state])
        /\ StoreUnchanged /\ UNCHANGED layering

LayerGet(w) ==
    LET r == calls[w].run
    IN  /\ At(w, "layer", "get")
        /\ \/ run[r].archived /\ Abandon(w)
           \/ ~run[r].archived
              /\ Set(w, [calls[w] EXCEPT !.pc = "list", !.seen = run[r].state])
        /\ StoreUnchanged /\ UNCHANGED layering

\* Variant: no deferred release, and the not-ready return forgets the lock.
LayerCompute_LeaksLock(w) ==
    LET p     == points[calls[w].run]
        ready == /\ RunReadiness(calls[w].seen, Cardinality(Rows(p)))
                 /\ GridHasTwoSamples(p)
    IN  /\ At(w, "layer", "list")
        /\ \/ ~ready /\ Return(w)
           \/ /\ ready
              /\ \E shape \in SegmentShapes :
                    Set(w, [calls[w] EXCEPT !.pc = "replace", !.shape = shape])
        /\ StoreUnchanged /\ UNCHANGED layering

\* Read all points, check readiness and segment the resampled profile. Where
\* the boundaries fall is not modelled: any shape may come out.
LayerCompute(w) ==
    LET p     == points[calls[w].run]
        ready == /\ RunReadiness(calls[w].seen, Cardinality(Rows(p)))
                 /\ GridHasTwoSamples(p)
    IN  /\ At(w, "layer", "list")
        /\ \/ ~ready /\ Abandon(w)
           \/ /\ ready
              /\ \E shape \in SegmentShapes :
                    Set(w, [calls[w] EXCEPT !.pc = "replace", !.shape = shape])
        /\ StoreUnchanged /\ UNCHANGED layering

\* Variant: rows are numbered from 0.
SegmentRows_FromZero(last, shape) ==
    {[id |-> last + i, idx |-> i - 1, top |-> shape[i].top,
      state |-> shape[i].state, confirmed |-> FALSE] : i \in 1..Len(shape)}

\* The rows a pass inserts, numbered from 1, with ids above last.
SegmentRows(last, shape) ==
    {[id |-> last + i, idx |-> i, top |-> shape[i].top,
      state |-> shape[i].state, confirmed |-> FALSE] : i \in 1..Len(shape)}

\* Variant: the pass ends without marking the run layered.
ReplaceSegments_NoTransition(w) ==
    LET c == calls[w]
    IN  /\ At(w, "layer", "replace")
        /\ segments' = [segments EXCEPT ![c.run] = SegmentRows(lastSegID, c.shape)]
        /\ lastSegID' = lastSegID + Len(c.shape)
        /\ Goto(w, "release")
        /\ UNCHANGED <<run, points, layering>>

\* Variant: ids are rowids without AUTOINCREMENT, one above the greatest stored.
ReplaceSegments_ReusesIDs(w) ==
    LET c     == calls[w]
        ids   == {0} \cup {s.id : s \in UNION {segments[r] : r \in Runs \ {c.run}}}
        start == CHOOSE n \in ids : \A m \in ids : m <= n
    IN  /\ At(w, "layer", "replace")
        /\ segments' = [segments EXCEPT ![c.run] = SegmentRows(start, c.shape)]
        /\ lastSegID' = lastSegID + Len(c.shape)
        /\ Begin(w, "layer", c.run, "tr_get")
        /\ UNCHANGED <<run, points, layering>>

\* One transaction: DELETE the rows of the run, INSERT the new ones with
\* fresh ids and not confirmed.
ReplaceSegments(w) ==
    LET c == calls[w]
    IN  /\ At(w, "layer", "replace")
        /\ segments' = [segments EXCEPT ![c.run] = SegmentRows(lastSegID, c.shape)]
        /\ lastSegID' = lastSegID + Len(c.shape)
        /\ Begin(w, "layer", c.run, "tr_get")
        /\ UNCHANGED <<run, points, layering>>

\* The deferred release, on every way out of Layer.
LayerRelease(w) ==
    /\ At(w, "layer", "release")
    /\ layering' = layering \ {calls[w].run}
    /\ Return(w)
    /\ StoreUnchanged

-----------------------------------------------------------------------------
(* ArchiveRun *)

\* Variant: the transition table alone decides what may be archived.
ArchiveBegin_AnyState(w, r) ==
    /\ MayBegin(w, "archive", r)
    /\ Begin(w, "archive", r, "tr_get")
    /\ StoreUnchanged /\ UNCHANGED layering

\* Read the run; only a layered one may be archived.
ArchiveBegin(w, r) ==
    /\ MayBegin(w, "archive", r)
    /\ run[r].state = "layered"
    /\ Begin(w, "archive", r, "tr_get")
    /\ StoreUnchanged /\ UNCHANGED layering

-----------------------------------------------------------------------------
(* transitionRun: read the state, look the transition up, write the state *)

TransitionTarget(op) ==
    CASE op = "ingest"  -> "pending_layering"
      [] op = "layer"   -> "layered"
      [] op = "archive" -> "archived"

TransitionGet(w) ==
    LET c     == calls[w]
        legal == WellRunCanTransition(run[c.run].state, TransitionTarget(c.op))
    IN  /\ c.pc = "tr_get"
        /\ \/ legal /\ Goto(w, "tr_update")
           \/ ~legal /\ Abandon(w)
        /\ StoreUnchanged /\ UNCHANGED layering

UpdateWellRunState(w) ==
    LET c  == calls[w]
        to == TransitionTarget(c.op)
    IN  /\ c.pc = "tr_update"
        /\ run' = [run EXCEPT ![c.run].state = to,
                              ![c.run].archived = (to = "archived")]
        /\ Abandon(w)
        /\ UNCHANGED <<points, segments, lastSegID, layering>>

-----------------------------------------------------------------------------
(* ConfirmSegment: one unconditional UPDATE by segment id *)

UpdateSegmentState(rows, id, st) ==
    {IF s.id = id THEN [s EXCEPT !.state = st, !.confirmed = (st = "confirmed")]
                  ELSE s : s \in rows}

\* The handler admits these three states and nothing else is checked.
ConfirmSegment(id, st) ==
    /\ "confirm" \in Ops
    /\ st \in {"stable", "anomaly", "confirmed"}
    /\ segments' = [r \in Runs |-> UpdateSegmentState(segments[r], id, st)]
    /\ UNCHANGED <<run, points, lastSegID, layering, calls>>

-----------------------------------------------------------------------------
(* Faults *)

\* A statement fails and its transaction is rolled back: the call returns.
Fail(w) ==
    /\ calls[w].pc \notin {"idle", "release"}
    /\ Abandon(w)
    /\ StoreUnchanged /\ UNCHANGED layering

\* The process stops and restarts: calls and locks are gone, the store stays.
Crash ==
    /\ calls' = [w \in Workers |-> NoCall]
    /\ layering' = {}
    /\ StoreUnchanged

-----------------------------------------------------------------------------
(* Specifications *)

Request(w) ==
    \E r \in Runs :
        \/ \E batch \in Batches : IngestBegin(w, r, batch)
        \/ \E op \in {"correct", "plan"} : CorrectBegin(w, op, r)
        \/ LayerLock(w, r)
        \/ ArchiveBegin(w, r)

\* The next step of a call in flight.
Continue(w) ==
    \/ \E ref \in References : CorrectCompute(w, ref)
    \/ \E request \in PlanRequests : PlanCompute(w, request)
    \/ BulkUpsertPoints(w)
    \/ SetWellRunMeta(w)
    \/ LayerGet(w)
    \/ LayerCompute(w)
    \/ ReplaceSegments(w)
    \/ TransitionGet(w)
    \/ UpdateWellRunState(w)
    \/ LayerRelease(w)

Confirm ==
    \E id \in 1..lastSegID, st \in {"stable", "anomaly", "confirmed"} :
        ConfirmSegment(id, st)

Step == Confirm \/ \E w \in Workers : Request(w) \/ Continue(w)

Fault == Crash \/ \E w \in Workers : Fail(w)

Next == Step \/ Fault

\* Calls, statement failures and crashes.
Spec == Init /\ [][Next]_vars

\* A call in flight is a running goroutine: it gets to its next statement.
Fairness == \A w \in Workers : WF_vars(Continue(w))

\* The system while nothing fails.
FaultFreeSpec == Init /\ [][Step]_vars

\* The system when nothing but a restart goes wrong.
RestartFairSpec == Init /\ [][Step \/ Crash]_vars /\ Fairness

-----------------------------------------------------------------------------
(* Properties *)

LayerCalls(r) == {w \in Workers : calls[w].op = "layer" /\ calls[w].run = r}

\* Service.layering holds exactly the runs with a Layer call in flight, and a
\* run never has two: no early return, failed statement or restart leaks the
\* lock or frees it under another call.
LayeringSerial ==
    /\ \A r \in Runs : r \in layering <=> LayerCalls(r) # {}
    /\ \A r \in Runs : \A v, w \in LayerCalls(r) : v = w

\* What ReplaceSegments relies on (store/segment.go): while one pass is between
\* storing its segments and marking the run layered, no other pass replaces
\* them, so the set a run is marked layered with is the one that pass stored.
ReplaceIsSerial ==
    [][\A r \in Runs :
          {s.id : s \in segments'[r]} # {s.id : s \in segments[r]} =>
              \A w \in LayerCalls(r) : calls[w].pc \notin {"tr_get", "tr_update"}]_vars

\* The run states seen by clients follow the promised lifecycle, although each
\* transition is a read, a check and a later unconditional write: a run is
\* layered only with a segment set, archived only once layered, never reopened.
Lifecycle ==
    INSTANCE RunLifecycle WITH
        state     <- [r \in Runs |-> run[r].state],
        segmented <- {r \in Runs : segments[r] # {}}

ImplementsLifecycle == Lifecycle!Spec

Reading(row) == [raw |-> row.raw, temp |-> row.temp, gap |-> row.gap]

\* Corrections write whole rows back, yet change only what they compute: the
\* readings of a run change in an ingest and in nothing else.
CorrectionKeepsReadings ==
    [][\A w \in Workers :
          /\ calls[w].pc = "upsert" /\ calls[w].op # "ingest"
          /\ calls'[w].pc = "meta"
          => \A r \in Runs : \A s \in Rows(points[r]) :
                Reading(points'[r][s]) = Reading(points[r][s])]_vars

\* A correction upserts the rows it read, by seq, over whatever is stored by
\* then. Its rows end up as the whole profile: none of another datum, and none
\* that VerifyMonotonic has not seen, is left between them.
CorrectionIsWhole ==
    [][\A w \in Workers :
          /\ calls[w].pc = "upsert" /\ calls[w].op # "ingest"
          /\ calls'[w].pc = "meta"
          => points'[calls[w].run] = calls[w].pts]_vars

\* A segment id names one interval of one run for ever, so that a confirmation
\* sent for an id that a layering pass has deleted meanwhile (UpdateSegmentState
\* goes by id alone) never lands on another segment.
SegmentIDsFresh ==
    [][\A r \in Runs : \A t \in segments'[r] :
          t.id <= lastSegID =>
              \E s \in segments[r] : s.id = t.id /\ s.idx = t.idx /\ s.top = t.top]_vars

\* The metrics and the data-quality summary count the completeness of a run in
\* different columns, the gap flag and the state, and agree: a depth conflict
\* never reaches the store, although Apply marks conflicts and rows are written
\* from profiles read earlier.
CompletenessAgrees ==
    \A r \in Runs : PresentCount(points[r]) = ValidCount(points[r])

\* A call that has looked at the archived flag and has not written all yet.
Writing(c) ==
    \/ c.op \in {"ingest", "correct", "plan"}
    \/ c.op = "layer" /\ c.pc \notin {"get", "release"}

Writers(r) == {w \in Workers : calls[w].run = r /\ Writing(calls[w])}

\* The intervals a run is segmented into.
Intervals(rows) == {[id |-> s.id, idx |-> s.idx, top |-> s.top] : s \in rows}

\* Once the calls that looked at the flag before an archiving are over, the
\* points of the run, its row and the places of its segments stay as they are:
\* no later call gets past the flag, and nothing takes it away. (States and
\* confirmations of segments may still change: ConfirmSegment looks at nothing.)
ArchivedSettles ==
    [][\A r \in Runs :
          run[r].archived /\ Writers(r) = {} =>
              /\ points'[r] = points[r]
              /\ run'[r] = run[r]
              /\ Intervals(segments'[r]) = Intervals(segments[r])
              /\ Writers(r)' = {}]_vars

\* An archived run "can no longer be mutated" (ArchiveRun): its points, its row
\* and its segments stay as they are.
ArchivedRunFrozen ==
    [][\A r \in Runs :
          run[r].archived =>
              /\ points'[r] = points[r]
              /\ run'[r] = run[r]
              /\ segments'[r] = segments[r]]_vars

\* A Layer call that passed the readiness check and replaced the segments can
\* mark its run layered.
LayerCanFinish ==
    \A w \in Workers :
        At(w, "layer", "tr_get") =>
            WellRunCanTransition(run[calls[w].run].state, "layered")

\* The lock of a run is always given back: no return of Layer, early or late,
\* keeps it.
LayeringLockReleased ==
    \A r \in Runs : r \in layering ~> r \notin layering

\* While nothing fails, a run that has points leaves the collecting state.
UploadedRunMovesOn ==
    \A r \in Runs : Rows(points[r]) # {} ~> run[r].state # "collecting"

\* While nothing fails, a run that has segments gets marked layered.
SegmentedRunGetsLayered ==
    \A r \in Runs :
        segments[r] # {} ~> run[r].state \in {"layered", "archived"}
=============================================================================
