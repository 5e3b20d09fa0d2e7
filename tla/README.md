# A verification development of geowell

geowell is a Go service over SQLite that ingests geothermal well logs, corrects
their depths, splits each run into segments, compares the segment boundaries of
two runs of a well and publishes the comparison as a versioned snapshot. This
directory holds TLA+ modules translated from its source, the TLC configurations
that check them on small instances, and theorems that TLAPS proves for instances
of any size. `PROJECT.json` lists the runs, their mutants (each property is
broken by a plausible bug in the modelled code), the source lines behind every
definition, the findings, the hazards and the theorems.

## Inventory

| Component | State it keeps | Operations | Talks to |
| --- | --- | --- | --- |
| `model` | none; three transition tables | `CanTransition` of runs, segments, snapshots | used by all |
| `ingest` | none | `Validate`, `ToMeasurePoints`, `Fingerprint`, `EncodeUnit` | called by the service |
| `datum` | none | `Compute`, `Apply`, `VerifyMonotonic` | called by the service |
| `calibrate` | none | `Build`, `Plan.Apply`, `ApplyPoints` | called by the service |
| `layer` | none | `Resample`, `Detect`, `Classify`, `ToModel` | called by the service |
| `compare` | none | `Compare`, `BuildDetail` | called by the service |
| `snapshot` | a `Publisher` per call | `NextCode`, `Build`, `CanPublish` | called by the service |
| `validate` | none | `RunReadiness`, `UnitConsistent`, `DisturbanceResolved` | called by the service |
| `service` | `layering`, the set of runs being layered, under a mutex | create, ingest, correct, plan, layer, confirm, compare, publish, archive | all of the above, and `store` |
| `store` | four SQLite tables | one statement or one transaction each | the database file |
| `httpapi` | none | one handler per route, each in its own goroutine | `service`, and `store` for reads |
| `metrics`, `report`, `export` | none | read-only sums and formatting | `httpapi` |
| `cmd/geowell` | none | server, smoke test | `service`, `store` |

What is hard: every request runs in its own goroutine, and a service operation
is several SQL statements with local variables in between. Each statement is
atomic, the operation is not, and nothing orders operations of different kinds. The only lock is `Service.layering`, per run, and
only `Layer` takes it. So a check and the write it protects are separated
(`transitionRun`, the archived flag, the disturbance flag, `LatestVersion`),
whole rows are written back from an old read (corrections), and a failure or a
crash between two statements leaves half an operation. The sequential pitfalls
are that the tables of `model` are consulted for runs only, that `Validate` sees
one batch at a time, and that the numeric code has special values (a scale of
zero, NaN).

What makes each component correct:

* runs: states follow the table, a run is layered only with segments, an
  archived run is frozen, layering is serial and its lock never leaks;
* registration: one run per code, and a creation is answered with the run of its
  code;
* points: a correction changes depths only and replaces the whole profile, all rows
  are on one datum, layering reads sorted rows;
* segments: states follow the table, a confirmed segment stays confirmed, an id
  never changes its meaning;
* snapshots: dense versions, immutable content, states follow the table, one
  published per well, the newest, never of a disturbed run, and saying what the
  runs hold;
* layering: samples between the readings around them, segments that tile the log, no
  jump above the threshold lost, few anomalies, and the same result for a shifted run;
* comparison: a one-to-one matching with the nearest boundaries, which gives up no
  boundary needlessly, recovers a common shift, and can be published.

Not all of this is so: the second table below lists what is not.

## Modules

| Module | Models |
| --- | --- |
| `GeowellModel` | `internal/model/well.go`: state names and transition tables |
| `Profile` | a stored depth profile and the pure code on it: `ingest`, `datum`, `calibrate`, readiness, completeness counts |
| `RunService` | the run operations of `internal/service` over `internal/store`, with concurrency and faults |
| `RunLifecycle` | abstract: the life a run is promised |
| `MCRunService` | batches, plans and segment shapes for TLC |
| `RunRegistry` | `CreateWellRun`: lookup and insert as two statements, with faults |
| `Comparison` | `internal/compare`: the greedy matching, serializability |
| `Layering` | `internal/layer`: resampling, boundary detection and merging, classification |
| `MCAlgorithms` | every small profile and every pair of small boundary lists, and what `Layering` and `Comparison` make of them |
| `SnapshotService` | `PublishComparison` over `internal/snapshot`, `compare`, `store` |
| `SnapshotHistory` | abstract: the life the versions of a well are promised |
| `SnapshotTimeline` | history variables beside `SnapshotService`: what has stayed the same since a publication began |
| `MCSnapshotService`, `MCSnapshotTimeline` | units, pairs and boundary lists for TLC; the symmetry of workers |
| `Geowell` | the service as a whole: `RunRegistry`, `RunService` and `SnapshotService` on one database |
| `MCGeowell` | creations, uploads, plans and segment shapes for TLC; the specification of the run `Progress` |
| `ProfileTheorems` | typing lemmas about the operators of `Profile` |
| `RunServiceProofs` | type, lock, replacement and lifecycle theorems of `RunService` |
| `RunDataProofs` | theorems of `RunService` about points, segment ids and archived runs |
| `SnapshotServiceProofs` | theorems of `SnapshotService`: numbering, immutability, the promised history, types |
| `SnapshotTimelineProofs` | theorems of `SnapshotTimeline`: what a publication publishes, with overlaps and faults |
| `GeowellProofs` | theorems of `Geowell`: its runs, its registry, the wells of its snapshots, and that it implements `SnapshotService` |
| `ComparisonProofs` | lemmas about `Comparison`: the matching, for boundary lists of any length |
| `LayeringProofs` | theorems of `MCAlgorithms`: what layering and comparison compute, for inputs of any size |

`RunService` extends `Profile`; `SnapshotService` extends `Comparison`; `Layering`
extends `Profile`. `RunService` and `SnapshotService` are each shown to implement
an abstract specification through an `INSTANCE ... WITH` (`ImplementsLifecycle`,
`ImplementsHistory`). `Geowell` extends `RunService`, instantiates `RunRegistry`,
and instantiates `SnapshotService` with the columns of the runs substituted for the
runs of that module, so that a publication reads what creations, corrections and
layering passes have stored; that the composition in turn implements
`SnapshotService` is `ImplementsPublications`.

### RunService and the code

`run`, `points`, `segments`, `lastSegID` are the tables (rows of a run together,
`points[r]` a function from `seq` to the row), `layering` is
`Service.layering`, and `calls[w]` is the call goroutine `w` serves: the operation,
the label of its next statement and its local variables. A step performs one
statement (or one lock operation) and the local computation up to the next one:

| Go | Actions |
| --- | --- |
| `IngestPoints` | `IngestBegin` (read, validate, convert), `BulkUpsertPoints`, `TransitionGet`, `UpdateWellRunState` |
| `CorrectDepth` | `CorrectBegin`, `CorrectCompute`, `BulkUpsertPoints`, `SetWellRunMeta` |
| `CorrectDepthPlan` | `CorrectBegin`, `PlanCompute`, `BulkUpsertPoints`, `SetWellRunMeta` |
| `Layer` | `LayerLock`, `LayerGet`, `LayerCompute`, `ReplaceSegments`, `TransitionGet`, `UpdateWellRunState`, `LayerRelease` |
| `ArchiveRun` | `ArchiveBegin`, `TransitionGet`, `UpdateWellRunState` |
| `ConfirmSegment` | `ConfirmSegment` |
| a statement error; a restart | `Fail`; `Crash` |

`ReplaceSegments` and `BulkUpsertPoints` are transactions, hence one step; a
failing one is rolled back. Every way out of `Layer` passes through
`LayerRelease`, the deferred function. A request that is refused at its first
read changes nothing and is not a step.

Depths and temperatures are integers: the code compares, subtracts and maps them
linearly. `GridStep` is `layer.Params.GridStep`. `BandDivisor` stands for the 5%
band of the disturbance detector: a profile of 60 or more rows is needed for the
band to hold three readings, so the instances use `BandDivisor = 1` and, where a
disturbance is wanted, profiles of four rows. What `Detect` and `Classify` make of
a profile is a choice from `SegmentShapes`, of which `RunService` assumes only what
`LayeringAsAssumed` checks of `Layering`: segments are found exactly when the grid
has two samples, they get deeper, and the first is stable.

`ExclusiveIngest` says whether ingestion overlaps with other calls on the run.
`IngestPoints` has no route: only the smoke test (and tests) call it, in
sequence, so `TRUE` is this program, and `FALSE` one that exposes it.

### SnapshotService and the code

`run` keeps what a publication reads of a run (its well and units, the disturbance
flag, the segment tops); a run without a well is not registered yet.
`CreateWellRun`, `SetWellRunMeta` and `ReplaceSegments` change it at any time, as
creations, corrections and layering passes do. `PublishComparison` is `PublishBegin`, `ReadTarget`,
`ListBaseline`, `ListTarget` (which compares and serializes), `LatestVersion`,
`CreateSnapshot`, `SubmitForReview`, `SupersedePublished`, `Publish`. The second
read of the runs in `CompareRuns` looks only at columns that never change, and the
last `GetSnapshot` only answers the client; neither is a step. A snapshot's code
is its well and version, so UNIQUE on the code is uniqueness of the pair.

`SnapshotTimeline` adds to each worker three history variables, which take part in no
step: the runs flagged ever since its publication began (`flagged`), the runs whose
segments have stayed (`settled`), and the snapshots whose publications were over by
then (`earlier`). With them the promises of a publication can be stated for
publications that overlap anything: the code reads first and publishes later, and what
it guarantees is about what has not changed in between.

### RunRegistry, Layering and Geowell

`RunRegistry` keeps the rows of `well_runs` in the order of their ids, and the
creation each goroutine serves: `CreateBegin` (units), `GetWellRunByCode`,
`InsertWellRun`, `Done`. The code treats every error of the lookup as a missing
row, so `Fail` at the lookup goes on to the insert.

`Layering` works on a stored profile as `Resample` does, in the order of the seq
numbers and not of the depths. Gradients are differences of temperature per grid
step, which is the same for all, so the threshold is one per step; the median is
doubled to stay an integer.

`Geowell` serves requests of every kind at the same time: a worker has a call on a
run and a publication under way independently of each other, creators register runs
meanwhile, and confirmations come at any moment. A request on a run is made only once
the run is registered. Nothing is exclusive but ingestion.

## Runs

| Run | States | Shows |
| --- | --- | --- |
| `RunConcurrent` | 335,511 | two goroutines, all operations, failures, crashes: type, exact lock, no interleaved layering passes, lifecycle refinement, fresh segment ids, corrections keep readings and replace the whole profile, the two completeness counts agree, an archived run settles |
| `Progress` | 21,127 | overlapping creations, some failing, and then, under fairness, two goroutines on a run or two publications: one run per code, creations answered with their run, the lock is always given back, stored segments lead to a layered run, stored points out of the collecting state, superseded versions are replaced |
| `Algorithms` | 262,310 | all profiles of up to four rows, all pairs of boundary lists of up to three depths: what layering and comparison compute |
| `SnapshotConcurrent` | 352,748 | two publications, changing runs, failures, crashes: type, dense versions, history refinement, immutable content, a flag that stays blocks, unchanged segments are published as they are, what was published before gives way |
| `System` | 151,906 | the whole service, a creation, a call on a run and a publication at the same time, failures and restarts: snapshots of one well, refinement of `SnapshotService` |

The remaining runs each show a disagreement between the repository's comments or
docs and what the code does; `findings` in `PROJECT.json` quotes them.

| Run | Disagreement |
| --- | --- |
| `ArchivedRunRace` | a call that began before the run was archived changes it afterwards |
| `Relayering` | layering a layered run replaces its segments and then fails |
| `InterruptedLayering` | a layering pass cut off by a restart is not resumed |
| `TwoPublished` | overlapping publications leave two published snapshots |
| `DisturbedPublished` | a run that is flagged while it is being published is published all the same |
| `DuplicateCreation` | of two overlapping creations of a code one gets an error, not the run |
| `MatchesNearest` | a boundary whose counterpart an earlier one has taken is matched elsewhere or reported as vanished |

What needs no run. Some facts that contradict a comment take one call and no
interleaving to see; the models translate them and no property says otherwise:

* the offset strategy leaves the scale at zero (`calibrate.go:40`), so that every depth
  becomes the offset;
* a vanished boundary is a NaN (`compare.go:65`), which JSON cannot carry, so that the
  comparison cannot be published;
* a missing row resets the depth that `VerifyMonotonic` and `Validate` compare with
  (`datum.go:94-96`): readings around a gap may go back, so corrected depths are not
  "strictly increasing" (`datum.go:90`);
* a jump equal to the threshold makes a boundary (`layer.go:114`), though the comments
  say "above" and "exceeds"; `JumpsCovered` is about jumps above it;
* the first inner boundary's jump is taken against a gradient of zero (`layer.go:137`);
* `ConfirmSegment` looks at neither the state of a segment nor its run: it changes the
  state of an archived run's segments and un-confirms a confirmed one;
* the completeness of an empty run is 0 in one route and 1 in another.

Some properties fail outside the bounds they are stated with: `ImplementsLifecycle`,
`CorrectionKeepsReadings` and `CorrectionIsWhole` with `ExclusiveIngest = FALSE` (two
first uploads race in `transitionRun` and one sets a layered run back; an upload between
the read and the write of a correction is undone), and, with faults,
`SegmentedRunGetsLayered`, `UploadedRunMovesOn` and `SupersededIsReplaced`, since
nothing resumes a call that was cut off; `LayeringLockReleased` rests on no such bound.
A calibration plan writes back the flag it read, so that a correction that overlaps it
may lose its flag; no property denies it. Accepted batches can store an unsorted
profile, a batch ingested after a correction stays on the raw datum until the next one,
and a corrected run keeps segments at its old depths. The hazards in `PROJECT.json` name
the line of each.

Bounds. One run and two goroutines suffice for `RunService`: runs share nothing
but the id counter, and every race is between two calls on one run. Three seq
numbers give a profile with a predecessor, an overwritten row and a row out of
order; `MaxSegmentID` stops layering after one or two ids, two allowing a second
pass. For `SnapshotConcurrent`, two workers, two runs of one well and two
snapshots: one publication can supersede the other's, and each can find the flags and
segments of its runs changed between any two of its statements; workers are
interchangeable (`SYMMETRY`). In `System`, two runs that may be of different wells, a
code asked for with two wells, a worker whose call on a run, whose publication and
whose neighbour's creation interleave statement by statement; one snapshot and one
segment id, since what more of either adds is the subject of the modules of that kind,
and the theorems about `Geowell` have no bound. `Progress` has two codes and two
creators; afterwards one run serves two workers, and it is compared with itself, so
that no more runs are needed, and three snapshots let a superseding one be superseded. In
`Algorithms` profiles hold four rows of seven depths (`Depths`, some between grid
points) and three temperatures (`Temps`, which interpolate to integers), or a gap:
up to seven grid samples, enough for two inner boundaries, chains of close ones and
a bottom that is too near; `Shift` is no multiple of the step. Boundary lists hold
up to `MaxBoundaries` depths up to `MaxDepth`, twice the reach of a match.

Fairness. Only the next statement of a call in flight is fair, weakly (`Continue(w)` in
`RunService`, `RunCall(w)` and `PublicationCall(w)` in `Geowell`): such a call is a
running goroutine whose next statement is not blocked for ever (SQLite waits up to its
busy timeout and then fails the statement, which is `Fail`). No request, failure or
crash is fair. `ProgressSpec`, under which `Progress` asks for liveness, lets calls of
one kind overlap, calls on runs or publications, and excludes faults other than those
of creations because after one nobody continues the operation; `InterruptedLayering`
has the same fairness and restarts, and shows exactly that. The runs that disable the
deadlock check (`CHECK_DEADLOCK FALSE`) stop at their bounds or once the run is
archived.

## Proofs

`ProfileTheorems` states what each operator of `Profile` returns.
`RunServiceProofs` proves, for any runs, workers, seq numbers, batches and
requests, from `RunServiceAssumption` and `ProfileAssumption` only:

* `TypeCorrect`: `Spec => []TypeOK`. `TypeOK` alone is not inductive: a call at
  `meta` must be on a run of the database. `TypeInv` adds `ShapedCalls`: which
  operation may be at which label with which run and shape.
* `LockIsExact`: `Spec => []LayeringSerial`, from `TypeInv`. `LockSteps` shows that
  only taking the lock, releasing it and a crash change who layers; the rest
  preserve each call's operation and run.
* `SerialReplace`: `Spec => ReplaceIsSerial`. Segment ids change only in
  `ReplaceSegments`, and by `LayeringSerial` its caller is the run's only layering
  call, which is not at its transition.
* `LifecycleImplemented`: `ExclusiveIngest => (Spec => ImplementsLifecycle)`. The
  invariant `LifeInv` adds `Ready` (what a call in flight still knows about its
  run: an archiving call's run is layered or archived, a layering call's run has
  its segments, and so on), `IngestAlone` and `StateHasSegments`. `Ready` survives
  another call's write because two layering calls exclude each other
  (`LayeringSerial`), ingestion is alone, and archiving only follows layering.
  The assumption is necessary, see the runs above.

`RunDataProofs` adds, for the same constants, theorems about what the calls write:

* `CompletenessIsOne`: `Spec => []CompletenessAgrees`. The invariant `ClassInv` says
  that of every stored row, and of every row a call is about to write, the state is
  "missing" exactly when the gap flag is set and "valid" otherwise: a correction
  that marks a conflict does not pass `VerifyMonotonic`.
* `CorrectionsKeepReadings` and `CorrectionsAreWhole`: `ExclusiveIngest => (Spec =>
  ...)`. `FitInv` says that the rows a correction holds have the seq numbers and the
  readings of the stored profile for as long as the correction is in flight, since
  an upload excludes it and another correction preserves both; so writing them
  replaces the whole profile by the one `VerifyMonotonic` has seen.
* `FreshSegmentIDs`: `Spec => SegmentIDsFresh`. Ids are above the counter, which
  never goes back; a confirmation changes neither id, place nor depth.
* `ArchivedIsFinal`: `ExclusiveIngest => (Spec => ArchivedSettles)`. `FlagInv` says
  that a run is archived exactly when its flag is set; with `LifeInv` no transition
  in flight can take an archived run elsewhere, no new call passes the flag, and a
  confirmation leaves the intervals of the segments alone.

`SnapshotServiceProofs` proves, for any runs, wells, workers, pairs and boundary
lists, with overlapping publications, failures and restarts, and from
`SnapshotServiceAssumption` only:

* `VersionsStayDense`: `Spec => []VersionsDense`;
* `SnapshotsAreImmutable`: `Spec => SnapshotsImmutable`;
* `ServiceImplementsHistory`: `Spec => ImplementsHistory`, the refinement.

* `SnapshotsTyped`: `Spec => []TypeOK`.

The first three rest on one invariant, `Inv`: `Typed` (columns and local variables
have their types; of the detail, which these proofs never look into, nothing is
said), `Numbered` (ids run from 1 and so do the versions of each well), `Foresees` (the
version a call is about to insert is one above some version the well already had,
so that with UNIQUE it is the next one), `Holds` (the snapshot of a call is still
in the state the call put it in) and `Apart` (no two calls hold one snapshot, hence
nobody else takes it elsewhere; `SupersedePublished` touches published ones only).
`Steps` shows that every step keeps it and has one of four effects: nothing, a next
row, one row put into its next state, or the published rows of a well superseded.
The state statements are treated as one kind of step, which restates the rows
(`Restated`), and the refinement maps each effect to a step of `SnapshotHistory`.

`SnapshotsTyped` adds the type of the details, which is that of what `Compare`
returns for lists of integers (`ComparisonProofs`).

`SnapshotTimelineProofs` proves of `TimelineSpec`, without any assumption on what
overlaps:

* `FlagsBlockPublication`: a publication holds in `disturbed` what it has read of the
  flags; as long as it has not published, a run flagged since it began is one whose
  flag it has read or has yet to read;
* `SettledRunsAreCurrent`: what a publication has read of a run whose segments have
  stayed is what the run has, so that the detail it stored, and which `Inv` says no one
  else alters, is the comparison of the runs as they are;
* `EarlierGivesWay`: a snapshot whose publication was over when another began is never
  published again, since only a call that holds a snapshot moves it forward (`Apart`),
  so that once the new call has superseded the well none of them is published.

`GeowellProofs` proves of the composition, for any creators, codes and wells:

* `SystemRuns`: `SystemSpec => Spec`, so that `SystemKeepsRuns` carries theorems of
  `RunService` over to the service;
* `CodesAreUnique` and `CreationsAnswered`, from `RegistryInv`: a creation that missed
  its code may find it taken at the insert, and only then is answered with an error;
* `SnapshotsHaveOneWell`: `SystemSpec => []SnapshotsOfOneWell`. `WellInv` says that a
  publication in flight is of registered runs, of one well once `ReadTarget` has
  checked it, and rows are only ever added;
* `SystemPublishes`: `SystemSpec => ImplementsPublications`, that is, `Geowell`
  implements `SnapshotService` under the substitution of its `Publication` instance.
  The invariant `ViewInv` says that calls in flight are on registered runs, that a call
  about to replace segments holds a shape a pass may find, and that the rows of every
  run are numbered from 1 without a hole (`Indexed`), which makes the tops a
  publication reads (`TopsOf`) well defined: `NewTops` for those a pass stores,
  `ConfirmTops` for a confirmation. Each step of the service is then a registration, a
  flag written, boundaries replaced, a step of a publication, or nothing a publication
  could see (`StepsSeen`). So the theorems about `SnapshotService` are about the
  publications of the whole service;
* `SystemKeepsSnapshots`: `SystemSpec => []VersionsDense /\ SnapshotsImmutable`, both
  as the `Publication` instance states them, through an instance of
  `SnapshotServiceProofs` under the same substitution (`Order`).

`ComparisonProofs` and `LayeringProofs` prove the two algorithms, so that every
property of the run `Algorithms` also holds for profiles of any length, any depths,
temperatures and grid step, boundary lists of any length and any tolerance. (What
`Algorithms` assumes of its inputs stays: integers, and a profile that grows by its
rows in the order of their seq numbers.) The matching and the merging are recursive
functions. The induction theorems of the library take an
operator as a parameter, which the installed provers cannot instantiate; instead
`Least` and `Counting` state the least-number principle and induction of a set of
numbers, and the lemma to prove is put as membership of a set.

* `MatchesAreInjective`, `NoneIsMissed`: `Sound`, proved by induction over the baseline,
  says that no counterpart is used twice, and that a boundary is given up only when
  all within reach are used.
* `ShiftsAreRecovered`: by induction, boundary `n` is matched with boundary `n`: the
  ones above it have taken theirs, and the next is further off than half the spacing.
* `SamplesAlwaysHonourReadings`: `Places` describes what `InOrder` lists, `InterpIs` on
  which line between two readings a sample is, and `Line`, `Quotient` and `Within` that
  the (rounded) value lies between theirs, profiles out of order included.
* `SegmentsAlwaysTile`, `OnlyTheLastIsThin`, `JumpsAreCovered`: `Kept`, by induction over
  the marks, says that merging keeps the first mark, that kept ones are far apart and
  that each mark dropped is close below a kept one; `BoundariesAre` carries this to
  the boundaries. The invariant `LayerInv` says that the profile is typed and that grid
  and segments are those of it.
* `LayeringIsAsAssumed`: what `RunService` assumes of a layering pass (its
  `SegmentShapes`) is thereby a theorem about `Layering`.
* `AnomaliesAreAlwaysFew`: at least half of the jumps are at most the median
  (`Smallest` is characterised by counting), and no jump at or below it is anomalous.
* `LayeringAlwaysShifts`: the stages again for a profile moved by an offset: points,
  grid, marks, boundaries and segments move by it, gradients and jumps stay. The
  invariant adds `Uncorrected`: the calibrated depths are the raw ones, on which a
  correction starts.

Assumptions. Theorems rest on the named `ASSUME`s of the modules and nothing else:
`ProfileAssumption` (the seq numbers are finitely many, the grid step
is positive),
`NoRowAssumption` and `ComparisonAssumption` (`NoRow` is no row, `NaN` no number, the
tolerance is not negative), `LayeringAssumption` (`MinSegThick` is positive and the
threshold not negative: the program always layers with `layer.DefaultParams`, 10 and
0.05; with a thickness of zero two boundaries might coincide), `InputsAssumption`
(depths, temperatures and the offset are integers), `RunServiceAssumption` and
`SnapshotServiceAssumption` (types of the constants), and `GeowellAssumption` (the
pairs to publish are of runs the registry can number). TLC evaluates each of them in
the runs.

Only model-checked: the liveness properties (`LayeringLockReleased`,
`SegmentedRunGetsLayered`, `UploadedRunMovesOn`, `SupersededIsReplaced`), since
TLAPS has no rule about fairness and `ENABLED`, and the disagreements of the second
table, which are shown by their counterexamples. All other properties of the passing
runs are theorems.

## Not modelled

Routing and JSON, display queries, `report`, `export` and the sums of `metrics`,
timestamps, names and pressures (which take part in no decision), pragmas and DDL.
`ingest.Fingerprint`, `compare.ParseDetail`, `compare.Summary`,
`validate.SegmentConfirmable` and `SegmentState.CanTransition` are called by no code
of the program. Floating-point rounding is abstracted away with the reals. What the
client is told of a confirmation that touches no row is not modelled.

## Plan

1. Done: `RunService` and `SnapshotService` with their abstractions, `Comparison`,
   `Layering`, `RunRegistry`, `SnapshotTimeline`, their composition `Geowell`; the
   theorems above.
2. Done: a theorem for every invariant and action property of the passing runs.
3. Left: the lemmas of `LayeringProofs` on shifts repeat the stages of the first part
   and could be stated for a profile and its image at once; liveness stays with TLC.
