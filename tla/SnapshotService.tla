--------------------------- MODULE SnapshotService --------------------------
(***************************************************************************)
(* PublishComparison of internal/service over internal/snapshot,           *)
(* internal/compare and internal/store: two runs of a well are compared and*)
(* the result becomes the next version of the well's snapshot, which is    *)
(* reviewed and published, superseding the one published before.           *)
(*                                                                         *)
(* A call performs one SQL statement per step and takes no lock, so        *)
(* publications interleave with each other and with the calls that change  *)
(* the runs. Of a run, only what a publication reads is kept here.         *)
(***************************************************************************)
EXTENDS Comparison, FiniteSets, GeowellModel

CONSTANTS
    Runs,            \* well runs
    Wells,           \* the wells of the runs
    Units,           \* the <<temperature, pressure>> units they declare
    Workers,         \* goroutines, each serving one publication at a time
    Pairs,           \* the <<baseline, target>> pairs clients ask to publish
    Tops,            \* the boundary lists a layering pass may leave
    None,            \* the well and the units of a run that is not registered yet
    MaxSnapshots     \* bound: no publication begins once this many are stored

ASSUME SnapshotServiceAssumption ==
    /\ Pairs \subseteq Runs \X Runs
    /\ Tops \subseteq Seq(Int)
    /\ None \notin Wells
    /\ MaxSnapshots \in Nat

VARIABLES
    run,        \* well_runs by id, and the tops of the segments of each run
    snapshots,  \* comparison_snapshots
    calls       \* the publication each worker serves, with its local variables

vars == <<run, snapshots, calls>>

Run == [well : Wells \cup {None}, units : Units \cup {None},
        disturbance : BOOLEAN, tops : Seq(Int)]

Unregistered == [well |-> None, units |-> None, disturbance |-> FALSE, tops |-> <<>>]

Moves == Seq([baseline : Int, target : Int, delta : Int, anomaly : BOOLEAN])

Snapshot == [id : Nat \ {0}, well : Wells, version : Nat \ {0},
             state : SnapshotStates, baseline : Runs, target : Runs,
             detail : Moves]

Call == [pc       : {"get_t", "list_b", "list_t", "latest", "create",
                     "review", "supersede", "publish"},
         baseline : Runs,
         target   : Runs,
         disturbed : BOOLEAN,        \* bRun.Disturbance or tRun.Disturbance
         tops     : Seq(Int),        \* bBounds
         detail   : Moves,
         version  : Nat,
         id       : Nat]

Idle == [pc |-> "idle"]

TypeOK ==
    /\ run \in [Runs -> Run]
    /\ snapshots \subseteq Snapshot
    /\ calls \in [Workers -> Call \cup {Idle}]

Init ==
    /\ run = [r \in Runs |-> Unregistered]
    /\ snapshots = {}
    /\ calls = [w \in Workers |-> Idle]

-----------------------------------------------------------------------------
(* Calls *)

Registered(r) == run[r].well # None

\* The worker's call becomes c.
Set(w, c) == calls' = [calls EXCEPT ![w] = c]

Goto(w, pc) == Set(w, [calls[w] EXCEPT !.pc = pc])

\* Return to the client, with the snapshot or with an error.
Return(w) == Set(w, Idle)

OfWell(well) == {s \in snapshots : s.well = well}

-----------------------------------------------------------------------------
(* Statements of the store *)

\* Variant: the detail is written even when none is given.
UpdateSnapshotState_ClearsDetail(id, st) ==
    {IF s.id = id THEN [s EXCEPT !.state = st, !.detail = <<>>] ELSE s : s \in snapshots}

UpdateSnapshotState(id, st) ==
    {IF s.id = id THEN [s EXCEPT !.state = st] ELSE s : s \in snapshots}

\* Variant: the exception is inverted, only the given snapshot is selected.
SupersedeOthers_Swapped(well, id) ==
    {IF s.well = well /\ s.state = "published" /\ s.id = id
     THEN [s EXCEPT !.state = "superseded"] ELSE s : s \in snapshots}

\* Variant: the state of the snapshots is not looked at.
SupersedeOthers_AnyState(well, id) ==
    {IF s.well = well /\ s.id # id
     THEN [s EXCEPT !.state = "superseded"] ELSE s : s \in snapshots}

SupersedeOthers(well, id) ==
    {IF s.well = well /\ s.state = "published" /\ s.id # id
     THEN [s EXCEPT !.state = "superseded"] ELSE s : s \in snapshots}

-----------------------------------------------------------------------------
(* PublishComparison *)

\* Read the baseline run. A baseline that is not registered is refused.
PublishBegin(w, pair) ==
    /\ calls[w] = Idle
    /\ Registered(pair[1])
    /\ Cardinality(snapshots) < MaxSnapshots
    /\ Set(w, [pc |-> "get_t", baseline |-> pair[1], target |-> pair[2],
               disturbed |-> run[pair[1]].disturbance, tops |-> <<>>,
               detail |-> <<>>, version |-> 0, id |-> 0])
    /\ UNCHANGED <<run, snapshots>>

\* Variant: runs of any two wells compare.
Comparable_AnyWell(b, t) == run[b].units = run[t].units

Comparable(b, t) == run[b].well = run[t].well /\ run[b].units = run[t].units

\* Variant: the flag of the target run is forgotten.
ReadTarget_IgnoresFlag(w) ==
    LET c == calls[w]
    IN  /\ c.pc = "get_t"
        /\ \/ Comparable(c.baseline, c.target) /\ Goto(w, "list_b")
           \/ ~Comparable(c.baseline, c.target) /\ Return(w)
        /\ UNCHANGED <<run, snapshots>>

\* Read the target run. Runs of different wells or units do not compare, nor
\* does one that is not registered (these columns never change once they are
\* stored, so that the second reads of CompareRuns add nothing).
ReadTarget(w) ==
    LET c == calls[w]
    IN  /\ c.pc = "get_t"
        /\ \/ /\ Comparable(c.baseline, c.target)
              /\ Set(w, [c EXCEPT !.pc = "list_b",
                                  !.disturbed = @ \/ run[c.target].disturbance])
           \/ ~Comparable(c.baseline, c.target) /\ Return(w)
        /\ UNCHANGED <<run, snapshots>>

ListBaseline(w) ==
    LET c == calls[w]
    IN  /\ c.pc = "list_b"
        /\ Set(w, [c EXCEPT !.pc = "list_t", !.tops = run[c.baseline].tops])
        /\ UNCHANGED <<run, snapshots>>

\* Variant: the baseline's segments are read a second time.
ListTarget_Baseline(w) ==
    LET c     == calls[w]
        moves == Compare(c.tops, run[c.baseline].tops)
    IN  /\ c.pc = "list_t"
        /\ \/ BuildDetailSucceeds(moves)
              /\ Set(w, [c EXCEPT !.pc = "latest", !.detail = moves])
           \/ ~BuildDetailSucceeds(moves) /\ Return(w)
        /\ UNCHANGED <<run, snapshots>>

\* Read the target's segments, compare, and serialize the movements, which
\* fails when a boundary has vanished.
ListTarget(w) ==
    LET c     == calls[w]
        moves == Compare(c.tops, run[c.target].tops)
    IN  /\ c.pc = "list_t"
        /\ \/ BuildDetailSucceeds(moves)
              /\ Set(w, [c EXCEPT !.pc = "latest", !.detail = moves])
           \/ ~BuildDetailSucceeds(moves) /\ Return(w)
        /\ UNCHANGED <<run, snapshots>>

\* The version NextCode will give: the greatest stored one plus one.
LatestVersion(w) ==
    LET c        == calls[w]
        versions == {0} \cup {s.version : s \in OfWell(run[c.baseline].well)}
        latest   == CHOOSE v \in versions : \A u \in versions : u <= v
    IN  /\ c.pc = "latest"
        /\ Set(w, [c EXCEPT !.pc = "create", !.version = latest + 1])
        /\ UNCHANGED <<run, snapshots>>

\* The row of the call c in the table, as a draft.
Draft(c) ==
    [id |-> Cardinality(snapshots) + 1, well |-> run[c.baseline].well,
     version |-> c.version, state |-> "draft", baseline |-> c.baseline,
     target |-> c.target, detail |-> c.detail]

\* Variant: the code column is not UNIQUE.
CreateSnapshot_NoUnique(w) ==
    LET c == calls[w]
    IN  /\ c.pc = "create"
        /\ snapshots' = snapshots \cup {Draft(c)}
        /\ Set(w, [c EXCEPT !.pc = "review", !.id = Draft(c).id])
        /\ UNCHANGED run

\* Variant: the first version of a well is numbered 0.
CreateSnapshot_OffByOne(w) ==
    LET c == calls[w]
        d == Draft([c EXCEPT !.version = @ - 1])
    IN  /\ c.pc = "create"
        /\ snapshots' = snapshots \cup {d}
        /\ Set(w, [c EXCEPT !.pc = "review", !.id = d.id])
        /\ UNCHANGED run

\* INSERT. The code of a snapshot is its well and version, and UNIQUE: the
\* insert fails when another call has taken the version in the meantime.
CreateSnapshot(w) ==
    LET c     == calls[w]
        taken == \E s \in OfWell(run[c.baseline].well) : s.version = c.version
    IN  /\ c.pc = "create"
        /\ \/ /\ ~taken
              /\ snapshots' = snapshots \cup {Draft(c)}
              /\ Set(w, [c EXCEPT !.pc = "review", !.id = Draft(c).id])
           \/ taken /\ Return(w) /\ UNCHANGED snapshots
        /\ UNCHANGED run

\* Under review; the snapshot stays so when either run was disturbed.
SubmitForReview(w) ==
    LET c == calls[w]
    IN  /\ c.pc = "review"
        /\ snapshots' = UpdateSnapshotState(c.id, "under_review")
        /\ \/ c.disturbed /\ Return(w)
           \/ ~c.disturbed /\ Goto(w, "supersede")
        /\ UNCHANGED run

SupersedePublished(w) ==
    LET c == calls[w]
    IN  /\ c.pc = "supersede"
        /\ snapshots' = SupersedeOthers(run[c.baseline].well, c.id)
        /\ Goto(w, "publish")
        /\ UNCHANGED run

\* Variant: a snapshot that is not the newest any more is left under review.
Publish_OnlyNewest(w) ==
    LET c      == calls[w]
        newest == \A s \in OfWell(run[c.baseline].well) : s.id <= c.id
    IN  /\ c.pc = "publish"
        /\ \/ newest /\ snapshots' = UpdateSnapshotState(c.id, "published")
           \/ ~newest /\ UNCHANGED snapshots
        /\ Return(w)
        /\ UNCHANGED run

Publish(w) ==
    LET c == calls[w]
    IN  /\ c.pc = "publish"
        /\ snapshots' = UpdateSnapshotState(c.id, "published")
        /\ Return(w)
        /\ UNCHANGED run

-----------------------------------------------------------------------------
(* The runs change, and faults *)

\* Register a run.
CreateWellRun(r, well, units) ==
    /\ ~Registered(r)
    /\ run' = [run EXCEPT ![r].well = well, ![r].units = units]
    /\ UNCHANGED <<snapshots, calls>>

\* CorrectDepth sets the disturbance flag of a run.
SetWellRunMeta(r, disturbance) ==
    /\ Registered(r)
    /\ run' = [run EXCEPT ![r].disturbance = disturbance]
    /\ UNCHANGED <<snapshots, calls>>

\* Layer replaces the segments of a run.
ReplaceSegments(r, tops) ==
    /\ Registered(r)
    /\ run' = [run EXCEPT ![r].tops = tops]
    /\ UNCHANGED <<snapshots, calls>>

\* A statement fails: the call returns.
Fail(w) ==
    /\ calls[w] # Idle
    /\ Return(w)
    /\ UNCHANGED <<run, snapshots>>

\* The process stops and restarts on the same database.
Crash ==
    /\ calls' = [w \in Workers |-> Idle]
    /\ UNCHANGED <<run, snapshots>>

-----------------------------------------------------------------------------
(* Specifications *)

Continue(w) ==
    \/ ReadTarget(w)
    \/ ListBaseline(w)
    \/ ListTarget(w)
    \/ LatestVersion(w)
    \/ CreateSnapshot(w)
    \/ SubmitForReview(w)
    \/ SupersedePublished(w)
    \/ Publish(w)

RunChange ==
    \E r \in Runs :
        \/ \E well \in Wells, units \in Units : CreateWellRun(r, well, units)
        \/ \E disturbance \in BOOLEAN : SetWellRunMeta(r, disturbance)
        \/ \E tops \in Tops : ReplaceSegments(r, tops)

Step ==
    \/ RunChange
    \/ \E w \in Workers :
          \/ \E pair \in Pairs : PublishBegin(w, pair)
          \/ Continue(w)

Fault == Crash \/ \E w \in Workers : Fail(w)

Next == Step \/ Fault

Spec == Init /\ [][Next]_vars

\* The publications while nothing fails.
FaultFreeSpec == Init /\ [][Step]_vars

-----------------------------------------------------------------------------
(* Properties *)

WithState(well, st) == {s \in OfWell(well) : s.state = st}

\* LatestVersion and the insert are apart and nothing locks them, yet the
\* versions of a well are 1, 2, ... without a hole or a duplicate, whatever
\* fails in between.
VersionsDense ==
    \A well \in Wells :
        {s.version : s \in OfWell(well)} = 1..Cardinality(OfWell(well))

\* Concurrent publications, failures and restarts leave every snapshot on the
\* promised path: draft, under review, published, superseded.
History ==
    INSTANCE SnapshotHistory WITH
        history <- [well \in Wells |->
                       [v \in 1..Cardinality(OfWell(well)) |->
                           LET s == CHOOSE s \in OfWell(well) : s.version = v
                           IN  s.state]]

ImplementsHistory == History!Spec

\* A snapshot is "a versioned, immutable comparison artifact" (internal/
\* snapshot): later state changes, of this or any other snapshot, never touch
\* what it says and never remove it.
SnapshotsImmutable ==
    [][\A s \in snapshots : \E t \in snapshots' : t = [s EXCEPT !.state = t.state]]_vars

\* "SupersedePublished marks any previously published snapshot for this well as
\* superseded" (store/snapshot.go): a well has at most one published snapshot.
AtMostOnePublished ==
    \A well \in Wells : Cardinality(WithState(well, "published")) <= 1

\* While nothing fails, a well whose published snapshot was superseded gets a
\* published one again: overlapping publications never supersede each other
\* away for good.
SupersededIsReplaced ==
    \A well \in Wells :
        WithState(well, "superseded") # {} ~> WithState(well, "published") # {}
=============================================================================
