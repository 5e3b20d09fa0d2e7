------------------------------- MODULE Geowell -------------------------------
(***************************************************************************)
(* The service as a whole: well runs are registered (RunRegistry), filled, *)
(* corrected, layered and archived (RunService), and the boundaries of two *)
(* runs of a well are compared and published (SnapshotService). The three  *)
(* share the database: a publication reads the wells and units a creation  *)
(* stored, the disturbance flags a correction stored and the segments a    *)
(* layering stored. Requests of all kinds are served at the same time, and *)
(* nothing but the layering lock of a run keeps them apart.                *)
(***************************************************************************)
EXTENDS RunService

CONSTANTS
    Creators,        \* goroutines serving creations
    Requests,        \* [code, well, units] of creation requests
    Units,           \* the <<temperature, pressure>> units known
    MaxRuns,         \* bound: no creation begins once this many are registered
    Pairs,           \* the <<baseline, target>> pairs clients ask to publish
    MaxSnapshots,    \* bound: no publication begins once this many are stored
    None,            \* the well and the units of a run that is not registered yet
    DepthDeltaMax,   \* Tolerance.DepthDeltaMax
    NaN              \* the not-a-number a vanished boundary carries

ASSUME GeowellAssumption ==
    /\ Pairs \subseteq Runs \X Runs
    /\ \A request \in Requests : request.well # None
    /\ MaxSnapshots \in Nat
    /\ DepthDeltaMax \in Nat /\ NaN \notin Int

VARIABLES
    rows,           \* well_runs: code, well and units, by id
    creates,        \* the creation each creator serves
    snapshots,      \* comparison_snapshots
    publications    \* the publication each worker serves

allVars == <<vars, rows, creates, snapshots, publications>>

Registry == INSTANCE RunRegistry

\* The depths a publication compares: the tops of the segments, by idx.
BoundariesFromSegments(r) ==
    [i \in 1..Cardinality(segments[r]) |->
        (CHOOSE s \in segments[r] : s.idx = i).top]

Wells == {request.well : request \in Requests}

Row(r) == IF r \in DOMAIN rows THEN rows[r] ELSE [well |-> None, units |-> None]

Publication ==
    INSTANCE SnapshotService WITH
        run   <- [r \in Runs |-> [well        |-> Row(r).well,
                                  units       |-> Row(r).units,
                                  disturbance |-> run[r].disturbance,
                                  tops        |-> BoundariesFromSegments(r)]],
        calls <- publications,
        Tops  <- {[i \in 1..Len(shape) |-> shape[i].top] : shape \in SegmentShapes}

SystemInit ==
    /\ Init
    /\ Registry!Init
    /\ snapshots = {}
    /\ publications = [w \in Workers |-> Publication!Idle]

-----------------------------------------------------------------------------
(* Steps *)

\* Register a run.
Creation ==
    /\ \E c \in Creators : Registry!Begin(c) \/ Registry!Continue(c)
    /\ UNCHANGED <<vars, snapshots, publications>>

\* Ask for an operation on a run that is registered.
RunRequest ==
    /\ \E w \in Workers : Request(w) /\ calls'[w].run \in DOMAIN rows
    /\ UNCHANGED <<rows, creates, snapshots, publications>>

RunCall(w) ==
    /\ Continue(w)
    /\ UNCHANGED <<rows, creates, snapshots, publications>>

Confirmation ==
    /\ Confirm
    /\ UNCHANGED <<rows, creates, snapshots, publications>>

\* Ask for the comparison of two runs.
PublicationRequest ==
    /\ UNCHANGED <<vars, rows, creates>>
    /\ \E w \in Workers, pair \in Pairs : Publication!PublishBegin(w, pair)

PublicationCall(w) ==
    /\ UNCHANGED <<vars, rows, creates>>
    /\ Publication!Continue(w)

\* A statement of a call fails.
Failure ==
    \/ /\ \E c \in Creators : Registry!Fail(c)
       /\ UNCHANGED <<vars, snapshots, publications>>
    \/ /\ \E w \in Workers : Fail(w)
       /\ UNCHANGED <<rows, creates, snapshots, publications>>
    \/ /\ UNCHANGED <<vars, rows, creates>>
       /\ \E w \in Workers : Publication!Fail(w)

\* The process stops and restarts on the same database.
Restart ==
    /\ Crash
    /\ Registry!Crash
    /\ Publication!Crash

SystemStep ==
    \/ Creation
    \/ RunRequest
    \/ Confirmation
    \/ PublicationRequest
    \/ \E w \in Workers : RunCall(w) \/ PublicationCall(w)

SystemNext == SystemStep \/ Failure \/ Restart

SystemSpec == SystemInit /\ [][SystemNext]_allVars

\* The service while nothing fails.
FaultFreeSystemSpec == SystemInit /\ [][SystemStep]_allVars

-----------------------------------------------------------------------------
(* Properties *)

OneRunPerCode == Registry!OneRunPerCode

CreationAnswers == Registry!CreationAnswers

CreationIdempotent == Registry!CreationIdempotent

\* A snapshot belongs to the well of both its runs, although the well it is
\* versioned and superseded under is taken from its baseline run alone.
SnapshotsOfOneWell ==
    \A s \in snapshots :
        /\ s.baseline \in DOMAIN rows /\ rows[s.baseline].well = s.well
        /\ s.target \in DOMAIN rows /\ rows[s.target].well = s.well

\* To publications, the creations, uploads, corrections, layering passes,
\* confirmations and archivings that run beside them are what SnapshotService
\* says they are: a run appears once and keeps its well and its units, its flag
\* changes, and its boundaries become those of a layering pass, all at once.
ImplementsPublications == Publication!Spec

\* "The wellhead disturbance on either run blocks publication until excluded"
\* (PublishComparison): a snapshot is published only while neither of its runs
\* is flagged.
PublishedIsUndisturbed ==
    [][\A t \in snapshots' :
          t.state = "published" /\ t \notin snapshots =>
              ~run[t.baseline].disturbance /\ ~run[t.target].disturbance]_allVars
=============================================================================
