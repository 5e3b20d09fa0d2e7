-------------------------- MODULE MCSnapshotTimeline ------------------------
(***************************************************************************)
(* Small instances of SnapshotTimeline for TLC.                            *)
(***************************************************************************)
EXTENDS SnapshotTimeline, MCSnapshotService, TLC

\* Goroutines are alike.
WorkerSymmetry == Permutations(Workers)
=============================================================================
