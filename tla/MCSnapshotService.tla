-------------------------- MODULE MCSnapshotService -------------------------
(***************************************************************************)
(* Small instances of SnapshotService for TLC.                             *)
(***************************************************************************)
EXTENDS SnapshotService

CONSTANTS r1, r2

Celsius == {<<"C", "MPa">>}

Forward == {<<r1, r2>>}

\* A single boundary, and one so far from it that it counts as vanished.
OneList == {<<0>>}
TwoLists == {<<0>>, <<9>>}
=============================================================================
