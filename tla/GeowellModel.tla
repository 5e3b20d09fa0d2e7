---------------------------- MODULE GeowellModel ----------------------------
(***************************************************************************)
(* The state machines of internal/model/well.go: the names of the states   *)
(* and, for each entity, the table its CanTransition method looks up.      *)
(***************************************************************************)

\* Lifecycle of a well run.
WellRunStates == {"collecting", "pending_layering", "layered", "archived"}

wellRunTransitions ==
    [ collecting       |-> {"pending_layering", "archived"},
      pending_layering |-> {"layered", "archived"},
      layered          |-> {"archived"},
      archived         |-> {} ]

WellRunCanTransition(from, to) == to \in wellRunTransitions[from]

\* Calibration state of a measurement point. Nothing in the program assigns
\* "pending_cal"; it is listed because the type declares it.
PointStates == {"pending_cal", "valid", "depth_conflict", "missing"}

\* Lifecycle of a detected segment.
SegmentStates == {"candidate", "stable", "anomaly", "confirmed"}

segmentTransitions ==
    [ candidate |-> {"stable", "anomaly", "confirmed"},
      stable    |-> {"confirmed"},
      anomaly   |-> {"confirmed"},
      confirmed |-> {} ]

SegmentCanTransition(from, to) == to \in segmentTransitions[from]

\* Lifecycle of a comparison snapshot.
SnapshotStates == {"draft", "under_review", "published", "superseded"}

snapshotTransitions ==
    [ draft        |-> {"under_review", "superseded"},
      under_review |-> {"published", "superseded"},
      published    |-> {"superseded"},
      superseded   |-> {} ]

SnapshotCanTransition(from, to) == to \in snapshotTransitions[from]
=============================================================================
