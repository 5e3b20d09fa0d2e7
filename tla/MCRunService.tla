---------------------------- MODULE MCRunService ----------------------------
(***************************************************************************)
(* Small instances of RunService for TLC.                                  *)
(***************************************************************************)
EXTENDS RunService

\* A reading, and a row the logging tool marked missing.
R(seq, depth, temp) == [seq |-> seq, depth |-> depth, temp |-> temp, missing |-> FALSE]
Gap(seq, depth) == [seq |-> seq, depth |-> depth, temp |-> 0, missing |-> TRUE]

M(raw, cal) == [raw |-> raw, cal |-> cal]

\* A first upload, and a late one that overwrites a reading with a gap and adds
\* a reading that is shallower than the first one's last.
TwoBatches == {<<R(1, 10, 2), R(2, 20, 1)>>, <<Gap(2, 0), R(3, 15, 2)>>}

OneBatch == {<<R(1, 10, 2), R(2, 20, 1)>>}

\* A log of a single reading.
SingleRow == {<<R(1, 10, 2)>>}

S(top, state) == [top |-> top, state |-> state]

Shapes == {<<S(10, "stable")>>, <<S(12, "stable"), S(17, "anomaly")>>}
OneShape == {<<S(10, "stable")>>}

TiePoint == {[strategy |-> "tie_point", markers |-> <<M(10, 12)>>]}

OffsetPlan == {[strategy |-> "offset", markers |-> <<M(10, 12)>>]}

AllPlans == TiePoint \cup OffsetPlan \cup
    {[strategy |-> "stretch", markers |-> <<M(10, 10), M(20, 30)>>]}
=============================================================================
