------------------------------ MODULE MCGeowell ------------------------------
(***************************************************************************)
(* Small instances of Geowell for TLC.                                     *)
(***************************************************************************)
EXTENDS Geowell

\* A reading.
R(seq, depth, temp) == [seq |-> seq, depth |-> depth, temp |-> temp, missing |-> FALSE]

\* An upload with a shallow dip and rise.
Dip == {<<R(1, 10, 2), R(2, 20, 1), R(3, 30, 2), R(4, 40, 2)>>}
\* A first upload, and a late row that is shallower than its predecessor.
TwoBatches == {<<R(1, 10, 2), R(2, 20, 1)>>, <<R(3, 15, 2)>>}

TiePoint == {[strategy |-> "tie_point", markers |-> <<[raw |-> 10, cal |-> 12]>>]}

\* One segment.
OneShape == {<<[top |-> 10, state |-> "stable"]>>}

\* Two codes, one of them asked for with two wells.
C(code, well) == [code |-> code, well |-> well, units |-> <<"C", "MPa">>]
Creations == {C("a", "A"), C("a", "B"), C("b", "A")}

\* Two codes of a well.
TwoCodes == {C("a", "A"), C("b", "A")}

Celsius == {<<"C", "MPa">>}

Forward == {<<1, 2>>}
Itself == {<<1, 1>>}

-----------------------------------------------------------------------------
(* Progress is asked of the calls of one kind that overlap each other: when *)
(* all runs are registered, clients either work on them or publish. Nothing *)
(* fails, apart from creations.                                             *)

AllRegistered ==
    Len(rows) = MaxRuns /\ creates = [c \in Creators |-> Registry!Idle]

Unpublished ==
    snapshots = {} /\ publications = [w \in Workers |-> Publication!Idle]

ProgressNext ==
    \/ /\ Init /\ Unpublished
       /\ Creation \/ Failure
    \/ /\ AllRegistered /\ Unpublished
       /\ RunRequest \/ Confirmation \/ \E w \in Workers : RunCall(w)
    \/ /\ AllRegistered /\ Init
       /\ PublicationRequest \/ \E w \in Workers : PublicationCall(w)

\* A call in flight is a running goroutine: it gets to its next statement.
ProgressSpec ==
    /\ SystemInit /\ [][ProgressNext]_allVars
    /\ \A w \in Workers : WF_allVars(RunCall(w)) /\ WF_allVars(PublicationCall(w))

SupersededIsReplaced == Publication!SupersededIsReplaced
=============================================================================
