--------------------------- MODULE SnapshotTimeline -------------------------
(***************************************************************************)
(* What publications that overlap each other and changes of the runs can   *)
(* still promise. A publication reads the flags and the segments of its    *)
(* runs long before it publishes, so what it publishes need not describe   *)
(* the runs as they are by then; it does when they have not changed since  *)
(* it began. To say so, history variables watch SnapshotService: they take *)
(* part in no step of it.                                                  *)
(***************************************************************************)
EXTENDS SnapshotService

VARIABLES
    flagged,    \* the runs flagged ever since the worker's publication began
    settled,    \* the runs whose segments have been the same ever since
    earlier     \* the ids of the snapshots whose publications were over by then

timelineVars == <<vars, flagged, settled, earlier>>

InFlight == {w \in Workers : calls[w] # Idle}

TimelineInit ==
    /\ Init
    /\ flagged = [w \in Workers |-> {}]
    /\ settled = [w \in Workers |-> {}]
    /\ earlier = [w \in Workers |-> {}]

FlaggedSince(w) ==
    {r \in Runs : run'[r].disturbance /\ (w \in InFlight => r \in flagged[w])}

SettledSince(w) ==
    {r \in Runs : run'[r].tops = run[r].tops /\ (w \in InFlight => r \in settled[w])}

EarlierThan(w) ==
    IF w \in InFlight THEN earlier[w]
    ELSE {s.id : s \in snapshots} \ {calls[v].id : v \in InFlight}

\* What the history variables make of a step.
Watch ==
    /\ flagged' = [w \in Workers |-> IF calls'[w] = Idle THEN {} ELSE FlaggedSince(w)]
    /\ settled' = [w \in Workers |-> IF calls'[w] = Idle THEN {} ELSE SettledSince(w)]
    /\ earlier' = [w \in Workers |-> IF calls'[w] = Idle THEN {} ELSE EarlierThan(w)]

TimelineNext == Next /\ Watch

TimelineSpec == TimelineInit /\ [][TimelineNext]_timelineVars

-----------------------------------------------------------------------------
(* Properties *)

\* The snapshots a step publishes, and the publication of a snapshot.
NewlyPublished == {t \in snapshots' : t.state = "published" /\ t \notin snapshots}

Publishes(w, t) == w \in InFlight /\ calls[w].id = t.id

\* "The wellhead disturbance on either run blocks publication until excluded"
\* (PublishComparison), as far as the code sees to it: a run that has been
\* flagged ever since the publication began blocks it, whatever else happens
\* meanwhile. One that gets flagged after its flag was read does not.
FlagBlocksPublication ==
    [][\A t \in NewlyPublished : \E w \in Workers :
          /\ Publishes(w, t)
          /\ {t.baseline, t.target} \cap flagged[w] = {}]_timelineVars

\* Unless a layering pass replaced the segments of one of its runs after the
\* publication began, a snapshot says when it is published what comparing its
\* runs gives: their segments are read after each other, and long before.
SettledIsCurrent ==
    [][\A t \in NewlyPublished : \E w \in Workers :
          /\ Publishes(w, t)
          /\ {t.baseline, t.target} \subseteq settled[w] =>
                t.detail = Compare(run[t.baseline].tops, run[t.target].tops)]_timelineVars

\* A publication replaces whatever was published for its well by publications
\* that were over when it began, also by failed and interrupted ones; only a
\* publication it overlaps with can leave a second snapshot published.
EarlierIsSuperseded ==
    [][\A t \in NewlyPublished : \E w \in Workers :
          /\ Publishes(w, t)
          /\ \A s \in snapshots' :
                s.well = t.well /\ s.id \in earlier[w] => s.state # "published"]_timelineVars
=============================================================================
