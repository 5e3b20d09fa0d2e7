----------------------- MODULE SnapshotTimelineProofs -----------------------
(***************************************************************************)
(* What publications promise although they overlap each other and changes *)
(* of the runs: the properties of SnapshotTimeline, with any number of     *)
(* runs, wells and publications under way, of failures and of restarts.    *)
(***************************************************************************)
EXTENDS SnapshotTimeline, SnapshotServiceProofs

-----------------------------------------------------------------------------
(* The steps of the service *)

LEMMA OneCall ==
    ASSUME Inv, NEW w \in Workers, NEW c, Set(w, c)
    PROVE  calls'[w] = c /\ \A v \in Workers \ {w} : calls'[v] = calls[v]
<1>1. calls' = [calls EXCEPT ![w] = c] /\ calls = [v \in Workers |-> calls[v]]
  BY DEF Set, Inv, Typed
<1>2. QED
  BY <1>1

\* What a step makes of a call: nothing, its end, its beginning or its next
\* statement.
LEMMA OwnOrOther ==
    ASSUME Inv, [Next]_vars, NEW w \in Workers
    PROVE  \/ calls'[w] = calls[w]
           \/ calls'[w] = Idle
           \/ \E pair \in Pairs : PublishBegin(w, pair)
           \/ Continue(w)
<1>1. ASSUME NEW v \in Workers, v # w, NEW c, Set(v, c)
      PROVE  calls'[w] = calls[w]
  BY <1>1, OneCall
<1>2. ASSUME NEW v \in Workers, v # w, Continue(v)
      PROVE  calls'[w] = calls[w]
  <2>1. \E c : Set(v, c)
    BY <1>2 DEF Continue, ReadTarget, ListBaseline, ListTarget, LatestVersion,
       CreateSnapshot, SubmitForReview, SupersedePublished, Publish, Goto, Return
  <2>2. QED
    BY <1>1, <1>2, <2>1
<1>3. ASSUME NEW v \in Workers, v # w, NEW pair \in Pairs, PublishBegin(v, pair)
      PROVE  calls'[w] = calls[w]
  BY <1>1, <1>3 DEF PublishBegin
<1>4. ASSUME NEW v \in Workers, Fail(v)
      PROVE  calls'[w] = calls[w] \/ calls'[w] = Idle
  BY <1>1, <1>4, OneCall DEF Fail, Return
<1>5. CASE RunChange
  BY <1>5 DEF RunChange, CreateWellRun, SetWellRunMeta, ReplaceSegments
<1>6. CASE Crash
  BY <1>6 DEF Crash
<1>7. CASE UNCHANGED vars
  BY <1>7 DEF vars
<1>8. QED
  BY <1>2, <1>3, <1>4, <1>5, <1>6, <1>7 DEF Next, Step, Fault

\* The well of a registered run never changes.
LEMMA WellsKept ==
    ASSUME Inv, [Next]_vars, NEW r \in Runs, Registered(r)
    PROVE  run'[r].well = run[r].well
<1>1. run \in [Runs -> Run]
  BY DEF Inv, Typed
<1>2. ASSUME NEW q \in Runs, NEW well \in Wells, NEW units \in Units,
             CreateWellRun(q, well, units)
      PROVE  run'[r].well = run[r].well
  <2>1. q # r
    BY <1>2 DEF CreateWellRun
  <2>2. QED
    BY <1>1, <1>2, <2>1 DEF CreateWellRun
<1>3. ASSUME NEW q \in Runs, NEW disturbance \in BOOLEAN, SetWellRunMeta(q, disturbance)
      PROVE  run'[r].well = run[r].well
  BY <1>1, <1>3 DEF SetWellRunMeta, Run
<1>4. ASSUME NEW q \in Runs, NEW tops \in Tops, ReplaceSegments(q, tops)
      PROVE  run'[r].well = run[r].well
  BY <1>1, <1>4 DEF ReplaceSegments, Run
<1>5. QED
  BY <1>2, <1>3, <1>4 DEF Next, Step, Fault, RunChange, PublishBegin, Continue,
     ReadTarget, ListBaseline, ListTarget, LatestVersion, CreateSnapshot,
     SubmitForReview, SupersedePublished, Publish, Fail, Crash, vars

\* The row t comes from the row s.
Continues(s, t) ==
    /\ t.id = s.id /\ t.well = s.well
    /\ t.baseline = s.baseline /\ t.target = s.target /\ t.detail = s.detail

\* The row t is what its row was, unless a publication has just published it.
Source(t) ==
    \E s \in snapshots :
        /\ Continues(s, t)
        /\ \/ t = s
           \/ t.state # "published"
           \/ \E w \in Workers : Publish(w) /\ calls[w].id = t.id

LEMMA RowSource ==
    ASSUME Inv, [Next]_vars, NEW t \in snapshots'
    PROVE  t.state = "draft" \/ Source(t)
<1>1. ASSUME NEW s \in snapshots, NEW st
      PROVE  LET u == [s EXCEPT !.state = st]
             IN  Continues(s, u) /\ u.state = st /\ Continues(s, s)
  BY DEF Inv, Typed, ShapedRows, Continues
<1>2. ASSUME NEW id, NEW st, snapshots' = UpdateSnapshotState(id, st)
      PROVE  \E s \in snapshots :
                 \/ t = s
                 \/ Continues(s, t) /\ t.state = st /\ t.id = id
  <2>1. PICK s \in snapshots : t = IF s.id = id THEN [s EXCEPT !.state = st] ELSE s
    BY <1>2 DEF UpdateSnapshotState
  <2>2. CASE s.id = id
    BY <1>1, <2>1, <2>2 DEF Continues
  <2>3. QED
    BY <2>1, <2>2
<1>3. CASE UNCHANGED snapshots
  BY <1>1, <1>3 DEF Source
<1>4. ASSUME NEW w \in Workers, CreateSnapshot(w)
      PROVE  t.state = "draft" \/ Source(t)
  <2>1. t = Draft(calls[w]) \/ t \in snapshots
    BY <1>4 DEF CreateSnapshot
  <2>2. Draft(calls[w]).state = "draft"
    BY DEF Draft
  <2>3. QED
    BY <1>1, <2>1, <2>2 DEF Source
<1>5. ASSUME NEW w \in Workers, SubmitForReview(w)
      PROVE  Source(t)
  BY <1>1, <1>2, <1>5 DEF SubmitForReview, Source
<1>6. ASSUME NEW w \in Workers, SupersedePublished(w)
      PROVE  Source(t)
  <2>1. PICK s \in snapshots : t = s \/ t = [s EXCEPT !.state = "superseded"]
    BY <1>6 DEF SupersedePublished, SupersedeOthers
  <2>2. Continues(s, t) /\ (t = s \/ t.state # "published")
    BY <1>1, <2>1
  <2>3. QED
    BY <2>2 DEF Source
<1>7. ASSUME NEW w \in Workers, Publish(w)
      PROVE  Source(t)
  BY <1>1, <1>2, <1>7 DEF Publish, Source
<1>8. UNCHANGED snapshots \/ \E w \in Workers :
         CreateSnapshot(w) \/ SubmitForReview(w) \/ SupersedePublished(w) \/ Publish(w)
  BY DEF Next, Step, Fault, RunChange, CreateWellRun, SetWellRunMeta, ReplaceSegments,
     PublishBegin, Continue, ReadTarget, ListBaseline, ListTarget, LatestVersion,
     Fail, Crash, vars
<1>9. QED
  BY <1>3, <1>4, <1>5, <1>6, <1>7, <1>8

\* The snapshot of a call is the one it had, or a new one.
LEMMA HoldingSource ==
    ASSUME Inv, [Next]_vars, NEW w \in Workers, calls'[w].pc \in Holding
    PROVE  \/ calls[w].pc \in Holding /\ calls'[w].id = calls[w].id
           \/ \A s \in snapshots : s.id # calls'[w].id
<1> DEFINE c == calls[w]
<1>1. ASSUME NEW d, Set(w, d)
      PROVE  d.pc \in Holding
  BY <1>1, OneCall
<1>2. ~Return(w)
  BY <1>1 DEF Return, Idle, Holding
<1>3. CASE \E pair \in Pairs : PublishBegin(w, pair)
  BY <1>1, <1>3 DEF PublishBegin, Holding
<1>4. CASE Continue(w)
  <2>1. ShapedCall(c)
    BY <1>4, CallInFlight DEF Continue, ReadTarget, ListBaseline, ListTarget,
       LatestVersion, CreateSnapshot, SubmitForReview, SupersedePublished, Publish, Labels
  <2>2. ASSUME NEW pc
        PROVE  LET d == [c EXCEPT !.pc = pc]
               IN  d.pc = pc /\ d.id = c.id
    BY <2>1 DEF ShapedCall
  <2>3. ~ReadTarget(w)
    <3> DEFINE d == [c EXCEPT !.pc = "list_b", !.disturbed = @ \/ run[c.target].disturbance]
    <3>1. d.pc \notin Holding
      BY <2>1 DEF ShapedCall, Holding
    <3>2. ReadTarget(w) => Return(w) \/ Set(w, d)
      BY DEF ReadTarget
    <3> HIDE DEF d
    <3>3. QED
      BY <1>1, <1>2, <3>1, <3>2
  <2>4. ~ListBaseline(w)
    <3> DEFINE d == [c EXCEPT !.pc = "list_t", !.tops = run[c.baseline].tops]
    <3>1. d.pc \notin Holding
      BY <2>1 DEF ShapedCall, Holding
    <3>2. ListBaseline(w) => Set(w, d)
      BY DEF ListBaseline
    <3> HIDE DEF d
    <3>3. QED
      BY <1>1, <3>1, <3>2
  <2>5. ~ListTarget(w)
    <3> DEFINE moves == Compare(c.tops, run[c.target].tops)
               d == [c EXCEPT !.pc = "latest", !.detail = moves]
    <3>1. d.pc \notin Holding
      BY <2>1 DEF ShapedCall, Holding
    <3>2. ListTarget(w) => Return(w) \/ Set(w, d)
      BY DEF ListTarget
    <3> HIDE DEF d, moves
    <3>3. QED
      BY <1>1, <1>2, <3>1, <3>2
  <2>6. ~LatestVersion(w)
    <3>1. LatestVersion(w) => \E v : Set(w, [c EXCEPT !.pc = "create", !.version = v])
      BY DEF LatestVersion
    <3>2. ASSUME NEW v
          PROVE  [c EXCEPT !.pc = "create", !.version = v].pc \notin Holding
      BY <2>1 DEF ShapedCall, Holding
    <3>3. QED
      BY <1>1, <3>1, <3>2
  <2>7. CASE CreateSnapshot(w)
    <3> DEFINE d == Draft(c)
               e == [c EXCEPT !.pc = "review", !.id = d.id]
    <3>1. Set(w, e) /\ d.id = Cardinality(snapshots) + 1
      BY <1>2, <2>7 DEF CreateSnapshot, Draft
    <3>2. e.id = d.id
      BY <2>1 DEF ShapedCall
    <3> HIDE DEF d, e
    <3>3. PICK n \in Nat : {s.id : s \in snapshots} = 1..n
      BY DEF Inv, Numbered
    <3>4. calls'[w].id = n + 1
      BY <3>1, <3>2, <3>3, CountRows, OneCall DEF Inv
    <3>5. \A s \in snapshots : s.id \in 1..n
      BY <3>3
    <3>6. n + 1 \notin 1..n
      OBVIOUS
    <3>7. QED
      BY <3>4, <3>5, <3>6
  <2>8. CASE SubmitForReview(w) \/ SupersedePublished(w)
    <3>1. c.pc \in Holding /\ \E pc : Goto(w, pc)
      BY <1>2, <2>8 DEF SubmitForReview, SupersedePublished, Holding
    <3>2. PICK pc : Set(w, [c EXCEPT !.pc = pc])
      BY <3>1 DEF Goto
    <3>3. calls'[w] = [c EXCEPT !.pc = pc]
      BY <3>2, OneCall
    <3>4. QED
      BY <2>2, <3>1, <3>3
  <2>9. QED
    BY <1>2, <1>4, <2>3, <2>4, <2>5, <2>6, <2>7, <2>8 DEF Continue, Publish
<1>5. CASE calls'[w] = Idle
  BY <1>5 DEF Idle, Holding
<1>6. QED
  BY <1>3, <1>4, <1>5, OwnOrOther

-----------------------------------------------------------------------------
(* The invariant *)

Ids(S) == {s.id : s \in S}

\* As long as a flag has been up, the call that has read it knows of it.
KnowsFlags(c, fl, runs) ==
    /\ \A r \in fl : runs[r].disturbance
    /\ c.pc = "get_t" => c.disturbed \/ c.baseline \notin fl
    /\ c.pc # "get_t" => c.disturbed \/ (c.baseline \notin fl /\ c.target \notin fl)
    /\ c.pc \in {"supersede", "publish"} => ~c.disturbed

\* Of segments that have stayed, the call has read what is there.
IsCurrent(c, se, runs) ==
    /\ c.pc = "list_t" => (c.baseline \in se => c.tops = runs[c.baseline].tops)
    /\ c.pc \in {"latest", "create"} \cup Holding =>
          (c.baseline \in se /\ c.target \in se =>
              c.detail = Compare(runs[c.baseline].tops, runs[c.target].tops))

\* The call's snapshot is of its runs, and says what the call found.
Owns(c, S) ==
    c.pc \in Holding =>
        \E s \in S : /\ s.id = c.id /\ s.baseline = c.baseline
                     /\ s.target = c.target /\ s.detail = c.detail

\* Between the two last statements of a call nothing earlier is published.
Cleared(c, ea, well, S) ==
    c.pc = "publish" =>
        \A s \in S : s.well = well /\ s.id \in ea => s.state # "published"

Watched(w) ==
    calls[w] # Idle =>
        /\ KnowsFlags(calls[w], flagged[w], run)
        /\ IsCurrent(calls[w], settled[w], run)
        /\ Owns(calls[w], snapshots)
        /\ earlier[w] \subseteq Ids(snapshots)
        /\ Cleared(calls[w], earlier[w], WellOf(calls[w]), snapshots)

\* No snapshot of a call under way is an earlier one.
NotEarlier ==
    \A v, w \in Workers :
        calls[w] # Idle /\ calls[v].pc \in Holding => calls[v].id \notin earlier[w]

TimelineInv == Inv /\ (\A w \in Workers : Watched(w)) /\ NotEarlier

LEMMA InitTimeline == TimelineInit => TimelineInv
BY InitInv DEF TimelineInit, TimelineInv, Init, Watched, NotEarlier

LEMMA WatchFacts ==
    ASSUME Watch, NEW w \in Workers, calls'[w] # Idle
    PROVE  /\ \A r \in flagged'[w] : r \in Runs /\ run'[r].disturbance
           /\ \A r \in settled'[w] : r \in Runs /\ run'[r].tops = run[r].tops
           /\ calls[w] # Idle => /\ flagged'[w] \subseteq flagged[w]
                                 /\ settled'[w] \subseteq settled[w]
                                 /\ earlier'[w] = earlier[w]
           /\ calls[w] = Idle =>
                earlier'[w] = Ids(snapshots) \ {calls[v].id : v \in InFlight}
BY DEF Watch, FlaggedSince, SettledSince, EarlierThan, InFlight, Ids

LEMMA IdsKept ==
    ASSUME Inv, [Next]_vars
    PROVE  Ids(snapshots) \subseteq Ids(snapshots')
<1>1. ASSUME NEW s \in snapshots
      PROVE  s.id \in Ids(snapshots')
  <2>1. PICK t \in snapshots' : t = [s EXCEPT !.state = t.state]
    BY RowsKept
  <2>2. t.id = s.id
    BY <2>1 DEF Inv, Typed, ShapedRows
  <2>3. QED
    BY <2>2 DEF Ids
<1>2. QED
  BY <1>1 DEF Ids

LEMMA OwnsKept ==
    ASSUME Inv, [Next]_vars, NEW c, Owns(c, snapshots)
    PROVE  Owns(c, snapshots')
<1> SUFFICES ASSUME c.pc \in Holding
             PROVE  \E t \in snapshots' : /\ t.id = c.id /\ t.baseline = c.baseline
                                          /\ t.target = c.target /\ t.detail = c.detail
  BY DEF Owns
<1>1. PICK s \in snapshots : /\ s.id = c.id /\ s.baseline = c.baseline
                             /\ s.target = c.target /\ s.detail = c.detail
  BY DEF Owns
<1>2. PICK t \in snapshots' : t = [s EXCEPT !.state = t.state]
  BY RowsKept
<1>3. Continues(s, t)
  BY <1>2 DEF Inv, Typed, ShapedRows, Continues
<1>4. QED
  BY <1>1, <1>3 DEF Continues

\* Nothing earlier gets published by the calls under way.
LEMMA ClearedKept ==
    ASSUME TimelineInv, [Next]_vars, NEW w \in Workers, calls[w] # Idle, NEW c, NEW well,
           Cleared(c, earlier[w], well, snapshots)
    PROVE  Cleared(c, earlier[w], well, snapshots')
<1> SUFFICES ASSUME c.pc = "publish", NEW t \in snapshots', t.well = well,
                    t.id \in earlier[w], t.state = "published"
             PROVE  FALSE
  BY DEF Cleared
<1>1. Source(t)
  BY RowSource DEF TimelineInv
<1>2. PICK s \in snapshots :
         /\ Continues(s, t)
         /\ t = s \/ \E v \in Workers : Publish(v) /\ calls[v].id = t.id
  BY <1>1 DEF Source
<1>3. t # s
  BY DEF Cleared
<1>4. PICK v \in Workers : Publish(v) /\ calls[v].id = t.id
  BY <1>2, <1>3
<1>5. calls[v].pc \in Holding
  BY <1>4 DEF Publish, Holding
<1>6. QED
  BY <1>4, <1>5 DEF TimelineInv, NotEarlier

\* A call that takes no step itself.
LEMMA OtherWatched ==
    ASSUME TimelineInv, [Next]_vars, Watch, NEW w \in Workers,
           calls[w] # Idle, calls'[w] = calls[w]
    PROVE  Watched(w)'
<1> DEFINE c == calls[w]
<1>1. Watched(w) /\ Inv /\ ShapedCall(c) /\ Registered(c.baseline)
  BY DEF TimelineInv, Inv, Typed, Begun
<1>2. /\ \A r \in flagged'[w] : r \in Runs /\ run'[r].disturbance
      /\ \A r \in settled'[w] : r \in Runs /\ run'[r].tops = run[r].tops
      /\ flagged'[w] \subseteq flagged[w]
      /\ settled'[w] \subseteq settled[w]
      /\ earlier'[w] = earlier[w]
  BY WatchFacts
<1>3. KnowsFlags(c, flagged'[w], run')
  BY <1>1, <1>2 DEF Watched, KnowsFlags
<1>4. IsCurrent(c, settled'[w], run')
  BY <1>1, <1>2 DEF Watched, IsCurrent
<1>5. Owns(c, snapshots')
  BY <1>1, OwnsKept DEF Watched
<1>6. earlier'[w] \subseteq Ids(snapshots')
  BY <1>1, <1>2, IdsKept DEF Watched
<1>7. WellOf(c)' = WellOf(c)
  BY <1>1, WellsKept DEF ShapedCall, WellOf
<1>8. Cleared(c, earlier[w], WellOf(c), snapshots')
  BY <1>1, ClearedKept DEF Watched
<1>9. QED
  BY <1>2, <1>3, <1>4, <1>5, <1>6, <1>7, <1>8 DEF Watched

\* A call with its next statement, and what it finds.
LEMMA OwnWatched ==
    ASSUME TimelineInv, [Next]_vars, Watch, UNCHANGED run, NEW w \in Workers,
           calls[w] # Idle, NEW d, Set(w, d),
           d.baseline = calls[w].baseline,
           KnowsFlags(calls[w], flagged[w], run) => KnowsFlags(d, flagged[w], run),
           IsCurrent(calls[w], settled[w], run) => IsCurrent(d, settled[w], run),
           Owns(d, snapshots'),
           Cleared(d, earlier[w], WellOf(d), snapshots')
    PROVE  Watched(w)'
<1>1. Watched(w) /\ Inv /\ calls'[w] = d
  BY OneCall DEF TimelineInv
<1>2. CASE d = Idle
  BY <1>1, <1>2 DEF Watched
<1>3. CASE d # Idle
  <2>1. /\ \A r \in flagged'[w] : r \in Runs /\ run'[r].disturbance
        /\ \A r \in settled'[w] : r \in Runs /\ run'[r].tops = run[r].tops
        /\ flagged'[w] \subseteq flagged[w]
        /\ settled'[w] \subseteq settled[w]
        /\ earlier'[w] = earlier[w]
    BY <1>1, <1>3, WatchFacts
  <2>2. KnowsFlags(d, flagged'[w], run')
    BY <1>1, <2>1 DEF Watched, KnowsFlags
  <2>3. IsCurrent(d, settled'[w], run')
    BY <1>1, <2>1 DEF Watched, IsCurrent
  <2>4. earlier'[w] \subseteq Ids(snapshots')
    BY <1>1, <2>1, IdsKept DEF Watched
  <2>5. WellOf(d)' = WellOf(d)
    BY DEF WellOf
  <2>6. QED
    BY <1>1, <2>1, <2>2, <2>3, <2>4, <2>5 DEF Watched
<1>4. QED
  BY <1>2, <1>3

LEMMA BeginWatched ==
    ASSUME TimelineInv, [Next]_vars, Watch, NEW w \in Workers, NEW pair \in Pairs,
           PublishBegin(w, pair)
    PROVE  Watched(w)'
<1> DEFINE flag == run[pair[1]].disturbance
           c == [pc |-> "get_t", baseline |-> pair[1], target |-> pair[2],
                 disturbed |-> flag, tops |-> <<>>,
                 detail |-> <<>>, version |-> 0, id |-> 0]
<1>1. Set(w, c) /\ UNCHANGED <<run, snapshots>> /\ calls[w] = Idle
  BY DEF PublishBegin
<1>2. c.pc = "get_t" /\ c.baseline = pair[1] /\ c.disturbed = flag
  OBVIOUS
<1> HIDE DEF c
<1>3. Inv /\ calls'[w] = c
  BY <1>1, OneCall DEF TimelineInv
<1>4. c # Idle
  BY <1>2 DEF Idle
<1>5. /\ \A r \in flagged'[w] : r \in Runs /\ run'[r].disturbance
      /\ earlier'[w] \subseteq Ids(snapshots)
  BY <1>1, <1>3, <1>4, WatchFacts
<1>6. c.baseline \in flagged'[w] => c.disturbed
  BY <1>1, <1>2, <1>5
<1>7. KnowsFlags(c, flagged'[w], run')
  BY <1>2, <1>5, <1>6 DEF KnowsFlags
<1>8. IsCurrent(c, settled'[w], run') /\ Owns(c, snapshots')
  BY <1>2 DEF IsCurrent, Owns, Holding
<1>9. \A well : Cleared(c, earlier'[w], well, snapshots')
  BY <1>2 DEF Cleared
<1>10. QED
  BY <1>1, <1>3, <1>5, <1>7, <1>8, <1>9 DEF Watched

\* A call that reads on.
LEMMA ReadingWatched ==
    ASSUME TimelineInv, [Next]_vars, Watch, NEW w \in Workers, ~Return(w),
           ReadTarget(w) \/ ListBaseline(w) \/ ListTarget(w) \/ LatestVersion(w)
    PROVE  Watched(w)'
<1> DEFINE c == calls[w]
<1>1. ShapedCall(c) /\ c # Idle /\ Inv /\ UNCHANGED run
  BY CallInFlight DEF TimelineInv, ReadTarget, ListBaseline, ListTarget, LatestVersion,
     Labels, Idle
<1>2. ASSUME NEW d, Set(w, d), d.pc \in {"list_b", "list_t", "latest", "create"},
             d.baseline = c.baseline,
             KnowsFlags(c, flagged[w], run) => KnowsFlags(d, flagged[w], run),
             IsCurrent(c, settled[w], run) => IsCurrent(d, settled[w], run)
      PROVE  Watched(w)'
  <2>1. Owns(d, snapshots') /\ Cleared(d, earlier[w], WellOf(d), snapshots')
    BY <1>2 DEF Owns, Cleared, Holding
  <2>2. QED
    BY <1>1, <1>2, <2>1, OwnWatched
<1>3. CASE ReadTarget(w)
  <2> DEFINE flag == c.disturbed \/ run[c.target].disturbance
             d == [c EXCEPT !.pc = "list_b", !.disturbed = flag]
  <2>1. /\ d.pc = "list_b" /\ d.baseline = c.baseline /\ d.target = c.target
        /\ d.disturbed = flag /\ c.pc = "get_t"
    BY <1>1, <1>3 DEF ShapedCall, ReadTarget
  <2>2. Set(w, d)
    BY <1>3 DEF ReadTarget
  <2>3. d.disturbed = (c.disturbed \/ run[c.target].disturbance)
    BY <2>1
  <2> HIDE DEF d, flag
  <2>4. ASSUME KnowsFlags(c, flagged[w], run)
        PROVE  KnowsFlags(d, flagged[w], run)
    BY <2>1, <2>3, <2>4, Zenon DEF KnowsFlags
  <2>5. IsCurrent(d, settled[w], run)
    BY <2>1 DEF IsCurrent, Holding
  <2>6. QED
    BY <1>2, <2>1, <2>2, <2>4, <2>5
<1>4. CASE ListBaseline(w)
  <2> DEFINE tops == run[c.baseline].tops
             d == [c EXCEPT !.pc = "list_t", !.tops = tops]
  <2>1. /\ d.pc = "list_t" /\ d.baseline = c.baseline /\ d.target = c.target
        /\ d.disturbed = c.disturbed /\ d.tops = tops /\ c.pc = "list_b"
    BY <1>1, <1>4 DEF ShapedCall, ListBaseline
  <2>2. Set(w, d)
    BY <1>4 DEF ListBaseline
  <2> HIDE DEF d
  <2>3. KnowsFlags(c, flagged[w], run) => KnowsFlags(d, flagged[w], run)
    BY <2>1 DEF KnowsFlags
  <2>4. IsCurrent(d, settled[w], run)
    BY <2>1 DEF IsCurrent, Holding
  <2>5. QED
    BY <1>2, <2>1, <2>2, <2>3, <2>4
<1>5. CASE ListTarget(w)
  <2> DEFINE moves == Compare(c.tops, run[c.target].tops)
             d == [c EXCEPT !.pc = "latest", !.detail = moves]
  <2>1. /\ d.pc = "latest" /\ d.baseline = c.baseline /\ d.target = c.target
        /\ d.disturbed = c.disturbed /\ d.detail = moves /\ c.pc = "list_t"
    BY <1>1, <1>5 DEF ShapedCall, ListTarget
  <2>2. Set(w, d)
    BY <1>5 DEF ListTarget
  <2>3. c.tops = run[c.baseline].tops =>
           d.detail = Compare(run[d.baseline].tops, run[d.target].tops)
    BY <2>1
  <2> HIDE DEF d, moves
  <2>4. KnowsFlags(c, flagged[w], run) => KnowsFlags(d, flagged[w], run)
    BY <2>1 DEF KnowsFlags
  <2>5. IsCurrent(c, settled[w], run) => IsCurrent(d, settled[w], run)
    BY <2>1, <2>3 DEF IsCurrent, Holding
  <2>6. QED
    BY <1>2, <2>1, <2>2, <2>4, <2>5
<1>6. CASE LatestVersion(w)
  <2>1. PICK version : Set(w, [c EXCEPT !.pc = "create", !.version = version])
    BY <1>6 DEF LatestVersion
  <2> DEFINE d == [c EXCEPT !.pc = "create", !.version = version]
  <2>2. /\ d.pc = "create" /\ d.baseline = c.baseline /\ d.target = c.target
        /\ d.disturbed = c.disturbed /\ d.detail = c.detail /\ c.pc = "latest"
    BY <1>1, <1>6 DEF ShapedCall, LatestVersion
  <2>3. Set(w, d)
    BY <2>1
  <2> HIDE DEF d
  <2>4. KnowsFlags(c, flagged[w], run) => KnowsFlags(d, flagged[w], run)
    BY <2>2 DEF KnowsFlags
  <2>5. IsCurrent(c, settled[w], run) => IsCurrent(d, settled[w], run)
    BY <2>2 DEF IsCurrent, Holding
  <2>6. QED
    BY <1>2, <2>2, <2>3, <2>4, <2>5
<1>7. QED
  BY <1>3, <1>4, <1>5, <1>6

\* A call that stores its snapshot, submits it or supersedes the others.
LEMMA StoringWatched ==
    ASSUME TimelineInv, [Next]_vars, Watch, NEW w \in Workers, ~Return(w),
           CreateSnapshot(w) \/ SubmitForReview(w) \/ SupersedePublished(w)
    PROVE  Watched(w)'
<1> DEFINE c == calls[w]
<1>1. ShapedCall(c) /\ c # Idle /\ Inv /\ UNCHANGED run
  BY CallInFlight DEF TimelineInv, CreateSnapshot, SubmitForReview, SupersedePublished,
     Labels, Idle
<1>2. CASE CreateSnapshot(w)
  <2> DEFINE d == Draft(c)
             e == [c EXCEPT !.pc = "review", !.id = d.id]
  <2>1. /\ d.baseline = c.baseline /\ d.target = c.target /\ d.detail = c.detail
    BY DEF Draft
  <2>2. /\ e.pc = "review" /\ e.baseline = c.baseline /\ e.target = c.target
        /\ e.disturbed = c.disturbed /\ e.detail = c.detail /\ e.id = d.id
        /\ c.pc = "create"
    BY <1>1, <1>2 DEF ShapedCall, CreateSnapshot
  <2>3. d \in snapshots' /\ Set(w, e)
    BY <1>2 DEF CreateSnapshot
  <2> HIDE DEF d, e
  <2>4. KnowsFlags(c, flagged[w], run) => KnowsFlags(e, flagged[w], run)
    BY <2>2 DEF KnowsFlags
  <2>5. IsCurrent(c, settled[w], run) => IsCurrent(e, settled[w], run)
    BY <2>2 DEF IsCurrent, Holding
  <2>6. Owns(e, snapshots') /\ Cleared(e, earlier[w], WellOf(e), snapshots')
    BY <2>1, <2>2, <2>3 DEF Owns, Cleared
  <2>7. QED
    BY <1>1, <2>2, <2>3, <2>4, <2>5, <2>6, OwnWatched
<1>3. ASSUME c.pc \in Holding, NEW pc \in Holding, Goto(w, pc),
             pc \in {"supersede", "publish"} /\ KnowsFlags(c, flagged[w], run)
                => ~c.disturbed,
             pc = "publish" => \A s \in snapshots' :
                 s.well = WellOf(c) /\ s.id \in earlier[w] => s.state # "published"
      PROVE  Watched(w)'
  <2> DEFINE d == [c EXCEPT !.pc = pc]
  <2>1. /\ d.pc = pc /\ d.baseline = c.baseline /\ d.target = c.target
        /\ d.disturbed = c.disturbed /\ d.detail = c.detail /\ d.id = c.id
    BY <1>1 DEF ShapedCall
  <2>2. Set(w, d)
    BY <1>3 DEF Goto
  <2> HIDE DEF d
  <2>3. c.pc # "get_t" /\ d.pc # "get_t" /\ d.pc # "list_t"
    BY <1>3, <2>1 DEF Holding
  <2>4. KnowsFlags(c, flagged[w], run) => KnowsFlags(d, flagged[w], run)
    BY <1>3, <2>1, <2>3 DEF KnowsFlags
  <2>5. IsCurrent(c, settled[w], run) => IsCurrent(d, settled[w], run)
    BY <1>3, <2>1, <2>3 DEF IsCurrent
  <2>6. Owns(c, snapshots')
    BY <1>1, OwnsKept DEF TimelineInv, Watched
  <2>7. Owns(d, snapshots')
    BY <1>3, <2>1, <2>6 DEF Owns
  <2>8. Cleared(d, earlier[w], WellOf(d), snapshots')
    BY <1>3, <2>1 DEF Cleared, WellOf
  <2>9. QED
    BY <1>1, <2>1, <2>2, <2>4, <2>5, <2>7, <2>8, OwnWatched
<1>4. CASE SubmitForReview(w)
  <2>1. c.pc \in Holding /\ ~c.disturbed /\ Goto(w, "supersede")
    BY <1>4 DEF SubmitForReview, Holding
  <2>2. QED
    BY <1>3, <2>1 DEF Holding
<1>5. CASE SupersedePublished(w)
  <2>1. c.pc = "supersede" /\ c.pc \in Holding /\ Goto(w, "publish")
    BY <1>5 DEF SupersedePublished, Holding
  <2>2. KnowsFlags(c, flagged[w], run) => ~c.disturbed
    BY <2>1 DEF KnowsFlags
  <2>3. ASSUME NEW t \in snapshots', t.well = WellOf(c), t.id \in earlier[w],
               t.state = "published"
        PROVE  FALSE
    <3>1. PICK s \in snapshots :
             t = IF s.well = WellOf(c) /\ s.state = "published" /\ s.id # c.id
                 THEN [s EXCEPT !.state = "superseded"] ELSE s
      BY <1>5 DEF SupersedePublished, SupersedeOthers, WellOf
    <3>2. [s EXCEPT !.state = "superseded"].state = "superseded"
      BY <1>1 DEF Inv, Typed, ShapedRows
    <3>3. t.id = c.id
      BY <2>3, <3>1, <3>2
    <3>4. QED
      BY <1>1, <2>1, <2>3, <3>3 DEF TimelineInv, NotEarlier
  <2>4. QED
    BY <1>3, <2>1, <2>2, <2>3 DEF Holding
<1>6. QED
  BY <1>2, <1>4, <1>5

LEMMA TimelineSteps ==
    ASSUME TimelineInv, [Next]_vars, Watch
    PROVE  TimelineInv'
<1>1. Inv /\ Inv'
  BY Steps DEF TimelineInv
<1>2. ASSUME NEW w \in Workers
      PROVE  Watched(w)'
  <2>1. CASE calls'[w] = Idle
    BY <2>1 DEF Watched
  <2>2. CASE calls'[w] = calls[w] /\ calls[w] # Idle
    BY <2>2, OtherWatched
  <2>3. ASSUME Return(w)
        PROVE  calls'[w] = Idle
    BY <1>1, <2>3, OneCall DEF Return
  <2>4. CASE Continue(w) /\ calls'[w] # Idle
    BY <2>3, <2>4, ReadingWatched, StoringWatched DEF Continue, Publish
  <2>5. QED
    BY <1>1, <2>1, <2>2, <2>4, OwnOrOther, BeginWatched
<1>3. ASSUME NEW v \in Workers, NEW w \in Workers, calls'[w] # Idle,
             calls'[v].pc \in Holding
      PROVE  calls'[v].id \notin earlier'[w]
  <2>1. \/ calls[v].pc \in Holding /\ calls'[v].id = calls[v].id
        \/ calls'[v].id \notin Ids(snapshots)
    BY <1>1, <1>3, HoldingSource DEF Ids
  <2>2. earlier'[w] \subseteq Ids(snapshots)
    BY <1>3, WatchFacts DEF TimelineInv, Watched
  <2>3. ASSUME calls[v].pc \in Holding
        PROVE  calls[v].id \notin earlier'[w]
    <3>1. v \in InFlight
      BY <2>3 DEF InFlight, Idle, Holding
    <3>2. QED
      BY <1>3, <2>3, <3>1, WatchFacts DEF TimelineInv, NotEarlier
  <2>4. QED
    BY <2>1, <2>2, <2>3
<1>4. NotEarlier'
  BY <1>3 DEF NotEarlier
<1>5. QED
  BY <1>1, <1>2, <1>4 DEF TimelineInv

LEMMA TimelineInvariant == TimelineSpec => []TimelineInv
<1>1. TimelineInv /\ [TimelineNext]_timelineVars => TimelineInv'
  <2>1. TimelineInv /\ UNCHANGED timelineVars => TimelineInv'
    <3> SUFFICES ASSUME TimelineInv, UNCHANGED timelineVars
                 PROVE  TimelineInv'
      OBVIOUS
    <3>1. /\ run' = run /\ snapshots' = snapshots /\ calls' = calls
          /\ flagged' = flagged /\ settled' = settled /\ earlier' = earlier
      BY DEF timelineVars, vars
    <3>2. Inv'
      BY <3>1, Steps DEF vars, TimelineInv
    <3>3. \A w \in Workers : Watched(w)'
      BY <3>1 DEF TimelineInv, Watched, WellOf
    <3>4. NotEarlier'
      BY <3>1 DEF TimelineInv, NotEarlier
    <3>5. QED
      BY <3>2, <3>3, <3>4 DEF TimelineInv
  <2>2. QED
    BY <2>1, TimelineSteps DEF TimelineNext
<1>2. QED
  BY <1>1, InitTimeline, PTL DEF TimelineSpec

-----------------------------------------------------------------------------
(* What is published *)

\* Whatever a step publishes is the snapshot of a call about to publish it, of
\* its runs and with its detail.
LEMMA WhoPublishes ==
    ASSUME TimelineInv, [Next]_vars, NEW t \in NewlyPublished
    PROVE  \E w \in Workers :
              /\ Publish(w) /\ Publishes(w, t)
              /\ t.well = WellOf(calls[w])
              /\ t.baseline = calls[w].baseline /\ t.target = calls[w].target
              /\ t.detail = calls[w].detail
<1>1. t \in snapshots' /\ t.state = "published" /\ t \notin snapshots
  BY DEF NewlyPublished
<1>2. Source(t)
  BY <1>1, RowSource DEF TimelineInv
<1>3. PICK s \in snapshots :
         Continues(s, t) /\ \E w \in Workers : Publish(w) /\ calls[w].id = t.id
  BY <1>1, <1>2 DEF Source
<1>4. PICK w \in Workers : Publish(w) /\ calls[w].id = t.id
  BY <1>3
<1> DEFINE c == calls[w]
<1>5. c.pc = "publish" /\ c.pc \in Holding /\ c # Idle
  BY <1>4 DEF Publish, Holding, Idle
<1>6. PICK p \in snapshots : p.id = c.id /\ p.well = WellOf(c)
  BY <1>5 DEF TimelineInv, Inv, Holds
<1>7. PICK q \in snapshots : /\ q.id = c.id /\ q.baseline = c.baseline
                             /\ q.target = c.target /\ q.detail = c.detail
  BY <1>5 DEF TimelineInv, Watched, Owns
<1>8. p = s /\ q = s
  BY <1>3, <1>4, <1>6, <1>7 DEF TimelineInv, Inv, Numbered, Continues
<1>9. QED
  BY <1>3, <1>4, <1>5, <1>6, <1>7, <1>8 DEF Continues, Publishes, InFlight

\* "The wellhead disturbance on either run blocks publication": one that has
\* been there since the publication began does, with any number of
\* publications, corrections and layerings under way at the same time.
THEOREM FlagsBlockPublication == TimelineSpec => FlagBlocksPublication
<1>1. ASSUME TimelineInv, [Next]_vars, NEW t \in NewlyPublished
      PROVE  \E w \in Workers :
                Publishes(w, t) /\ {t.baseline, t.target} \cap flagged[w] = {}
  <2>1. PICK w \in Workers : /\ Publish(w) /\ Publishes(w, t)
                             /\ t.baseline = calls[w].baseline
                             /\ t.target = calls[w].target
    BY <1>1, WhoPublishes
  <2>2. calls[w].pc = "publish" /\ calls[w] # Idle
    BY <2>1 DEF Publish, Idle
  <2>3. KnowsFlags(calls[w], flagged[w], run)
    BY <1>1, <2>2 DEF TimelineInv, Watched
  <2>4. calls[w].baseline \notin flagged[w] /\ calls[w].target \notin flagged[w]
    BY <2>2, <2>3 DEF KnowsFlags
  <2>5. QED
    BY <2>1, <2>4
<1>2. TimelineInv /\ [TimelineNext]_timelineVars =>
        [\A t \in NewlyPublished : \E w \in Workers :
            /\ Publishes(w, t)
            /\ {t.baseline, t.target} \cap flagged[w] = {}]_timelineVars
  BY <1>1 DEF TimelineNext
<1>3. QED
  BY <1>2, TimelineInvariant, PTL DEF TimelineSpec, FlagBlocksPublication

\* What is published compares the segments its runs have, unless they were
\* replaced while the publication was under way.
THEOREM SettledRunsAreCurrent == TimelineSpec => SettledIsCurrent
<1>1. ASSUME TimelineInv, [Next]_vars, NEW t \in NewlyPublished
      PROVE  \E w \in Workers :
                /\ Publishes(w, t)
                /\ {t.baseline, t.target} \subseteq settled[w] =>
                      t.detail = Compare(run[t.baseline].tops, run[t.target].tops)
  <2>1. PICK w \in Workers : /\ Publish(w) /\ Publishes(w, t)
                             /\ t.baseline = calls[w].baseline
                             /\ t.target = calls[w].target
                             /\ t.detail = calls[w].detail
    BY <1>1, WhoPublishes
  <2>2. calls[w].pc \in Holding /\ calls[w] # Idle
    BY <2>1 DEF Publish, Holding, Idle
  <2>3. IsCurrent(calls[w], settled[w], run)
    BY <1>1, <2>2 DEF TimelineInv, Watched
  <2>4. QED
    BY <2>1, <2>2, <2>3 DEF IsCurrent
<1>2. TimelineInv /\ [TimelineNext]_timelineVars =>
        [\A t \in NewlyPublished : \E w \in Workers :
            /\ Publishes(w, t)
            /\ {t.baseline, t.target} \subseteq settled[w] =>
                  t.detail = Compare(run[t.baseline].tops, run[t.target].tops)]_timelineVars
  BY <1>1 DEF TimelineNext
<1>3. QED
  BY <1>2, TimelineInvariant, PTL DEF TimelineSpec, SettledIsCurrent

\* "SupersedePublished marks any previously published snapshot for this well
\* as superseded": when a snapshot is published nothing is any more that was
\* stored by a publication over before this one began, however many overlap.
THEOREM EarlierGivesWay == TimelineSpec => EarlierIsSuperseded
<1>1. ASSUME TimelineInv, [Next]_vars, NEW t \in NewlyPublished
      PROVE  \E w \in Workers :
                /\ Publishes(w, t)
                /\ \A s \in snapshots' :
                      s.well = t.well /\ s.id \in earlier[w] => s.state # "published"
  <2>1. PICK w \in Workers : /\ Publish(w) /\ Publishes(w, t)
                             /\ t.well = WellOf(calls[w])
    BY <1>1, WhoPublishes
  <2>2. calls[w].pc = "publish" /\ calls[w] # Idle
    BY <2>1 DEF Publish, Idle
  <2>3. Cleared(calls[w], earlier[w], WellOf(calls[w]), snapshots)
    BY <1>1, <2>2 DEF TimelineInv, Watched
  <2>4. Cleared(calls[w], earlier[w], WellOf(calls[w]), snapshots')
    BY <1>1, <2>2, <2>3, ClearedKept
  <2>5. QED
    BY <2>1, <2>2, <2>4 DEF Cleared
<1>2. TimelineInv /\ [TimelineNext]_timelineVars =>
        [\A t \in NewlyPublished : \E w \in Workers :
            /\ Publishes(w, t)
            /\ \A s \in snapshots' :
                  s.well = t.well /\ s.id \in earlier[w]
                      => s.state # "published"]_timelineVars
  BY <1>1 DEF TimelineNext
<1>3. QED
  BY <1>2, TimelineInvariant, PTL DEF TimelineSpec, EarlierIsSuperseded
=============================================================================
