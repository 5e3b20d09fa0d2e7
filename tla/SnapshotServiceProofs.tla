------------------------ MODULE SnapshotServiceProofs -----------------------
(***************************************************************************)
(* Theorems about SnapshotService, for any runs, wells, workers and        *)
(* boundary lists, whatever Compare makes of them: however publications    *)
(* overlap, fail and are cut off, the snapshots of a well are numbered     *)
(* without holes, keep their content and go through their states in order. *)
(***************************************************************************)
EXTENDS SnapshotService, ComparisonProofs, FiniteSetTheorems

-----------------------------------------------------------------------------
(* Sets of snapshots *)

WellRows(S, well) == {s \in S : s.well = well}

VersionsIn(S, well) == {s.version : s \in WellRows(S, well)}

\* The columns of a snapshot; nothing is said of the detail.
ShapedRows(S) ==
    \A s \in S :
        s \in [id : Nat \ {0}, well : Wells, version : Nat \ {0},
               state : SnapshotStates, baseline : Runs, target : Runs,
               detail : {s.detail}]

\* Ids are unique and run from 1, and so do the versions of each well.
Numbered(S) ==
    /\ \A s, t \in S : s.id = t.id => s = t
    /\ \A s, t \in S : s.well = t.well /\ s.version = t.version => s = t
    /\ \E n \in Nat : {s.id : s \in S} = 1..n
    /\ \A well \in Wells : \E n \in Nat : VersionsIn(S, well) = 1..n

\* The rows of S, each in the state g gives it.
Restated(S, g) == {[s EXCEPT !.state = g[s]] : s \in S}

LEMMA CountByBijection ==
    ASSUME NEW S, NEW n \in Nat, NEW f \in Bijection(S, 1..n)
    PROVE  IsFiniteSet(S) /\ Cardinality(S) = n
<1>1. IsFiniteSet(1..n) /\ Cardinality(1..n) = n
  BY FS_Interval
<1>2. f \in Injection(S, 1..n) /\ f \in Surjection(S, 1..n)
  BY DEF Bijection
<1>3. QED
  BY <1>1, <1>2, FS_Injection

LEMMA CountRows ==
    ASSUME NEW S, Numbered(S), NEW n \in Nat, {s.id : s \in S} = 1..n
    PROVE  Cardinality(S) = n
<1> DEFINE f == [s \in S |-> s.id]
<1>1. f \in Bijection(S, 1..n)
  BY DEF Bijection, Injection, Surjection, IsInjective, Numbered
<1>2. QED
  BY <1>1, CountByBijection

LEMMA CountVersions ==
    ASSUME NEW S, Numbered(S), NEW well \in Wells, NEW n \in Nat,
           VersionsIn(S, well) = 1..n
    PROVE  Cardinality(WellRows(S, well)) = n
<1> DEFINE R == WellRows(S, well)
           f == [s \in R |-> s.version]
<1>1. f \in [R -> 1..n]
  BY DEF VersionsIn
<1>2. \A s, t \in R : f[s] = f[t] => s = t
  BY DEF Numbered, WellRows
<1>3. \A v \in 1..n : \E s \in R : f[s] = v
  BY DEF VersionsIn
<1>4. f \in Bijection(R, 1..n)
  BY <1>1, <1>2, <1>3 DEF Bijection, Injection, Surjection, IsInjective
<1>5. QED
  BY <1>4, CountByBijection

LEMMA RestatedRow ==
    ASSUME NEW S, ShapedRows(S), NEW g \in [S -> SnapshotStates], NEW s \in S
    PROVE  LET t == [s EXCEPT !.state = g[s]]
           IN  /\ t.id = s.id /\ t.well = s.well /\ t.version = s.version
               /\ t.state = g[s]
               /\ t.baseline = s.baseline /\ t.target = s.target /\ t.detail = s.detail
               /\ t \in [id : Nat \ {0}, well : Wells, version : Nat \ {0},
                         state : SnapshotStates, baseline : Runs, target : Runs,
                         detail : {t.detail}]
BY DEF ShapedRows

\* Changing states changes no number.
LEMMA RestatedNumbered ==
    ASSUME NEW S, ShapedRows(S), Numbered(S), NEW g \in [S -> SnapshotStates]
    PROVE  /\ ShapedRows(Restated(S, g))
           /\ Numbered(Restated(S, g))
           /\ {t.id : t \in Restated(S, g)} = {s.id : s \in S}
           /\ \A well : VersionsIn(Restated(S, g), well) = VersionsIn(S, well)
<1> DEFINE T == Restated(S, g)
<1>1. ShapedRows(T)
  BY RestatedRow DEF Restated, ShapedRows
<1>2. \A t \in T : \E s \in S : /\ t = [s EXCEPT !.state = g[s]]
                                /\ t.id = s.id /\ t.well = s.well /\ t.version = s.version
  BY RestatedRow DEF Restated
<1>3. ASSUME NEW s \in S
      PROVE  \E t \in T : t.id = s.id /\ t.well = s.well /\ t.version = s.version
  <2>1. [s EXCEPT !.state = g[s]] \in T
    BY DEF Restated
  <2>2. QED
    BY <2>1, RestatedRow
<1>4. {t.id : t \in T} = {s.id : s \in S}
  BY <1>2, <1>3
<1>5. ASSUME NEW well
      PROVE  VersionsIn(T, well) = VersionsIn(S, well)
  BY <1>2, <1>3 DEF VersionsIn, WellRows
<1>6. \A t, u \in T : t.id = u.id => t = u
  BY <1>2 DEF Numbered
<1>7. \A t, u \in T : t.well = u.well /\ t.version = u.version => t = u
  BY <1>2 DEF Numbered
<1>8. Numbered(T)
  BY <1>4, <1>5, <1>6, <1>7 DEF Numbered
<1>9. QED
  BY <1>1, <1>4, <1>5, <1>8

\* A row whose id is one above the count and whose version, foreseen as one
\* above some version of its well, is not taken.
NextRow(S, d) ==
    /\ ShapedRows({d})
    /\ d.id = Cardinality(S) + 1
    /\ d.version = 1 \/ d.version - 1 \in VersionsIn(S, d.well)
    /\ d.version \notin VersionsIn(S, d.well)

LEMMA AddedVersion ==
    ASSUME NEW S, Numbered(S), NEW d, NextRow(S, d), NEW n \in Nat,
           VersionsIn(S, d.well) = 1..n
    PROVE  d.version = n + 1
<1>1. d.version \in Nat \ {0}
  BY DEF NextRow, ShapedRows
<1>2. d.version \notin 1..n /\ (d.version = 1 \/ d.version - 1 \in 1..n)
  BY DEF NextRow
<1>3. QED
  BY <1>1, <1>2

LEMMA OneMore ==
    ASSUME NEW n \in Nat
    PROVE  1..(n + 1) = (1..n) \cup {n + 1}
OBVIOUS

LEMMA AddedNumbered ==
    ASSUME NEW S, ShapedRows(S), Numbered(S), NEW d, NextRow(S, d)
    PROVE  /\ ShapedRows(S \cup {d})
           /\ Numbered(S \cup {d})
           /\ \A s \in S : s.id # d.id
<1> DEFINE T == S \cup {d}
<1>1. ShapedRows(T)
  BY DEF ShapedRows, NextRow
<1>2. d.well \in Wells
  BY DEF ShapedRows, NextRow
<1>3. PICK n \in Nat : {s.id : s \in S} = 1..n
  BY DEF Numbered
<1>4. d.id = n + 1
  BY <1>3, CountRows DEF NextRow
<1>5. {s.id : s \in T} = 1..(n + 1)
  <2>1. {s.id : s \in T} = {s.id : s \in S} \cup {d.id}
    OBVIOUS
  <2>2. QED
    BY <1>3, <1>4, <2>1
<1>6. \A s \in S : s.id # d.id
  BY <1>3, <1>4
<1>7. \A s, t \in T : s.id = t.id => s = t
  BY <1>6 DEF Numbered
<1>8. \A s \in S : ~(s.well = d.well /\ s.version = d.version)
  BY DEF NextRow, VersionsIn, WellRows
<1>9. \A s, t \in T : s.well = t.well /\ s.version = t.version => s = t
  BY <1>8 DEF Numbered
<1>10. ASSUME NEW well \in Wells
       PROVE  \E m \in Nat : VersionsIn(T, well) = 1..m
  <2>1. PICK m \in Nat : VersionsIn(S, well) = 1..m
    BY DEF Numbered
  <2>2. CASE well = d.well
    <3>1. d.version = m + 1
      BY <2>1, <2>2, AddedVersion
    <3>2. VersionsIn(T, well) = VersionsIn(S, well) \cup {d.version}
      BY <2>2 DEF VersionsIn, WellRows
    <3>3. VersionsIn(T, well) = 1..(m + 1)
      BY <2>1, <3>1, <3>2, OneMore
    <3>4. QED
      BY <3>3
  <2>3. CASE well # d.well
    <3>1. VersionsIn(T, well) = VersionsIn(S, well)
      BY <2>3 DEF VersionsIn, WellRows
    <3>2. QED
      BY <2>1, <3>1
  <2>4. QED
    BY <2>2, <2>3
<1>11. Numbered(T)
  <2>1. n + 1 \in Nat
    OBVIOUS
  <2>2. \E m \in Nat : {s.id : s \in T} = 1..m
    BY <1>5, <2>1
  <2>3. QED
    BY <1>7, <1>9, <1>10, <2>2 DEF Numbered
<1>12. QED
  BY <1>1, <1>6, <1>11
-----------------------------------------------------------------------------
(* The statements as restatements *)

UpdateMap(id, st) == [s \in snapshots |-> IF s.id = id THEN st ELSE s.state]

SupersedeMap(well, id) ==
    [s \in snapshots |->
        IF s.well = well /\ s.state = "published" /\ s.id # id
        THEN "superseded" ELSE s.state]

LEMMA SameState ==
    ASSUME ShapedRows(snapshots), NEW s \in snapshots
    PROVE  [s EXCEPT !.state = s.state] = s
BY DEF ShapedRows

LEMMA UpdateRestates ==
    ASSUME ShapedRows(snapshots), NEW id, NEW st \in SnapshotStates
    PROVE  /\ UpdateMap(id, st) \in [snapshots -> SnapshotStates]
           /\ UpdateSnapshotState(id, st) = Restated(snapshots, UpdateMap(id, st))
<1>1. UpdateMap(id, st) \in [snapshots -> SnapshotStates]
  BY DEF UpdateMap, ShapedRows
<1>2. ASSUME NEW s \in snapshots
      PROVE  [s EXCEPT !.state = UpdateMap(id, st)[s]] =
                (IF s.id = id THEN [s EXCEPT !.state = st] ELSE s)
  BY SameState DEF UpdateMap
<1>3. QED
  BY <1>1, <1>2 DEF UpdateSnapshotState, Restated

LEMMA SupersedeRestates ==
    ASSUME ShapedRows(snapshots), NEW well, NEW id
    PROVE  /\ SupersedeMap(well, id) \in [snapshots -> SnapshotStates]
           /\ SupersedeOthers(well, id) = Restated(snapshots, SupersedeMap(well, id))
<1>1. SupersedeMap(well, id) \in [snapshots -> SnapshotStates]
  BY DEF SupersedeMap, ShapedRows, SnapshotStates
<1>2. ASSUME NEW s \in snapshots
      PROVE  [s EXCEPT !.state = SupersedeMap(well, id)[s]] =
                (IF s.well = well /\ s.state = "published" /\ s.id # id
                 THEN [s EXCEPT !.state = "superseded"] ELSE s)
  BY SameState DEF SupersedeMap
<1>3. QED
  BY <1>1, <1>2 DEF SupersedeOthers, Restated

-----------------------------------------------------------------------------
(* The invariant *)

Labels == {"get_t", "list_b", "list_t", "latest", "create",
           "review", "supersede", "publish"}

\* A publication with one of these labels has stored its snapshot.
Holding == {"review", "supersede", "publish"}

ShapedCall(c) ==
    c \in [pc : Labels, baseline : Runs, target : Runs, disturbed : BOOLEAN,
           tops : Seq(Int), detail : {c.detail}, version : Nat, id : Nat]

WellOf(c) == run[c.baseline].well

Typed ==
    /\ run \in [Runs -> Run]
    /\ ShapedRows(snapshots)
    /\ calls = [w \in Workers |-> calls[w]]
    /\ \A w \in Workers : calls[w] = Idle \/ ShapedCall(calls[w])

\* The runs a call has begun with are registered.
Begun(c) == c = Idle \/ Registered(c.baseline)

\* The version a call is about to store was one above a version of its well
\* when the call read it, and versions are never taken back.
Foresees(c) ==
    c.pc = "create" =>
        /\ c.version \in Nat \ {0}
        /\ c.version = 1 \/ c.version - 1 \in VersionsIn(snapshots, WellOf(c))

\* The snapshot of a call is the one it stored, in the state it put it in.
Holds(c) ==
    c.pc \in Holding =>
        \E s \in snapshots :
            /\ s.id = c.id
            /\ s.well = WellOf(c)
            /\ s.state = (IF c.pc = "review" THEN "draft" ELSE "under_review")

\* No two calls have the same snapshot.
Apart ==
    \A v, w \in Workers :
        calls[v].pc \in Holding /\ calls[w].pc \in Holding /\ calls[v].id = calls[w].id
            => v = w

Inv ==
    /\ Typed
    /\ Numbered(snapshots)
    /\ \A w \in Workers : Begun(calls[w]) /\ Foresees(calls[w]) /\ Holds(calls[w])
    /\ Apart

LEMMA InitInv == Init => Inv
<1> SUFFICES ASSUME Init PROVE Inv
  OBVIOUS
<1>1. run \in [Runs -> Run]
  <2>1. <<>> \in Seq(Int)
    OBVIOUS
  <2>2. Unregistered \in Run
    BY <2>1 DEF Run, Unregistered
  <2>3. QED
    BY <2>2 DEF Init
<1>2. snapshots = {} /\ calls = [w \in Workers |-> Idle]
  BY DEF Init
<1>3. {s.id : s \in snapshots} = 1..0 /\ \A well : VersionsIn(snapshots, well) = 1..0
  BY <1>2 DEF VersionsIn, WellRows
<1>4. Numbered(snapshots)
  BY <1>2, <1>3 DEF Numbered
<1>5. \A w \in Workers : calls[w] = Idle /\ calls[w].pc = "idle"
  BY <1>2 DEF Idle
<1>6. Typed
  BY <1>1, <1>2, <1>5 DEF Typed, ShapedRows
<1>7. QED
  BY <1>4, <1>5, <1>6 DEF Inv, Begun, Foresees, Holds, Holding, Apart

\* A step that changes one call and stores nothing.
LEMMA ReadStep ==
    ASSUME Inv, NEW w \in Workers, NEW c, Set(w, c), UNCHANGED <<run, snapshots>>,
           c = Idle \/ ShapedCall(c), c.pc \notin Holding, Begun(c), Foresees(c)
    PROVE  Inv'
<1>1. calls' = [calls EXCEPT ![w] = c] /\ calls = [v \in Workers |-> calls[v]]
  BY DEF Set, Inv, Typed
<1>2. calls'[w] = c /\ \A v \in Workers \ {w} : calls'[v] = calls[v]
  BY <1>1
<1>3. Typed'
  BY <1>1, <1>2 DEF Inv, Typed, ShapedCall
<1>4. Numbered(snapshots)'
  BY DEF Inv
<1>5. \A v \in Workers : Begun(calls[v])' /\ Foresees(calls[v])' /\ Holds(calls[v])'
  BY <1>2 DEF Inv, Begun, Registered, Foresees, Holds, WellOf
<1>6. Apart'
  BY <1>2 DEF Inv, Apart
<1>7. QED
  BY <1>3, <1>4, <1>5, <1>6 DEF Inv

\* A step that changes runs but not the wells the registered ones are of.
LEMMA RunStep ==
    ASSUME Inv, UNCHANGED <<snapshots, calls>>, run' \in [Runs -> Run],
           \A r \in Runs : Registered(r) => run'[r].well = run[r].well
    PROVE  Inv'
<1>1. Typed'
  BY DEF Inv, Typed, ShapedCall
<1>2. ASSUME NEW w \in Workers
      PROVE  Begun(calls[w])' /\ Foresees(calls[w])' /\ Holds(calls[w])'
  <2>1. CASE calls[w] = Idle
    BY <2>1 DEF Idle, Begun, Foresees, Holds, Holding
  <2>2. CASE ShapedCall(calls[w])
    <3>1. calls[w] # Idle /\ calls[w].baseline \in Runs
      BY <2>2 DEF ShapedCall, Idle, Labels
    <3>2. Registered(calls[w].baseline)
      BY <3>1 DEF Inv, Begun
    <3>3. WellOf(calls[w])' = WellOf(calls[w])
      BY <3>1, <3>2 DEF WellOf
    <3>4. Begun(calls[w])'
      BY <3>2, <3>3 DEF Begun, Registered, WellOf
    <3>5. QED
      BY <3>3, <3>4 DEF Inv, Foresees, Holds
  <2>3. QED
    BY <2>1, <2>2 DEF Inv, Typed
<1>3. QED
  BY <1>1, <1>2 DEF Inv, Apart

\* A step that puts snapshots into other states: that of the call which takes
\* the step, and published ones.
LEMMA StateStep ==
    ASSUME Inv, NEW w \in Workers, NEW c, Set(w, c), UNCHANGED run,
           calls[w].pc \in Holding,
           NEW g \in [snapshots -> SnapshotStates], snapshots' = Restated(snapshots, g),
           \A s \in snapshots :
               s.id # calls[w].id /\ s.state # "published" => g[s] = s.state,
           c = Idle \/ ShapedCall(c), Begun(c), c.pc # "create",
           c.pc \in Holding =>
               /\ c.id = calls[w].id
               /\ c.baseline = calls[w].baseline
               /\ c.pc # "review"
               /\ \A s \in snapshots :
                     s.id = c.id /\ s.state # "published" => g[s] = "under_review"
    PROVE  Inv'
<1>1. calls' = [calls EXCEPT ![w] = c] /\ calls = [v \in Workers |-> calls[v]]
  BY DEF Set, Inv, Typed
<1>2. calls'[w] = c /\ \A v \in Workers \ {w} : calls'[v] = calls[v]
  BY <1>1
<1>3. /\ ShapedRows(snapshots') /\ Numbered(snapshots')
      /\ \A well : VersionsIn(snapshots', well) = VersionsIn(snapshots, well)
  BY RestatedNumbered DEF Inv, Typed
<1>4. Typed'
  BY <1>1, <1>2, <1>3 DEF Inv, Typed, ShapedCall
<1>5. ASSUME NEW s \in snapshots
      PROVE  \E t \in snapshots' : t.id = s.id /\ t.well = s.well /\ t.state = g[s]
  <2>1. [s EXCEPT !.state = g[s]] \in snapshots'
    BY DEF Restated
  <2>2. QED
    BY <2>1, RestatedRow DEF Inv, Typed
<1>6. ASSUME NEW v \in Workers
      PROVE  Begun(calls[v])' /\ Foresees(calls[v])'
  BY <1>2, <1>3 DEF Inv, Begun, Registered, Foresees, WellOf
<1>7. ASSUME NEW v \in Workers, calls'[v].pc \in Holding
      PROVE  Holds(calls[v])'
  <2>1. calls[v].pc \in Holding
    BY <1>2, <1>7
  <2>2. PICK s \in snapshots :
           /\ s.id = calls[v].id
           /\ s.well = WellOf(calls[v])
           /\ s.state = (IF calls[v].pc = "review" THEN "draft" ELSE "under_review")
    BY <2>1 DEF Inv, Holds
  <2>3. PICK t \in snapshots' : t.id = s.id /\ t.well = s.well /\ t.state = g[s]
    BY <1>5
  <2>4. s.state # "published"
    BY <2>2
  <2>5. CASE v = w
    <3>1. g[s] = "under_review" /\ c.pc # "review"
      BY <1>2, <1>7, <2>2, <2>4, <2>5
    <3>2. t.id = c.id /\ t.well = WellOf(c)' /\ t.state = "under_review"
      BY <1>2, <1>7, <2>2, <2>3, <2>5, <3>1 DEF WellOf
    <3>3. QED
      BY <1>2, <2>5, <3>1, <3>2 DEF Holds, WellOf
  <2>6. CASE v # w
    <3>1. s.id # calls[w].id
      BY <2>1, <2>2, <2>6 DEF Inv, Apart
    <3>2. g[s] = s.state
      BY <2>4, <3>1
    <3>3. QED
      BY <1>2, <2>2, <2>3, <2>6, <3>2 DEF Holds, WellOf
  <2>7. QED
    BY <2>5, <2>6
<1>8. \A v \in Workers : Holds(calls[v])'
  BY <1>7 DEF Holds
<1>9. Apart'
  BY <1>2 DEF Inv, Apart
<1>10. QED
  BY <1>3, <1>4, <1>6, <1>8, <1>9 DEF Inv

\* A step that stores the snapshot of a call.
LEMMA StoreStep ==
    ASSUME Inv, NEW w \in Workers, UNCHANGED run, ShapedCall(calls[w]),
           Registered(calls[w].baseline),
           NEW d, NextRow(snapshots, d), snapshots' = snapshots \cup {d},
           d.well = WellOf(calls[w]), d.state = "draft",
           Set(w, [calls[w] EXCEPT !.pc = "review", !.id = d.id])
    PROVE  Inv'
<1> DEFINE c == [calls[w] EXCEPT !.pc = "review", !.id = d.id]
<1>1. calls' = [calls EXCEPT ![w] = c] /\ calls = [v \in Workers |-> calls[v]]
  BY DEF Set, Inv, Typed
<1>2. calls'[w] = c /\ \A v \in Workers \ {w} : calls'[v] = calls[v]
  BY <1>1
<1>3. /\ ShapedRows(snapshots') /\ Numbered(snapshots')
      /\ \A s \in snapshots : s.id # d.id
  BY AddedNumbered DEF Inv, Typed
<1>4. d.id \in Nat
  BY DEF NextRow, ShapedRows
<1>5. ShapedCall(c) /\ c.pc = "review" /\ c.id = d.id /\ c.baseline = calls[w].baseline
  BY <1>4 DEF ShapedCall, Labels
<1>6. Typed'
  <2>1. \A v \in Workers : calls'[v] = Idle \/ ShapedCall(calls'[v])
    BY <1>2, <1>5 DEF Inv, Typed
  <2>2. QED
    BY <1>1, <1>3, <2>1 DEF Inv, Typed, ShapedCall
<1>7. \A well : VersionsIn(snapshots, well) \subseteq VersionsIn(snapshots', well)
  BY DEF VersionsIn, WellRows
<1>8. \A v \in Workers : Begun(calls[v])' /\ Foresees(calls[v])'
  BY <1>2, <1>5, <1>7 DEF Inv, Begun, Registered, Foresees, WellOf
<1>9. ASSUME NEW v \in Workers
      PROVE  Holds(calls[v])'
  <2>1. CASE v = w
    BY <1>2, <1>5, <2>1 DEF Holds, WellOf
  <2>2. CASE v # w
    BY <1>2, <2>2 DEF Inv, Holds, WellOf
  <2>3. QED
    BY <2>1, <2>2
<1>10. \A v \in Workers \ {w} : calls[v].pc \in Holding => calls[v].id # d.id
  BY <1>3 DEF Inv, Holds
<1>11. Apart'
  <2>1. ASSUME NEW u \in Workers, NEW v \in Workers,
               calls'[u].pc \in Holding, calls'[v].pc \in Holding,
               calls'[u].id = calls'[v].id
        PROVE  u = v
    <3>1. CASE u # w /\ v # w
      BY <1>2, <2>1, <3>1 DEF Inv, Apart
    <3>2. calls'[w].id = d.id
      BY <1>2, <1>5
    <3>3. CASE u = w
      BY <1>2, <1>10, <2>1, <3>2, <3>3
    <3>4. CASE v = w
      BY <1>2, <1>10, <2>1, <3>2, <3>4
    <3>5. QED
      BY <3>1, <3>3, <3>4
  <2>2. QED
    BY <2>1 DEF Apart
<1>12. QED
  BY <1>3, <1>6, <1>8, <1>9, <1>11 DEF Inv
-----------------------------------------------------------------------------
(* Steps *)

\* What a step does to the snapshots.
Stores(d) == NextRow(snapshots, d) /\ d.state = "draft" /\ snapshots' = snapshots \cup {d}

Puts(s, from, to) == s.state = from /\ snapshots' = UpdateSnapshotState(s.id, to)

GivesWay(s) == s.state = "under_review" /\ snapshots' = SupersedeOthers(s.well, s.id)

Effect ==
    \/ UNCHANGED snapshots
    \/ \E d : Stores(d)
    \/ \E s \in snapshots :
          \/ Puts(s, "draft", "under_review")
          \/ Puts(s, "under_review", "published")
          \/ GivesWay(s)

LEMMA CallInFlight ==
    ASSUME Inv, NEW w \in Workers, calls[w].pc \in Labels
    PROVE  /\ ShapedCall(calls[w])
           /\ Registered(calls[w].baseline) /\ WellOf(calls[w]) \in Wells
<1>1. calls[w] # Idle
  BY DEF Idle, Labels
<1>2. ShapedCall(calls[w])
  BY <1>1 DEF Inv, Typed
<1>3. run[calls[w].baseline] \in Run
  BY <1>2 DEF Inv, Typed, ShapedCall
<1>4. Registered(calls[w].baseline)
  BY <1>1 DEF Inv, Begun
<1>5. QED
  BY <1>2, <1>3, <1>4 DEF WellOf, Registered, Run

\* Returning, successfully or not, with nothing stored.
LEMMA ReturnStep ==
    ASSUME Inv, NEW w \in Workers, Return(w), UNCHANGED <<run, snapshots>>
    PROVE  Inv'
<1>1. Idle.pc \notin Holding /\ Begun(Idle) /\ Foresees(Idle)
  BY DEF Idle, Holding, Begun, Foresees
<1>2. QED
  BY <1>1, ReadStep DEF Return

LEMMA PublishBeginStep ==
    ASSUME Inv, NEW w \in Workers, NEW pair \in Pairs, PublishBegin(w, pair)
    PROVE  Inv' /\ Effect
<1> DEFINE c == [pc |-> "get_t", baseline |-> pair[1], target |-> pair[2],
                 disturbed |-> run[pair[1]].disturbance, tops |-> <<>>,
                 detail |-> <<>>, version |-> 0, id |-> 0]
<1>1. pair[1] \in Runs /\ pair[2] \in Runs
  BY SnapshotServiceAssumption
<1>2. run[pair[1]].disturbance \in BOOLEAN
  BY <1>1 DEF Inv, Typed, Run
<1>3. <<>> \in Seq(Int)
  OBVIOUS
<1>4. ShapedCall(c)
  BY <1>1, <1>2, <1>3 DEF ShapedCall, Labels
<1>5. c.pc \notin Holding /\ Begun(c) /\ Foresees(c)
  BY DEF Holding, Begun, Foresees, PublishBegin
<1>6. QED
  BY <1>4, <1>5, ReadStep DEF PublishBegin, Effect

LEMMA ReadTargetStep ==
    ASSUME Inv, NEW w \in Workers, ReadTarget(w)
    PROVE  Inv' /\ Effect
<1> DEFINE c == calls[w]
           d == [c EXCEPT !.pc = "list_b", !.disturbed = @ \/ run[c.target].disturbance]
<1>1. ShapedCall(c) /\ Registered(c.baseline)
  BY CallInFlight DEF ReadTarget, Labels
<1>2. run[c.target] \in Run
  BY <1>1 DEF Inv, Typed, ShapedCall
<1>3. (c.disturbed \/ run[c.target].disturbance) \in BOOLEAN
  BY <1>1, <1>2 DEF ShapedCall, Run
<1>4. ShapedCall(d) /\ d.baseline = c.baseline /\ d.pc = "list_b"
  BY <1>1, <1>3 DEF ShapedCall, Labels
<1>5. d.pc \notin Holding /\ Begun(d) /\ Foresees(d)
  BY <1>1, <1>4 DEF Holding, Begun, Foresees
<1>6. QED
  BY <1>4, <1>5, ReadStep, ReturnStep DEF ReadTarget, Effect

LEMMA ListBaselineStep ==
    ASSUME Inv, NEW w \in Workers, ListBaseline(w)
    PROVE  Inv' /\ Effect
<1> DEFINE c == calls[w]
           d == [c EXCEPT !.pc = "list_t", !.tops = run[c.baseline].tops]
<1>1. ShapedCall(c) /\ Registered(c.baseline)
  BY CallInFlight DEF ListBaseline, Labels
<1>2. run[c.baseline].tops \in Seq(Int)
  BY <1>1 DEF Inv, Typed, ShapedCall, Run
<1>3. ShapedCall(d) /\ d.baseline = c.baseline /\ d.pc = "list_t"
  BY <1>1, <1>2 DEF ShapedCall, Labels
<1>4. d.pc \notin Holding /\ Begun(d) /\ Foresees(d)
  BY <1>1, <1>3 DEF Holding, Begun, Foresees
<1>5. QED
  BY <1>3, <1>4, ReadStep DEF ListBaseline, Effect

LEMMA ListTargetStep ==
    ASSUME Inv, NEW w \in Workers, ListTarget(w)
    PROVE  Inv' /\ Effect
<1> DEFINE c == calls[w]
           moves == Compare(c.tops, run[c.target].tops)
           d == [c EXCEPT !.pc = "latest", !.detail = moves]
<1>1. ShapedCall(c) /\ Registered(c.baseline)
  BY CallInFlight DEF ListTarget, Labels
<1>2. ShapedCall(d) /\ d.baseline = c.baseline /\ d.pc = "latest"
  BY <1>1 DEF ShapedCall, Labels
<1>3. d.pc \notin Holding /\ Begun(d) /\ Foresees(d)
  BY <1>1, <1>2 DEF Holding, Begun, Foresees
<1>4. QED
  BY <1>2, <1>3, ReadStep, ReturnStep DEF ListTarget, Effect

LEMMA LatestVersionStep ==
    ASSUME Inv, NEW w \in Workers, LatestVersion(w)
    PROVE  Inv' /\ Effect
<1> DEFINE c        == calls[w]
           versions == {0} \cup VersionsIn(snapshots, WellOf(c))
           latest   == CHOOSE v \in versions : \A u \in versions : u <= v
           d        == [c EXCEPT !.pc = "create", !.version = latest + 1]
<1>1. ShapedCall(c) /\ Registered(c.baseline) /\ WellOf(c) \in Wells
  BY CallInFlight DEF LatestVersion, Labels
<1>2. PICK n \in Nat : VersionsIn(snapshots, WellOf(c)) = 1..n
  BY <1>1 DEF Inv, Numbered
<1>3. n \in versions /\ \A u \in versions : u <= n
  BY <1>2
<1>4. latest \in versions /\ n <= latest
  BY <1>3
<1>5. latest \in Nat /\ (latest = 0 \/ latest \in VersionsIn(snapshots, WellOf(c)))
  BY <1>2, <1>4
<1>6. ShapedCall(d) /\ d.pc = "create" /\ d.version = latest + 1 /\ d.baseline = c.baseline
  <2> HIDE DEF latest
  <2>1. latest + 1 \in Nat
    BY <1>5
  <2>2. QED
    BY <1>1, <2>1 DEF ShapedCall, Labels
<1> HIDE DEF latest
<1>7. d.pc \notin Holding /\ Begun(d) /\ Foresees(d)
  BY <1>1, <1>5, <1>6 DEF Holding, Begun, Foresees, WellOf
<1>8. Set(w, d) /\ UNCHANGED <<run, snapshots>>
  BY DEF LatestVersion, VersionsIn, WellRows, OfWell, WellOf, latest
<1>9. QED
  BY <1>6, <1>7, <1>8, ReadStep DEF Effect

LEMMA CreateSnapshotStep ==
    ASSUME Inv, NEW w \in Workers, CreateSnapshot(w)
    PROVE  Inv' /\ Effect
<1> DEFINE c == calls[w]
           d == Draft(c)
<1>1. ShapedCall(c) /\ Registered(c.baseline) /\ WellOf(c) \in Wells
  BY CallInFlight DEF CreateSnapshot, Labels
<1>2. CASE Return(w) /\ UNCHANGED snapshots /\ UNCHANGED run
  BY <1>2, ReturnStep DEF Effect
<1>3. CASE /\ ~\E s \in OfWell(run[c.baseline].well) : s.version = c.version
           /\ snapshots' = snapshots \cup {d}
           /\ Set(w, [c EXCEPT !.pc = "review", !.id = d.id])
           /\ UNCHANGED run
  <2>1. Cardinality(snapshots) \in Nat
    BY CountRows DEF Inv, Numbered
  <2>2. /\ c.version \in Nat \ {0}
        /\ c.version = 1 \/ c.version - 1 \in VersionsIn(snapshots, WellOf(c))
    BY DEF CreateSnapshot, Inv, Foresees
  <2>3. /\ d.id = Cardinality(snapshots) + 1 /\ d.well = WellOf(c)
        /\ d.version = c.version /\ d.state = "draft"
    BY DEF Draft, WellOf
  <2>4. ShapedRows({d})
    BY <1>1, <2>1, <2>2 DEF ShapedRows, Draft, ShapedCall, WellOf, SnapshotStates
  <2>5. d.version \notin VersionsIn(snapshots, d.well)
    BY <1>3, <2>3 DEF VersionsIn, WellRows, OfWell, WellOf
  <2>6. NextRow(snapshots, d)
    BY <2>2, <2>3, <2>4, <2>5 DEF NextRow
  <2>7. Inv'
    BY <1>1, <1>3, <2>3, <2>6, StoreStep
  <2>8. Stores(d)
    BY <1>3, <2>3, <2>6 DEF Stores
  <2>9. QED
    BY <2>7, <2>8 DEF Effect
<1>4. QED
  BY <1>2, <1>3 DEF CreateSnapshot

LEMMA SubmitStep ==
    ASSUME Inv, NEW w \in Workers, SubmitForReview(w)
    PROVE  Inv' /\ Effect
<1> DEFINE c == calls[w]
           g == UpdateMap(c.id, "under_review")
           d == [c EXCEPT !.pc = "supersede"]
<1>1. ShapedCall(c) /\ Registered(c.baseline) /\ c.pc = "review"
  BY CallInFlight DEF SubmitForReview, Labels
<1>2. PICK s \in snapshots : s.id = c.id /\ s.state = "draft"
  BY <1>1 DEF Inv, Holds, Holding
<1>3. /\ g \in [snapshots -> SnapshotStates]
      /\ snapshots' = Restated(snapshots, g)
  BY UpdateRestates DEF SubmitForReview, Inv, Typed, SnapshotStates
<1>4. \A t \in snapshots :
         /\ t.id # c.id => g[t] = t.state
         /\ t.id = c.id => g[t] = "under_review"
  BY DEF UpdateMap
<1> HIDE DEF g
<1>5. UNCHANGED run /\ c.pc \in Holding
  BY <1>1 DEF SubmitForReview, Holding
<1>6. ASSUME Return(w)
      PROVE  Inv'
  <2>1. Idle.pc \notin Holding /\ Idle.pc # "create" /\ Begun(Idle)
    BY DEF Idle, Holding, Begun
  <2>2. QED
    BY <1>3, <1>4, <1>5, <1>6, <2>1, StateStep DEF Return
<1>7. ASSUME Goto(w, "supersede")
      PROVE  Inv'
  <2>1. /\ ShapedCall(d) /\ d.pc = "supersede" /\ Begun(d)
        /\ d.id = c.id /\ d.baseline = c.baseline
    BY <1>1 DEF ShapedCall, Labels, Begun
  <2>2. Set(w, d)
    BY <1>7 DEF Goto
  <2> HIDE DEF d
  <2>3. QED
    BY <1>3, <1>4, <1>5, <2>1, <2>2, StateStep
<1>8. Effect
  BY <1>2 DEF SubmitForReview, Effect, Puts
<1>9. QED
  BY <1>6, <1>7, <1>8 DEF SubmitForReview

LEMMA SupersedeStep ==
    ASSUME Inv, NEW w \in Workers, SupersedePublished(w)
    PROVE  Inv' /\ Effect
<1> DEFINE c == calls[w]
           g == SupersedeMap(WellOf(c), c.id)
           d == [c EXCEPT !.pc = "publish"]
<1>1. ShapedCall(c) /\ Registered(c.baseline) /\ c.pc = "supersede"
  BY CallInFlight DEF SupersedePublished, Labels
<1>2. PICK s \in snapshots : s.id = c.id /\ s.well = WellOf(c) /\ s.state = "under_review"
  BY <1>1 DEF Inv, Holds, Holding
<1>3. /\ g \in [snapshots -> SnapshotStates]
      /\ snapshots' = Restated(snapshots, g)
  BY SupersedeRestates DEF SupersedePublished, Inv, Typed, WellOf
<1>4. \A t \in snapshots : t.state # "published" => g[t] = t.state
  BY DEF SupersedeMap
<1> HIDE DEF g
<1>5. UNCHANGED run /\ c.pc \in Holding
  BY <1>1 DEF SupersedePublished, Holding
<1>6. \A t \in snapshots : t.id = c.id => t = s
  BY <1>2 DEF Inv, Numbered
<1>7. \A t \in snapshots : t.id = c.id => g[t] = "under_review"
  BY <1>2, <1>4, <1>6
<1>8. /\ ShapedCall(d) /\ d.pc = "publish" /\ Begun(d)
      /\ d.id = c.id /\ d.baseline = c.baseline
  BY <1>1 DEF ShapedCall, Labels, Begun
<1>9. Set(w, d)
  BY DEF SupersedePublished, Goto
<1> HIDE DEF d
<1>10. Inv'
  BY <1>3, <1>4, <1>5, <1>7, <1>8, <1>9, StateStep
<1>11. Effect
  BY <1>2 DEF SupersedePublished, Effect, GivesWay, WellOf
<1>12. QED
  BY <1>10, <1>11

LEMMA PublishStep ==
    ASSUME Inv, NEW w \in Workers, Publish(w)
    PROVE  Inv' /\ Effect
<1> DEFINE c == calls[w]
           g == UpdateMap(c.id, "published")
<1>1. ShapedCall(c) /\ Registered(c.baseline) /\ c.pc = "publish"
  BY CallInFlight DEF Publish, Labels
<1>2. PICK s \in snapshots : s.id = c.id /\ s.state = "under_review"
  BY <1>1 DEF Inv, Holds, Holding
<1>3. /\ g \in [snapshots -> SnapshotStates]
      /\ snapshots' = Restated(snapshots, g)
  BY UpdateRestates DEF Publish, Inv, Typed, SnapshotStates
<1>4. \A t \in snapshots : t.id # c.id => g[t] = t.state
  BY DEF UpdateMap
<1> HIDE DEF g
<1>5. UNCHANGED run /\ c.pc \in Holding
  BY <1>1 DEF Publish, Holding
<1>6. Idle.pc \notin Holding /\ Idle.pc # "create" /\ Begun(Idle) /\ Set(w, Idle)
  BY DEF Idle, Holding, Begun, Publish, Return
<1>7. Inv'
  BY <1>3, <1>4, <1>5, <1>6, StateStep
<1>8. Effect
  BY <1>2 DEF Publish, Effect, Puts
<1>9. QED
  BY <1>7, <1>8

LEMMA RunChangeStep ==
    ASSUME Inv, RunChange
    PROVE  Inv' /\ Effect
<1>1. ASSUME NEW r \in Runs, NEW disturbance \in BOOLEAN, SetWellRunMeta(r, disturbance)
      PROVE  Inv' /\ Effect
  <2>1. run' \in [Runs -> Run] /\ \A q \in Runs : run'[q].well = run[q].well
    BY <1>1 DEF SetWellRunMeta, Inv, Typed, Run
  <2>2. QED
    BY <1>1, <2>1, RunStep DEF SetWellRunMeta, Effect
<1>2. ASSUME NEW r \in Runs, NEW tops \in Tops, ReplaceSegments(r, tops)
      PROVE  Inv' /\ Effect
  <2>1. tops \in Seq(Int)
    BY SnapshotServiceAssumption
  <2>2. run' \in [Runs -> Run] /\ \A q \in Runs : run'[q].well = run[q].well
    BY <1>2, <2>1 DEF ReplaceSegments, Inv, Typed, Run
  <2>3. QED
    BY <1>2, <2>2, RunStep DEF ReplaceSegments, Effect
<1>3. ASSUME NEW r \in Runs, NEW well \in Wells, NEW units \in Units,
             CreateWellRun(r, well, units)
      PROVE  Inv' /\ Effect
  <2> DEFINE x == [run[r] EXCEPT !.well = well, !.units = units]
  <2>1. run \in [Runs -> Run] /\ run[r] \in Run
    BY DEF Inv, Typed
  <2>2. x \in Run
    BY <2>1 DEF Run
  <2>3. run' = [run EXCEPT ![r] = x] /\ ~Registered(r)
    BY <1>3, <2>1 DEF CreateWellRun
  <2> HIDE DEF x
  <2>4. /\ run' \in [Runs -> Run]
        /\ \A q \in Runs : Registered(q) => run'[q].well = run[q].well
    BY <2>1, <2>2, <2>3
  <2>5. QED
    BY <1>3, <2>4, RunStep DEF CreateWellRun, Effect
<1>4. QED
  BY <1>1, <1>2, <1>3 DEF RunChange

LEMMA CrashStep ==
    ASSUME Inv, Crash
    PROVE  Inv' /\ Effect
<1>1. \A w \in Workers : calls'[w] = Idle /\ calls'[w].pc = "idle"
  BY DEF Crash, Idle
<1>2. Typed'
  BY <1>1 DEF Crash, Inv, Typed
<1>3. QED
  BY <1>1, <1>2 DEF Crash, Inv, Begun, Foresees, Holds, Holding, Apart, Effect

LEMMA Steps ==
    ASSUME Inv, [Next]_vars
    PROVE  Inv' /\ Effect
<1>1. ASSUME NEW w \in Workers, Continue(w)
      PROVE  Inv' /\ Effect
  BY <1>1, ReadTargetStep, ListBaselineStep, ListTargetStep, LatestVersionStep,
     CreateSnapshotStep, SubmitStep, SupersedeStep, PublishStep DEF Continue
<1>2. ASSUME NEW w \in Workers, Fail(w)
      PROVE  Inv' /\ Effect
  BY <1>2, ReturnStep DEF Fail, Effect
<1>3. CASE UNCHANGED vars
  <2>1. Inv'
    BY <1>3 DEF vars, Inv, Typed, ShapedCall, Begun, Registered, Foresees, Holds, Apart, WellOf
  <2>2. QED
    BY <1>3, <2>1 DEF vars, Effect
<1>4. QED
  BY <1>1, <1>2, <1>3, PublishBeginStep, RunChangeStep, CrashStep DEF Next, Step, Fault

LEMMA Invariant == Spec => []Inv
<1>1. Inv /\ [Next]_vars => Inv'
  BY Steps
<1>2. QED
  BY <1>1, InitInv, PTL DEF Spec

-----------------------------------------------------------------------------
(* Numbers and content *)

\* LatestVersion and the insert are apart and nothing locks them: still, the
\* versions of a well are 1, 2, ... without a hole or a duplicate, with any
\* number of overlapping publications, failures and restarts.
THEOREM VersionsStayDense == Spec => []VersionsDense
<1>1. Inv => VersionsDense
  <2> SUFFICES ASSUME Inv, NEW well \in Wells
               PROVE  {s.version : s \in OfWell(well)} = 1..Cardinality(OfWell(well))
    BY DEF VersionsDense
  <2>1. OfWell(well) = WellRows(snapshots, well)
    BY DEF OfWell, WellRows
  <2>2. PICK n \in Nat : VersionsIn(snapshots, well) = 1..n
    BY DEF Inv, Numbered
  <2>3. Cardinality(WellRows(snapshots, well)) = n
    BY <2>2, CountVersions DEF Inv
  <2>4. QED
    BY <2>1, <2>2, <2>3 DEF VersionsIn
<1>2. QED
  BY <1>1, Invariant, PTL

\* Restating rows leaves the rest of each of them as it was.
LEMMA RestatedKeeps ==
    ASSUME ShapedRows(snapshots), NEW g \in [snapshots -> SnapshotStates],
           snapshots' = Restated(snapshots, g), NEW s \in snapshots
    PROVE  \E t \in snapshots' : t = [s EXCEPT !.state = t.state]
<1> DEFINE t == [s EXCEPT !.state = g[s]]
<1>1. t \in snapshots'
  BY DEF Restated
<1>2. t.state = g[s]
  BY RestatedRow
<1>3. QED
  BY <1>1, <1>2

\* What is left is what the steps of a publication do: a state statement
\* restates the rows, in the way its map says.
LEMMA EffectCases ==
    ASSUME Inv, NEW s \in snapshots, NEW from, NEW to \in SnapshotStates
    PROVE  /\ Puts(s, from, to) =>
                 /\ s.state = from
                 /\ UpdateMap(s.id, to) \in [snapshots -> SnapshotStates]
                 /\ snapshots' = Restated(snapshots, UpdateMap(s.id, to))
           /\ GivesWay(s) =>
                 /\ s.state = "under_review"
                 /\ SupersedeMap(s.well, s.id) \in [snapshots -> SnapshotStates]
                 /\ snapshots' = Restated(snapshots, SupersedeMap(s.well, s.id))
BY UpdateRestates, SupersedeRestates DEF Inv, Typed, Puts, GivesWay

LEMMA RowsKept ==
    ASSUME Inv, [Next]_vars, NEW s \in snapshots
    PROVE  \E t \in snapshots' : t = [s EXCEPT !.state = t.state]
<1>1. Effect /\ ShapedRows(snapshots)
  BY Steps DEF Inv, Typed
<1>2. s = [s EXCEPT !.state = s.state]
  BY <1>1, SameState
<1>3. CASE s \in snapshots'
  BY <1>2, <1>3
<1>4. CASE \E r \in snapshots : Puts(r, "draft", "under_review")
  BY <1>1, <1>4, EffectCases, RestatedKeeps DEF SnapshotStates
<1>5. CASE \E r \in snapshots : Puts(r, "under_review", "published")
  BY <1>1, <1>5, EffectCases, RestatedKeeps DEF SnapshotStates
<1>6. CASE \E r \in snapshots : GivesWay(r)
  BY <1>1, <1>6, EffectCases, RestatedKeeps DEF SnapshotStates
<1>7. QED
  BY <1>1, <1>3, <1>4, <1>5, <1>6 DEF Effect, Stores

\* A stored snapshot never changes but for its state, and never goes, whatever
\* later publications, failures and restarts do.
THEOREM SnapshotsAreImmutable == Spec => SnapshotsImmutable
<1>1. Inv /\ [Next]_vars =>
         [\A s \in snapshots : \E t \in snapshots' : t = [s EXCEPT !.state = t.state]]_vars
  BY RowsKept
<1>2. QED
  BY <1>1, Invariant, PTL DEF Spec, SnapshotsImmutable

-----------------------------------------------------------------------------
(* The promised history *)

\* The state of each version of each well: what ImplementsHistory substitutes
\* for the history, of any set of rows.
StatesOf(S) ==
    [well \in Wells |->
        [v \in 1..Cardinality(WellRows(S, well)) |->
            LET s == CHOOSE s \in WellRows(S, well) : s.version = v
            IN  s.state]]

\* The history holds one state for each row, at its version, and nothing else.
LEMMA Described ==
    ASSUME NEW S, ShapedRows(S), Numbered(S), NEW well \in Wells, NEW n \in Nat,
           VersionsIn(S, well) = 1..n
    PROVE  /\ StatesOf(S)[well] \in [1..n -> SnapshotStates]
           /\ \A s \in WellRows(S, well) :
                 s.version \in 1..n /\ StatesOf(S)[well][s.version] = s.state
           /\ \A v \in 1..n : \E s \in WellRows(S, well) : s.version = v
<1> DEFINE R       == WellRows(S, well)
           chosen(v) == CHOOSE s \in R : s.version = v
<1>1. StatesOf(S)[well] = [v \in 1..n |-> chosen(v).state]
  BY CountVersions DEF StatesOf
<1>2. \A v \in 1..n : \E s \in R : s.version = v
  BY DEF VersionsIn
<1>3. \A v \in 1..n : chosen(v) \in R /\ chosen(v).version = v
  BY <1>2
<1>4. \A s \in R : s.version \in 1..n
  BY DEF VersionsIn
<1>5. \A s \in R : chosen(s.version) = s
  BY <1>3, <1>4 DEF Numbered, WellRows
<1>6. \A s \in R : s.state \in SnapshotStates
  BY DEF ShapedRows, WellRows
<1> HIDE DEF chosen
<1>7. QED
  BY <1>1, <1>2, <1>3, <1>4, <1>5, <1>6

\* Restating the rows restates the history, version by version.
LEMMA RestatedHistory ==
    ASSUME ShapedRows(snapshots), Numbered(snapshots),
           NEW g \in [snapshots -> SnapshotStates], NEW well \in Wells,
           NEW n \in Nat, VersionsIn(snapshots, well) = 1..n
    PROVE  /\ StatesOf(Restated(snapshots, g))[well] \in [1..n -> SnapshotStates]
           /\ \A s \in WellRows(snapshots, well) :
                 StatesOf(Restated(snapshots, g))[well][s.version] = g[s]
<1> DEFINE T == Restated(snapshots, g)
<1>1. ShapedRows(T) /\ Numbered(T) /\ VersionsIn(T, well) = 1..n
  BY RestatedNumbered
<1>2. ASSUME NEW s \in WellRows(snapshots, well)
      PROVE  \E t \in WellRows(T, well) : t.version = s.version /\ t.state = g[s]
  <2>1. s \in snapshots /\ s.well = well
    BY DEF WellRows
  <2>2. [s EXCEPT !.state = g[s]] \in T
    BY <2>1 DEF Restated
  <2>3. QED
    BY <2>1, <2>2, RestatedRow DEF WellRows
<1> HIDE DEF T
<1>3. QED
  BY <1>1, <1>2, Described DEF T

\* Two functions on the versions of a well agree if they do at each row.
LEMMA AgreeAtRows ==
    ASSUME Inv, NEW well \in Wells, NEW n \in Nat, VersionsIn(snapshots, well) = 1..n,
           NEW f, f = [v \in 1..n |-> f[v]], NEW h, h = [v \in 1..n |-> h[v]],
           \A s \in WellRows(snapshots, well) : f[s.version] = h[s.version]
    PROVE  f = h
<1>1. \A v \in 1..n : f[v] = h[v]
  BY Described DEF Inv, Typed
<1>2. QED
  BY <1>1

\* Submission and publication of a snapshot change the state of its version.
LEMMA PutsHistory ==
    ASSUME Inv, NEW s \in snapshots, NEW from, NEW to \in SnapshotStates,
           Puts(s, from, to)
    PROVE  LET H == StatesOf(snapshots)
           IN  /\ s.well \in Wells /\ s.version \in DOMAIN H[s.well]
               /\ H[s.well][s.version] = from
               /\ StatesOf(snapshots') = [H EXCEPT ![s.well][s.version] = to]
<1> DEFINE H == StatesOf(snapshots)
           G == StatesOf(snapshots')
           g == UpdateMap(s.id, to)
           E == [H EXCEPT ![s.well][s.version] = to]
<1>1. /\ ShapedRows(snapshots) /\ Numbered(snapshots)
      /\ s.state = from /\ g \in [snapshots -> SnapshotStates]
      /\ snapshots' = Restated(snapshots, g)
  BY EffectCases DEF Inv, Typed
<1>2. s.well \in Wells /\ s \in WellRows(snapshots, s.well)
  BY <1>1 DEF ShapedRows, WellRows
<1>3. /\ H = [well \in Wells |-> H[well]]
      /\ G = [well \in Wells |-> G[well]]
  BY DEF StatesOf
<1>4. \A r \in snapshots : g[r] = IF r = s THEN to ELSE r.state
  BY <1>1 DEF UpdateMap, Numbered
<1> HIDE DEF g
<1>5. ASSUME NEW well \in Wells
      PROVE  /\ G[well] = E[well]
             /\ well = s.well => s.version \in DOMAIN H[well] /\ H[well][s.version] = from
  <2>1. PICK n \in Nat : VersionsIn(snapshots, well) = 1..n
    BY <1>1 DEF Numbered
  <2>2. /\ H[well] \in [1..n -> SnapshotStates]
        /\ \A r \in WellRows(snapshots, well) :
              r.version \in 1..n /\ H[well][r.version] = r.state
    BY <1>1, <2>1, Described
  <2>3. /\ G[well] \in [1..n -> SnapshotStates]
        /\ \A r \in WellRows(snapshots, well) : G[well][r.version] = g[r]
    BY <1>1, <2>1, RestatedHistory
  <2> HIDE DEF H, G
  <2>4. E[well] = IF well = s.well THEN [H[well] EXCEPT ![s.version] = to] ELSE H[well]
    BY <1>3
  <2>5. ASSUME NEW r \in WellRows(snapshots, well)
        PROVE  E[well][r.version] = g[r]
    <3>1. r \in snapshots /\ r.well = well
      BY DEF WellRows
    <3>2. r.version = s.version /\ well = s.well => r = s
      BY <1>1, <3>1 DEF Numbered
    <3>3. H[well][r.version] = r.state /\ r.version \in 1..n
      BY <2>2
    <3>4. g[r] = IF r = s THEN to ELSE r.state
      BY <1>4, <3>1
    <3>5. QED
      BY <2>2, <2>4, <3>1, <3>2, <3>3, <3>4
  <2>6. E[well] = [v \in 1..n |-> E[well][v]]
    BY <2>2, <2>4
  <2>7. G[well] = E[well]
    <3> HIDE DEF E
    <3>1. G[well] = [v \in 1..n |-> G[well][v]]
      BY <2>3
    <3>2. QED
      BY <2>1, <2>3, <2>5, <2>6, <3>1, AgreeAtRows
  <2>8. QED
    BY <1>1, <1>2, <2>2, <2>7
<1>6. E = [well \in Wells |-> E[well]]
  BY <1>3
<1>7. QED
  BY <1>1, <1>2, <1>3, <1>5, <1>6

\* SupersedePublished makes all published versions of the well give way.
LEMMA GivesWayHistory ==
    ASSUME Inv, NEW s \in snapshots, GivesWay(s)
    PROVE  LET H == StatesOf(snapshots)
           IN  /\ s.well \in Wells
               /\ StatesOf(snapshots') =
                    [H EXCEPT ![s.well] =
                        [v \in DOMAIN H[s.well] |->
                            IF H[s.well][v] = "published" THEN "superseded"
                                                          ELSE H[s.well][v]]]
<1> DEFINE H == StatesOf(snapshots)
           G == StatesOf(snapshots')
           g == SupersedeMap(s.well, s.id)
           E == [H EXCEPT ![s.well] =
                    [v \in DOMAIN H[s.well] |->
                        IF H[s.well][v] = "published" THEN "superseded"
                                                      ELSE H[s.well][v]]]
<1>1. /\ ShapedRows(snapshots) /\ Numbered(snapshots)
      /\ s.state = "under_review" /\ g \in [snapshots -> SnapshotStates]
      /\ snapshots' = Restated(snapshots, g)
  BY EffectCases DEF Inv, Typed, SnapshotStates
<1>2. s.well \in Wells
  BY <1>1 DEF ShapedRows
<1>3. /\ H = [well \in Wells |-> H[well]]
      /\ G = [well \in Wells |-> G[well]]
  BY DEF StatesOf
<1>4. \A r \in snapshots :
         g[r] = IF r.well = s.well /\ r.state = "published" THEN "superseded" ELSE r.state
  BY <1>1 DEF SupersedeMap, Numbered
<1> HIDE DEF g
<1>5. ASSUME NEW well \in Wells
      PROVE  G[well] = E[well]
  <2>1. PICK n \in Nat : VersionsIn(snapshots, well) = 1..n
    BY <1>1 DEF Numbered
  <2>2. /\ H[well] \in [1..n -> SnapshotStates]
        /\ \A r \in WellRows(snapshots, well) :
              r.version \in 1..n /\ H[well][r.version] = r.state
    BY <1>1, <2>1, Described
  <2>3. /\ G[well] \in [1..n -> SnapshotStates]
        /\ \A r \in WellRows(snapshots, well) : G[well][r.version] = g[r]
    BY <1>1, <2>1, RestatedHistory
  <2> HIDE DEF H, G
  <2>4. E[well] = IF well = s.well
                  THEN [v \in DOMAIN H[well] |->
                           IF H[well][v] = "published" THEN "superseded" ELSE H[well][v]]
                  ELSE H[well]
    BY <1>3
  <2>5. ASSUME NEW r \in WellRows(snapshots, well)
        PROVE  E[well][r.version] = g[r]
    <3>1. r \in snapshots /\ r.well = well
      BY DEF WellRows
    <3>2. H[well][r.version] = r.state /\ r.version \in 1..n
      BY <2>2
    <3>3. QED
      BY <1>4, <2>2, <2>4, <3>1, <3>2
  <2>6. E[well] = [v \in 1..n |-> E[well][v]]
    <3>1. DOMAIN H[well] = 1..n /\ H[well] = [v \in 1..n |-> H[well][v]]
      BY <2>2
    <3> HIDE DEF E
    <3>2. CASE well = s.well
      BY <2>4, <3>1, <3>2
    <3>3. CASE well # s.well
      BY <2>4, <3>1, <3>3
    <3>4. QED
      BY <3>2, <3>3
  <2>7. G[well] = [v \in 1..n |-> G[well][v]]
    BY <2>3
  <2> HIDE DEF E
  <2>8. QED
    BY <2>1, <2>3, <2>5, <2>6, <2>7, AgreeAtRows
<1>6. E = [well \in Wells |-> E[well]]
  BY <1>3
<1>7. QED
  BY <1>2, <1>3, <1>5, <1>6

LEMMA AddedVersions ==
    ASSUME NEW S, NEW d
    PROVE  VersionsIn(S \cup {d}, d.well) = VersionsIn(S, d.well) \cup {d.version}
BY DEF VersionsIn, WellRows

\* A sequence of length n + 1 that continues one of length n by e.
LEMMA IsAppend ==
    ASSUME NEW n \in Nat, NEW D, NEW f \in [1..n -> D], NEW e \in D,
           NEW h \in [1..(n + 1) -> D],
           h[n + 1] = e, \A v \in 1..n : h[v] = f[v]
    PROVE  h = Append(f, e)
<1> DEFINE k == Append(f, e)
<1>1. f \in Seq(D) /\ Len(f) = n
  BY SeqDef
<1>2. /\ k \in Seq(D) /\ Len(k) = n + 1
      /\ \A v \in 1..n : k[v] = f[v]
      /\ k[n + 1] = e
  BY <1>1, AppendProperties
<1> HIDE DEF k
<1>3. k = [v \in 1..(n + 1) |-> k[v]]
  BY <1>2
<1>4. \A v \in 1..(n + 1) : v = n + 1 \/ v \in 1..n
  OBVIOUS
<1>5. \A v \in 1..(n + 1) : h[v] = k[v]
  BY <1>2, <1>4
<1>6. h = k
  BY <1>3, <1>5
<1>7. QED
  BY <1>6 DEF k

\* The history of the rows S and one more draft.
LEMMA AddedHistory ==
    ASSUME NEW S, ShapedRows(S), Numbered(S),
           NEW d, NextRow(S, d), d.state = "draft", NEW well \in Wells
    PROVE  StatesOf(S \cup {d})[well] =
              IF well = d.well THEN Append(StatesOf(S)[well], "draft")
                               ELSE StatesOf(S)[well]
<1> DEFINE T == S \cup {d}
<1>1. PICK n \in Nat : VersionsIn(S, well) = 1..n
  BY DEF Numbered
<1>2. CASE well = d.well
  <2>1. d.version = n + 1
    BY <1>1, <1>2, AddedVersion
  <2>2. VersionsIn(T, d.well) = VersionsIn(S, d.well) \cup {d.version}
    BY AddedVersions
  <2>3. ShapedRows(T) /\ Numbered(T)
    BY AddedNumbered
  <2>4. d \in WellRows(T, well) /\ WellRows(S, well) \subseteq WellRows(T, well)
    BY <1>2 DEF WellRows
  <2> HIDE DEF T
  <2>5. VersionsIn(T, well) = 1..(n + 1)
    <3>1. VersionsIn(T, well) = (1..n) \cup {n + 1}
      BY <1>1, <1>2, <2>1, <2>2
    <3>2. QED
      BY <3>1, OneMore
  <2> DEFINE f == StatesOf(S)[well]
             h == StatesOf(T)[well]
  <2>6. /\ f \in [1..n -> SnapshotStates]
        /\ \A r \in WellRows(S, well) : r.version \in 1..n /\ f[r.version] = r.state
        /\ \A v \in 1..n : \E r \in WellRows(S, well) : r.version = v
    BY <1>1, Described
  <2>7. PICK m \in Nat : m = n + 1
    OBVIOUS
  <2>8. /\ h \in [1..m -> SnapshotStates]
        /\ \A r \in WellRows(T, well) : h[r.version] = r.state
    <3>1. VersionsIn(T, well) = 1..m
      BY <2>5, <2>7
    <3>2. QED
      BY <2>3, <3>1, Described
  <2> HIDE DEF f, h
  <2>9. h[n + 1] = "draft" /\ \A v \in 1..n : h[v] = f[v]
    BY <2>1, <2>4, <2>6, <2>8
  <2>10. "draft" \in SnapshotStates
    BY DEF SnapshotStates
  <2>11. h \in [1..(n + 1) -> SnapshotStates]
    BY <2>7, <2>8
  <2>12. h = Append(f, "draft")
    BY <2>6, <2>9, <2>10, <2>11, IsAppend
  <2>13. QED
    BY <1>2, <2>12 DEF f, h, T
<1>3. CASE well # d.well
  <2>1. WellRows(T, well) = WellRows(S, well)
    BY <1>3 DEF WellRows
  <2> HIDE DEF T
  <2>2. StatesOf(T)[well] = StatesOf(S)[well]
    BY <2>1 DEF StatesOf
  <2>3. QED
    BY <1>3, <2>2 DEF T
<1>4. QED
  BY <1>2, <1>3

\* A stored draft is appended to the history of its well.
LEMMA StoresHistory ==
    ASSUME Inv, NEW d, Stores(d)
    PROVE  /\ d.well \in Wells
           /\ StatesOf(snapshots') =
                 [StatesOf(snapshots) EXCEPT ![d.well] = Append(@, "draft")]
<1> DEFINE H == StatesOf(snapshots)
           G == StatesOf(snapshots')
<1>1. /\ ShapedRows(snapshots) /\ Numbered(snapshots)
      /\ NextRow(snapshots, d) /\ d.state = "draft" /\ snapshots' = snapshots \cup {d}
  BY DEF Inv, Typed, Stores
<1>2. d.well \in Wells
  BY <1>1 DEF ShapedRows, NextRow
<1>3. /\ H = [well \in Wells |-> H[well]]
      /\ G = [well \in Wells |-> G[well]]
  BY DEF StatesOf
<1>4. \A well \in Wells :
         G[well] = IF well = d.well THEN Append(H[well], "draft") ELSE H[well]
  BY <1>1, AddedHistory
<1> HIDE DEF H, G
<1>5. G = [H EXCEPT ![d.well] = Append(@, "draft")]
  BY <1>2, <1>3, <1>4
<1>6. QED
  BY <1>2, <1>5 DEF H, G

LEMMA EmptyHistory == StatesOf({}) = [well \in Wells |-> <<>>]
<1>1. \A well \in Wells : WellRows({}, well) = {}
  BY DEF WellRows
<1>2. ASSUME NEW well \in Wells
      PROVE  StatesOf({})[well] = <<>>
  <2>1. Cardinality(WellRows({}, well)) = 0
    BY <1>1, FS_EmptySet
  <2>2. 1..0 = {}
    OBVIOUS
  <2>3. DOMAIN StatesOf({})[well] = {}
    BY <2>1, <2>2 DEF StatesOf
  <2>4. StatesOf({})[well] = [v \in {} |-> StatesOf({})[well][v]]
    BY <2>1, <2>2 DEF StatesOf
  <2> DEFINE f == StatesOf({})[well]
  <2> HIDE DEF f
  <2>5. f = [v \in {} |-> f[v]] => f = <<>>
    OBVIOUS
  <2>6. QED
    BY <2>4, <2>5 DEF f
<1>3. QED
  BY <1>2 DEF StatesOf

\* Any number of overlapping, failing and interrupted publications leave every
\* snapshot on the promised path from draft to superseded, and versions are
\* handed out one after the other: the service implements SnapshotHistory.
THEOREM ServiceImplementsHistory == Spec => ImplementsHistory
<1> DEFINE H == StatesOf(snapshots)
<1>1. \A well : OfWell(well) = WellRows(snapshots, well)
  BY DEF OfWell, WellRows
<1>2. Init => History!Init
  BY <1>1, EmptyHistory DEF Init, History!Init, StatesOf
<1>3. Inv /\ [Next]_vars => [History!Next]_H
  <2> SUFFICES ASSUME Inv, [Next]_vars
               PROVE  [History!Next]_H
    OBVIOUS
  <2>1. CASE UNCHANGED snapshots
    BY <2>1 DEF StatesOf, WellRows
  <2>2. ASSUME NEW d, Stores(d)
        PROVE  History!Next
    BY <2>2, StoresHistory DEF History!Next, History!Drafted, StatesOf, OfWell, WellRows
  <2>3. ASSUME NEW s \in snapshots, Puts(s, "draft", "under_review")
        PROVE  History!Next
    <3>1. "under_review" \in SnapshotStates
      BY DEF SnapshotStates
    <3>2. /\ s.well \in Wells /\ s.version \in DOMAIN H[s.well]
          /\ H[s.well][s.version] = "draft"
          /\ H' = [H EXCEPT ![s.well][s.version] = "under_review"]
      BY <2>3, <3>1, PutsHistory
    <3>3. History!Reviewed(s.well, s.version)
      BY <3>2 DEF History!Reviewed, StatesOf, OfWell, WellRows
    <3>4. QED
      BY <3>2, <3>3 DEF History!Next, StatesOf, OfWell, WellRows
  <2>4. ASSUME NEW s \in snapshots, Puts(s, "under_review", "published")
        PROVE  History!Next
    <3>1. "published" \in SnapshotStates
      BY DEF SnapshotStates
    <3>2. /\ s.well \in Wells /\ s.version \in DOMAIN H[s.well]
          /\ H[s.well][s.version] = "under_review"
          /\ H' = [H EXCEPT ![s.well][s.version] = "published"]
      BY <2>4, <3>1, PutsHistory
    <3>3. History!Published(s.well, s.version)
      BY <3>2 DEF History!Published, StatesOf, OfWell, WellRows
    <3>4. QED
      BY <3>2, <3>3 DEF History!Next, StatesOf, OfWell, WellRows
  <2>5. ASSUME NEW s \in snapshots, GivesWay(s)
        PROVE  History!Next
    BY <2>5, GivesWayHistory DEF History!Next, History!Superseded, StatesOf, OfWell, WellRows
  <2>6. QED
    BY <2>1, <2>2, <2>3, <2>4, <2>5, Steps DEF Effect
<1>4. Inv /\ [Next]_vars =>
         [History!Next]_([well \in Wells |->
                             [v \in 1..Cardinality(OfWell(well)) |->
                                 LET s == CHOOSE s \in OfWell(well) : s.version = v
                                 IN  s.state]])
  BY <1>1, <1>3 DEF StatesOf, OfWell, WellRows
<1>5. QED
  BY <1>2, <1>4, Invariant, PTL DEF Spec, ImplementsHistory, History!Spec

-----------------------------------------------------------------------------
(* What snapshots say *)

\* Movements are numbers: what Compare could not put into numbers never gets
\* into a call's detail.
DetailsTyped ==
    /\ \A s \in snapshots : s.detail \in Moves
    /\ \A w \in Workers : calls[w] = Idle \/ calls[w].detail \in Moves

LEMMA DetailsStep ==
    ASSUME Inv, DetailsTyped, NEW w \in Workers, NEW c, Set(w, c),
           c = Idle \/ c.detail \in Moves,
           \A t \in snapshots' : t.detail \in Moves
    PROVE  DetailsTyped'
<1>1. calls' = [calls EXCEPT ![w] = c] /\ calls = [v \in Workers |-> calls[v]]
  BY DEF Set, Inv, Typed
<1>2. calls'[w] = c /\ \A v \in Workers \ {w} : calls'[v] = calls[v]
  BY <1>1
<1>3. QED
  BY <1>2 DEF DetailsTyped

\* Restating snapshots changes no detail.
LEMMA RestatedDetails ==
    ASSUME Inv, DetailsTyped, NEW g \in [snapshots -> SnapshotStates],
           NEW t \in Restated(snapshots, g)
    PROVE  t.detail \in Moves
BY RestatedRow DEF Restated, Inv, Typed, DetailsTyped

LEMMA DetailsContinue ==
    ASSUME Inv, DetailsTyped, NEW w \in Workers, Continue(w)
    PROVE  DetailsTyped'
<1> DEFINE c == calls[w]
<1>1. ASSUME c.pc \in Labels
      PROVE  ShapedCall(c) /\ c.detail \in Moves
  BY <1>1, CallInFlight DEF DetailsTyped, Idle, Labels
<1>2. ASSUME Return(w), \A t \in snapshots' : t.detail \in Moves
      PROVE  DetailsTyped'
  BY <1>2, DetailsStep DEF Return
<1>3. CASE ReadTarget(w)
  <2> DEFINE d == [c EXCEPT !.pc = "list_b", !.disturbed = @ \/ run[c.target].disturbance]
  <2>1. \A t \in snapshots' : t.detail \in Moves
    BY <1>3 DEF ReadTarget, DetailsTyped
  <2>2. d.detail \in Moves
    BY <1>1, <1>3 DEF ReadTarget, Labels, ShapedCall
  <2>3. Return(w) \/ Set(w, d)
    BY <1>3 DEF ReadTarget
  <2> HIDE DEF d
  <2>4. QED
    BY <1>2, <2>1, <2>2, <2>3, DetailsStep
<1>4. CASE ListBaseline(w)
  <2> DEFINE d == [c EXCEPT !.pc = "list_t", !.tops = run[c.baseline].tops]
  <2>1. \A t \in snapshots' : t.detail \in Moves
    BY <1>4 DEF ListBaseline, DetailsTyped
  <2>2. d.detail \in Moves
    BY <1>1, <1>4 DEF ListBaseline, Labels, ShapedCall
  <2>3. Set(w, d)
    BY <1>4 DEF ListBaseline
  <2> HIDE DEF d
  <2>4. QED
    BY <2>1, <2>2, <2>3, DetailsStep
<1>5. CASE ListTarget(w)
  <2> DEFINE moves == Compare(c.tops, run[c.target].tops)
             d == [c EXCEPT !.pc = "latest", !.detail = moves]
  <2>1. \A t \in snapshots' : t.detail \in Moves
    BY <1>5 DEF ListTarget, DetailsTyped
  <2>2. ShapedCall(c)
    BY <1>1, <1>5 DEF ListTarget, Labels
  <2>3. c.tops \in Seq(Int) /\ run[c.target].tops \in Seq(Int)
    BY <2>2 DEF ShapedCall, Inv, Typed, Run
  <2>4. BuildDetailSucceeds(moves) => moves \in Moves
    BY <2>3, CompareTyped DEF Moves
  <2>5. d.detail = moves
    BY <2>2 DEF ShapedCall
  <2>6. Return(w) \/ (BuildDetailSucceeds(moves) /\ Set(w, d))
    BY <1>5 DEF ListTarget
  <2> HIDE DEF moves, d
  <2>7. QED
    BY <1>2, <2>1, <2>4, <2>5, <2>6, DetailsStep
<1>6. CASE LatestVersion(w)
  <2>1. PICK version : Set(w, [c EXCEPT !.pc = "create", !.version = version])
    BY <1>6 DEF LatestVersion
  <2> DEFINE d == [c EXCEPT !.pc = "create", !.version = version]
  <2>2. \A t \in snapshots' : t.detail \in Moves
    BY <1>6 DEF LatestVersion, DetailsTyped
  <2>3. d.detail \in Moves
    BY <1>1, <1>6 DEF LatestVersion, Labels, ShapedCall
  <2> HIDE DEF d
  <2>4. QED
    BY <2>1, <2>2, <2>3, DetailsStep DEF d
<1>7. CASE CreateSnapshot(w)
  <2> DEFINE d == Draft(c)
             e == [c EXCEPT !.pc = "review", !.id = d.id]
  <2>1. ShapedCall(c) /\ c.detail \in Moves
    BY <1>1, <1>7 DEF CreateSnapshot, Labels
  <2>2. d.detail \in Moves
    BY <2>1 DEF Draft
  <2>3. e.detail \in Moves
    BY <2>1 DEF ShapedCall
  <2>4. \/ snapshots' = snapshots \cup {d} /\ Set(w, e)
        \/ UNCHANGED snapshots /\ Return(w)
    BY <1>7 DEF CreateSnapshot
  <2> HIDE DEF d, e
  <2>5. \A t \in snapshots' : t.detail \in Moves
    BY <2>2, <2>4 DEF DetailsTyped
  <2>6. QED
    BY <1>2, <2>3, <2>4, <2>5, DetailsStep
<1>8. CASE SubmitForReview(w)
  <2> DEFINE d == [c EXCEPT !.pc = "supersede"]
  <2>1. ShapedCall(c) /\ c.detail \in Moves
    BY <1>1, <1>8 DEF SubmitForReview, Labels
  <2>2. d.detail \in Moves
    BY <2>1 DEF ShapedCall
  <2>3. \A t \in snapshots' : t.detail \in Moves
    BY <1>8, UpdateRestates, RestatedDetails DEF SubmitForReview, Inv, Typed, SnapshotStates
  <2>4. Return(w) \/ Set(w, d)
    BY <1>8 DEF SubmitForReview, Goto
  <2> HIDE DEF d
  <2>5. QED
    BY <1>2, <2>2, <2>3, <2>4, DetailsStep
<1>9. CASE SupersedePublished(w)
  <2> DEFINE d == [c EXCEPT !.pc = "publish"]
  <2>1. ShapedCall(c) /\ c.detail \in Moves
    BY <1>1, <1>9 DEF SupersedePublished, Labels
  <2>2. d.detail \in Moves
    BY <2>1 DEF ShapedCall
  <2>3. \A t \in snapshots' : t.detail \in Moves
    BY <1>9, SupersedeRestates, RestatedDetails DEF SupersedePublished, Inv, Typed
  <2>4. Set(w, d)
    BY <1>9 DEF SupersedePublished, Goto
  <2> HIDE DEF d
  <2>5. QED
    BY <2>2, <2>3, <2>4, DetailsStep
<1>10. CASE Publish(w)
  <2>1. \A t \in snapshots' : t.detail \in Moves
    BY <1>10, UpdateRestates, RestatedDetails DEF Publish, Inv, Typed, SnapshotStates
  <2>2. QED
    BY <1>2, <1>10, <2>1 DEF Publish
<1>11. QED
  BY <1>3, <1>4, <1>5, <1>6, <1>7, <1>8, <1>9, <1>10 DEF Continue

LEMMA DetailsSteps ==
    ASSUME Inv, DetailsTyped, [Next]_vars
    PROVE  DetailsTyped'
<1>1. ASSUME NEW w \in Workers, NEW pair \in Pairs, PublishBegin(w, pair)
      PROVE  DetailsTyped'
  <2> DEFINE c == [pc |-> "get_t", baseline |-> pair[1], target |-> pair[2],
                   disturbed |-> run[pair[1]].disturbance, tops |-> <<>>,
                   detail |-> <<>>, version |-> 0, id |-> 0]
  <2>1. c.detail \in Moves
    BY DEF Moves
  <2>2. Set(w, c) /\ \A t \in snapshots' : t.detail \in Moves
    BY <1>1 DEF PublishBegin, DetailsTyped
  <2> HIDE DEF c
  <2>3. QED
    BY <2>1, <2>2, DetailsStep
<1>2. ASSUME NEW w \in Workers, Fail(w)
      PROVE  DetailsTyped'
  BY <1>2, DetailsStep DEF Fail, Return, DetailsTyped
<1>3. CASE UNCHANGED <<snapshots, calls>>
  BY <1>3 DEF DetailsTyped
<1>4. CASE Crash
  BY <1>4 DEF Crash, DetailsTyped
<1>5. QED
  BY <1>1, <1>2, <1>3, <1>4, DetailsContinue
     DEF Next, Step, Fault, RunChange, CreateWellRun, SetWellRunMeta, ReplaceSegments, vars

\* Every reachable state of SnapshotService is well typed: in particular every
\* stored detail is a list of numbers, although Compare makes up a
\* not-a-number for each boundary that vanished.
THEOREM SnapshotsTyped == Spec => []TypeOK
<1>1. Init => DetailsTyped
  BY DEF Init, DetailsTyped
<1>2. Inv /\ DetailsTyped => TypeOK
  <2> SUFFICES ASSUME Inv, DetailsTyped PROVE TypeOK
    OBVIOUS
  <2>1. snapshots \subseteq Snapshot
    BY DEF Inv, Typed, DetailsTyped, ShapedRows, Snapshot
  <2>2. ASSUME NEW w \in Workers
        PROVE  calls[w] \in Call \cup {Idle}
    BY DEF Inv, Typed, DetailsTyped, ShapedCall, Call, Labels
  <2>3. calls \in [Workers -> Call \cup {Idle}]
    BY <2>2 DEF Inv, Typed
  <2>4. QED
    BY <2>1, <2>3 DEF Inv, Typed, TypeOK
<1>3. QED
  BY <1>1, <1>2, Invariant, DetailsSteps, PTL DEF Spec
=============================================================================
