---------------------------- MODULE GeowellProofs ---------------------------
(***************************************************************************)
(* Theorems about the service as a whole, for any runs, workers, creators  *)
(* and requests, all of them under way at the same time. Its runs behave   *)
(* as RunService says and its publications as SnapshotService says, so that*)
(* what is proved of either holds in it; its registry keeps one run per    *)
(* code, and a snapshot is of two runs of its well.                        *)
(***************************************************************************)
EXTENDS Geowell, RunDataProofs, FiniteSetTheorems

-----------------------------------------------------------------------------
(* The runs *)

LEMMA SystemRunSteps ==
    ASSUME [SystemNext]_allVars
    PROVE  [Next]_vars
<1>1. CASE Creation
  BY <1>1 DEF Creation
<1>2. CASE RunRequest
  BY <1>2 DEF RunRequest, Next, Step
<1>3. CASE \E w \in Workers : RunCall(w)
  BY <1>3 DEF RunCall, Next, Step
<1>4. CASE Confirmation
  BY <1>4 DEF Confirmation, Next, Step
<1>5. CASE PublicationRequest \/ \E w \in Workers : PublicationCall(w)
  BY <1>5 DEF PublicationRequest, PublicationCall
<1>6. CASE Failure
  BY <1>6 DEF Failure, Next, Fault
<1>7. CASE Restart
  BY <1>7 DEF Restart, Next, Fault
<1>8. CASE UNCHANGED allVars
  BY <1>8 DEF allVars, vars
<1>9. QED
  BY <1>1, <1>2, <1>3, <1>4, <1>5, <1>6, <1>7, <1>8 DEF SystemNext, SystemStep

\* The service does to its runs only what RunService lets it: creations and
\* publications, their failures and restarts included, are stuttering steps
\* of the runs.
THEOREM SystemRuns == SystemSpec => Spec
<1>1. SystemInit => Init
  BY DEF SystemInit
<1>2. [SystemNext]_allVars => [Next]_vars
  BY SystemRunSteps
<1>3. QED
  BY <1>1, <1>2, PTL DEF SystemSpec, Spec

\* What RunService guarantees of layering and of the stored rows it guarantees
\* inside the service.
THEOREM SystemKeepsRuns ==
    SystemSpec => [](TypeOK /\ LayeringSerial /\ CompletenessAgrees)
BY SystemRuns, TypeCorrect, LockIsExact, CompletenessIsOne, PTL

-----------------------------------------------------------------------------
(* The registry *)

\* A creation got to the database with units that are known.
Known == {request \in Requests : request.units \in Units}

Creations ==
    {Registry!Idle}
      \cup [pc : {"lookup", "insert"}, request : Known]
      \cup [pc : {"reply"}, request : Known, id : Nat, fault : BOOLEAN]

RegistryTyped == rows \in Seq(Known) /\ creates \in [Creators -> Creations]

\* The answer of a creation is right for the rows R.
Answered(call, R) ==
    call.pc = "reply" =>
        LET found == {i \in DOMAIN R : R[i].code = call.request.code}
        IN  \/ call.id \in found
            \/ call.id = 0 /\ (call.fault \/ found # {})

RegistryInv == RegistryTyped /\ OneRunPerCode /\ CreationAnswers

RegistryStep ==
    \/ \E c \in Creators : Registry!Begin(c) \/ Registry!Continue(c) \/ Registry!Fail(c)
    \/ Registry!Crash
    \/ UNCHANGED <<rows, creates>>

LEMMA SystemRegistrySteps ==
    ASSUME [SystemNext]_allVars
    PROVE  RegistryStep
<1>1. CASE Creation
  BY <1>1 DEF Creation, RegistryStep
<1>2. CASE Failure
  BY <1>2 DEF Failure, RegistryStep
<1>3. CASE Restart
  BY <1>3 DEF Restart, RegistryStep
<1>4. QED
  BY <1>1, <1>2, <1>3 DEF SystemNext, SystemStep, RunRequest, RunCall, Confirmation,
     PublicationRequest, PublicationCall, allVars, RegistryStep

\* Rows are only ever added.
RowsStay == \A r \in DOMAIN rows : r \in DOMAIN rows' /\ rows'[r] = rows[r]

LEMMA StillAnswered ==
    ASSUME RowsStay, NEW call, Answered(call, rows)
    PROVE  Answered(call, rows')
BY DEF RowsStay, Answered

\* A step that gives one creation an answer that is right, or none.
LEMMA OneAnswer ==
    ASSUME RegistryInv, RowsStay,
           NEW c \in Creators, NEW call \in Creations, Registry!Set(c, call),
           Answered(call, rows')
    PROVE  creates' \in [Creators -> Creations] /\ CreationAnswers'
<1>1. creates \in [Creators -> Creations]
  BY DEF RegistryInv, RegistryTyped
<1>2. \A d \in Creators : creates'[d] = call \/ creates'[d] = creates[d]
  BY <1>1 DEF Registry!Set
<1>3. \A d \in Creators : Answered(creates[d], rows)
  BY DEF RegistryInv, CreationAnswers, Registry!CreationAnswers, Answered
<1>4. \A d \in Creators : Answered(creates'[d], rows')
  BY <1>2, <1>3, StillAnswered
<1>5. CreationAnswers'
  BY <1>4 DEF CreationAnswers, Registry!CreationAnswers, Answered
<1>6. QED
  BY <1>1, <1>5 DEF Registry!Set

\* A step that stores no run.
LEMMA NoNewRow ==
    ASSUME RegistryInv, UNCHANGED rows,
           NEW c \in Creators, NEW call \in Creations, Registry!Set(c, call),
           Answered(call, rows)
    PROVE  RegistryInv' /\ RowsStay
<1>1. RowsStay
  BY DEF RowsStay
<1>2. creates' \in [Creators -> Creations] /\ CreationAnswers'
  BY <1>1, OneAnswer
<1>3. OneRunPerCode'
  BY DEF RegistryInv, OneRunPerCode, Registry!OneRunPerCode
<1>4. QED
  BY <1>1, <1>2, <1>3 DEF RegistryInv, RegistryTyped

\* A run stored under a new code, and answered with, keeps it in order.
LEMMA NewRow ==
    ASSUME RegistryInv, NEW c \in Creators, NEW request \in Known,
           \A i \in DOMAIN rows : rows[i].code # request.code,
           rows' = Append(rows, request),
           Registry!Set(c, [pc |-> "reply", request |-> request,
                            id |-> Len(rows) + 1, fault |-> FALSE])
    PROVE  RegistryInv' /\ RowsStay
<1> DEFINE call == [pc |-> "reply", request |-> request, id |-> Len(rows) + 1,
                    fault |-> FALSE]
<1>1. rows \in Seq(Known)
  BY DEF RegistryInv, RegistryTyped
<1>2. /\ Len(rows) \in Nat
      /\ rows' \in Seq(Known)
      /\ DOMAIN rows = 1..Len(rows)
      /\ DOMAIN rows' = 1..(Len(rows) + 1)
      /\ rows'[Len(rows) + 1] = request
      /\ \A i \in DOMAIN rows : rows'[i] = rows[i]
  BY <1>1
<1>3. RowsStay
  BY <1>2 DEF RowsStay
<1>4. call \in Creations
  BY <1>2 DEF Creations
<1>5. Answered(call, rows')
  BY <1>2 DEF Answered
<1>6. Registry!Set(c, call)
  OBVIOUS
<1> HIDE DEF call
<1>7. creates' \in [Creators -> Creations] /\ CreationAnswers'
  BY <1>3, <1>4, <1>5, <1>6, OneAnswer
<1>8. OneRunPerCode'
  BY <1>2 DEF RegistryInv, OneRunPerCode, Registry!OneRunPerCode
<1>9. QED
  BY <1>2, <1>3, <1>7, <1>8 DEF RegistryInv, RegistryTyped

LEMMA RegistrySteps ==
    ASSUME RegistryInv, RegistryStep
    PROVE  RegistryInv' /\ RowsStay
<1>1. rows \in Seq(Known) /\ creates \in [Creators -> Creations]
  BY DEF RegistryInv, RegistryTyped
<1>2. ASSUME NEW c \in Creators, Registry!Begin(c)
      PROVE  RegistryInv' /\ RowsStay
  <2>1. PICK request \in Requests : Registry!CreateBegin(c, request)
    BY <1>2 DEF Registry!Begin
  <2> DEFINE call == [pc |-> "lookup", request |-> request]
  <2>2. call \in Creations /\ Answered(call, rows)
    BY <2>1 DEF Creations, Known, Answered, Registry!CreateBegin
  <2>3. Registry!Set(c, call) /\ UNCHANGED rows
    BY <2>1 DEF Registry!CreateBegin
  <2>4. QED
    BY <2>2, <2>3, NoNewRow
<1>3. ASSUME NEW c \in Creators, Registry!GetWellRunByCode(c)
      PROVE  RegistryInv' /\ RowsStay
  <2> DEFINE request == creates[c].request
             missed  == [pc |-> "insert", request |-> request]
             hit(i)  == [pc |-> "reply", request |-> request, id |-> i, fault |-> FALSE]
  <2>1. request \in Known
    BY <1>1, <1>3 DEF Registry!GetWellRunByCode, Creations, Registry!Idle
  <2>2. UNCHANGED rows
    BY <1>3 DEF Registry!GetWellRunByCode
  <2>3. CASE Registry!Set(c, missed)
    <3>1. missed \in Creations /\ Answered(missed, rows)
      BY <2>1 DEF Creations, Answered
    <3>2. QED
      BY <2>2, <2>3, <3>1, NoNewRow
  <2>4. ASSUME NEW i \in DOMAIN rows, rows[i].code = request.code, Registry!Set(c, hit(i))
        PROVE  RegistryInv' /\ RowsStay
    <3>1. i \in Nat
      BY <1>1
    <3>2. hit(i) \in Creations
      BY <2>1, <3>1 DEF Creations
    <3>3. Answered(hit(i), rows)
      BY <2>4 DEF Answered
    <3>4. QED
      BY <2>2, <2>4, <3>2, <3>3, NoNewRow
  <2>5. QED
    BY <1>3, <2>3, <2>4 DEF Registry!GetWellRunByCode, Registry!Reply
<1>4. ASSUME NEW c \in Creators, Registry!InsertWellRun(c)
      PROVE  RegistryInv' /\ RowsStay
  <2> DEFINE request == creates[c].request
             refused == [pc |-> "reply", request |-> request, id |-> 0, fault |-> FALSE]
  <2>1. request \in Known
    BY <1>1, <1>4 DEF Registry!InsertWellRun, Creations, Registry!Idle
  <2>2. CASE /\ \E i \in DOMAIN rows : rows[i].code = request.code
             /\ Registry!Reply(c, 0, FALSE) /\ UNCHANGED rows
    <3>1. refused \in Creations
      BY <2>1 DEF Creations
    <3>2. Registry!Set(c, refused)
      BY <2>2 DEF Registry!Reply
    <3>3. Answered(refused, rows)
      BY <2>2 DEF Answered
    <3>4. QED
      BY <2>2, <3>1, <3>2, <3>3, NoNewRow
  <2>3. CASE /\ ~\E i \in DOMAIN rows : rows[i].code = request.code
             /\ Registry!Reply(c, Len(rows) + 1, FALSE)
             /\ rows' = Append(rows, request)
    BY <2>1, <2>3, NewRow DEF Registry!Reply
  <2>4. QED
    BY <1>4, <2>2, <2>3 DEF Registry!InsertWellRun
<1>5. ASSUME NEW c \in Creators, Registry!Done(c)
      PROVE  RegistryInv' /\ RowsStay
  <2>1. Registry!Idle \in Creations /\ Answered(Registry!Idle, rows)
    BY DEF Creations, Registry!Idle, Answered
  <2>2. Registry!Set(c, Registry!Idle) /\ UNCHANGED rows
    BY <1>5 DEF Registry!Done
  <2>3. QED
    BY <2>1, <2>2, NoNewRow
<1>6. ASSUME NEW c \in Creators, Registry!Fail(c)
      PROVE  RegistryInv' /\ RowsStay
  <2> DEFINE request == creates[c].request
             missed  == [pc |-> "insert", request |-> request]
             failed  == [pc |-> "reply", request |-> request, id |-> 0, fault |-> TRUE]
  <2>1. request \in Known
    <3>1. creates[c].pc \in {"lookup", "insert"}
      BY <1>6 DEF Registry!Fail
    <3>2. QED
      BY <1>1, <3>1 DEF Creations, Registry!Idle
  <2>2. missed \in Creations /\ failed \in Creations
    BY <2>1 DEF Creations
  <2>3. Answered(missed, rows) /\ Answered(failed, rows)
    BY DEF Answered
  <2>4. UNCHANGED rows
    BY <1>6 DEF Registry!Fail
  <2>5. Registry!Set(c, missed) \/ Registry!Set(c, failed)
    BY <1>6 DEF Registry!Fail, Registry!Reply
  <2>6. QED
    BY <2>2, <2>3, <2>4, <2>5, NoNewRow
<1>7. CASE Registry!Crash
  <2>1. \A c \in Creators : creates'[c].pc # "reply"
    BY <1>7 DEF Registry!Crash, Registry!Idle
  <2>2. RegistryInv'
    BY <1>7, <2>1 DEF Registry!Crash, RegistryInv, RegistryTyped, Creations, OneRunPerCode,
                      Registry!OneRunPerCode, CreationAnswers, Registry!CreationAnswers
  <2>3. QED
    BY <1>7, <2>2 DEF Registry!Crash, RowsStay
<1>8. CASE UNCHANGED <<rows, creates>>
  BY <1>8 DEF RegistryInv, RegistryTyped, OneRunPerCode, Registry!OneRunPerCode,
              CreationAnswers, Registry!CreationAnswers, RowsStay
<1>9. QED
  BY <1>2, <1>3, <1>4, <1>5, <1>6, <1>7, <1>8 DEF RegistryStep, Registry!Continue

LEMMA RegistryInvariant == SystemSpec => []RegistryInv
<1>1. SystemInit => RegistryInv
  BY DEF SystemInit, Registry!Init, Registry!Idle, RegistryInv, RegistryTyped, Creations,
         OneRunPerCode, Registry!OneRunPerCode, CreationAnswers, Registry!CreationAnswers
<1>2. RegistryInv /\ [SystemNext]_allVars => RegistryInv'
  BY SystemRegistrySteps, RegistrySteps
<1>3. QED
  BY <1>1, <1>2, PTL DEF SystemSpec

\* However many creations overlap, fail in their lookups or are cut off by
\* restarts, a code has one run.
THEOREM CodesAreUnique == SystemSpec => []OneRunPerCode
<1>1. RegistryInv => OneRunPerCode
  BY DEF RegistryInv
<1>2. QED
  BY <1>1, RegistryInvariant, PTL

\* A creation is answered with the run of its code, or with an error only when
\* that code has a run or a statement of the creation failed.
THEOREM CreationsAnswered == SystemSpec => []CreationAnswers
<1>1. RegistryInv => CreationAnswers
  BY DEF RegistryInv
<1>2. QED
  BY <1>1, RegistryInvariant, PTL

-----------------------------------------------------------------------------
(* The publications *)

Fields(c) ==
    c \in [pc : {c.pc}, baseline : {c.baseline}, target : {c.target},
           disturbed : {c.disturbed}, tops : {c.tops}, detail : {c.detail},
           version : {c.version}, id : {c.id}]

Columns(s) ==
    s \in [id : {s.id}, well : {s.well}, version : {s.version}, state : {s.state},
           baseline : {s.baseline}, target : {s.target}, detail : {s.detail}]

\* A publication is of a registered run, and of two of one well once that was
\* checked.
OfRegistered(c) ==
    c # Publication!Idle =>
        /\ Fields(c)
        /\ c.baseline \in Runs \cap DOMAIN rows
        /\ c.target \in Runs
        /\ c.pc # "get_t" => /\ c.target \in DOMAIN rows
                             /\ rows[c.baseline].well = rows[c.target].well

OfOneWell(s) ==
    /\ Columns(s)
    /\ s.baseline \in DOMAIN rows /\ rows[s.baseline].well = s.well
    /\ s.target \in DOMAIN rows /\ rows[s.target].well = s.well

WellInv ==
    /\ publications = [w \in Workers |-> publications[w]]
    /\ \A w \in Workers : OfRegistered(publications[w])
    /\ \A s \in snapshots : OfOneWell(s)

View == [r \in Runs |-> [well        |-> Row(r).well,
                         units       |-> Row(r).units,
                         disturbance |-> run[r].disturbance,
                         tops        |-> BoundariesFromSegments(r)]]

\* A run has a well when it is registered.
LEMMA WellsOfRows ==
    ASSUME RegistryInv, NEW r \in Runs
    PROVE  /\ View[r].well = Row(r).well /\ View[r].units = Row(r).units
           /\ Row(r).well # None <=> r \in DOMAIN rows
           /\ r \in DOMAIN rows =>
                 Row(r) = rows[r] /\ Row(r).well \in Wells /\ Row(r).units \in Units
<1>1. \A i \in DOMAIN rows : rows[i] \in Known
  BY DEF RegistryInv, RegistryTyped
<1>2. r \in DOMAIN rows => rows[r].well # None
  BY <1>1, GeowellAssumption DEF Known
<1>3. QED
  BY <1>1, <1>2 DEF View, Row, Wells, Known

\* While rows stay, what is known of a call and of a snapshot stays.
LEMMA StillSo ==
    ASSUME RowsStay
    PROVE  /\ \A c : OfRegistered(c) => OfRegistered(c)'
           /\ \A s : OfOneWell(s) => OfOneWell(s)'
BY DEF RowsStay, OfRegistered, OfOneWell, Fields, Columns, Publication!Idle

\* A step of the publications changes one call, and stores or restates
\* snapshots of one well.
LEMMA PublicationMoves ==
    ASSUME WellInv, UNCHANGED rows, NEW w \in Workers, NEW c, OfRegistered(c),
           Publication!Set(w, c),
           \A t \in snapshots' :
               \/ t \in snapshots
               \/ OfOneWell(t)
               \/ \E s \in snapshots : \E st : t = [s EXCEPT !.state = st]
    PROVE  WellInv'
<1>1. RowsStay
  BY DEF RowsStay
<1>2. publications' = [publications EXCEPT ![w] = c]
  BY DEF Publication!Set
<1>3. publications' = [v \in Workers |-> publications'[v]]
  BY <1>2 DEF WellInv
<1>4. \A v \in Workers : publications'[v] = c \/ publications'[v] = publications[v]
  BY <1>2 DEF WellInv
<1>5. \A v \in Workers : OfRegistered(publications'[v])
  BY <1>4 DEF WellInv
<1>6. ASSUME NEW s \in snapshots, NEW st
      PROVE  OfOneWell([s EXCEPT !.state = st])
  BY DEF WellInv, OfOneWell, Columns
<1>7. \A t \in snapshots' : OfOneWell(t)
  BY <1>6 DEF WellInv
<1>8. \A v \in Workers : OfRegistered(publications[v])'
  BY <1>5 DEF OfRegistered, Fields, Publication!Idle
<1>9. \A t \in snapshots' : OfOneWell(t)'
  BY <1>1, <1>7, StillSo
<1>10. QED
  BY <1>3, <1>8, <1>9 DEF WellInv

LEMMA BeginMove ==
    ASSUME RegistryInv, WellInv, UNCHANGED rows, NEW w \in Workers, NEW pair \in Pairs,
           Publication!PublishBegin(w, pair)
    PROVE  WellInv'
<1> DEFINE flag == View[pair[1]].disturbance
           c == [pc |-> "get_t", baseline |-> pair[1], target |-> pair[2],
                 disturbed |-> flag, tops |-> <<>>, detail |-> <<>>,
                 version |-> 0, id |-> 0]
<1>1. Publication!Set(w, c) /\ UNCHANGED snapshots /\ View[pair[1]].well # None
  BY DEF Publication!PublishBegin, Publication!Registered, View
<1>2. pair[1] \in Runs \cap DOMAIN rows /\ pair[2] \in Runs
  BY <1>1, GeowellAssumption, WellsOfRows
<1> HIDE DEF flag
<1>3. OfRegistered(c)
  BY <1>2 DEF OfRegistered, Fields
<1> HIDE DEF c
<1>4. QED
  BY <1>1, <1>3, PublicationMoves

\* Returning, whatever was restated.
LEMMA ReturnMove ==
    ASSUME WellInv, UNCHANGED rows, NEW w \in Workers, Publication!Return(w),
           \A t \in snapshots' :
               t \in snapshots \/ \E s \in snapshots : \E st : t = [s EXCEPT !.state = st]
    PROVE  WellInv'
<1>1. OfRegistered(Publication!Idle)
  BY DEF OfRegistered
<1>2. QED
  BY <1>1, PublicationMoves DEF Publication!Return

\* Going on to a later label with other local variables, whatever was restated.
LEMMA OnwardMove ==
    ASSUME WellInv, UNCHANGED rows, NEW w \in Workers, NEW c,
           publications[w].pc \notin {"idle", "get_t"},
           c.baseline = publications[w].baseline, c.target = publications[w].target,
           Fields(c), Publication!Set(w, c),
           \A t \in snapshots' :
               \/ t \in snapshots
               \/ OfOneWell(t)
               \/ \E s \in snapshots : \E st : t = [s EXCEPT !.state = st]
    PROVE  WellInv'
<1>1. OfRegistered(c)
  BY DEF WellInv, OfRegistered, Publication!Idle
<1>2. QED
  BY <1>1, PublicationMoves

LEMMA ReadTargetMove ==
    ASSUME RegistryInv, WellInv, UNCHANGED rows, NEW w \in Workers,
           Publication!ReadTarget(w)
    PROVE  WellInv'
<1> DEFINE c == publications[w]
           flag == View[c.target].disturbance
           d == [c EXCEPT !.pc = "list_b", !.disturbed = @ \/ flag]
<1>1. c # Publication!Idle
  BY DEF Publication!ReadTarget, Publication!Idle
<1>2. /\ Fields(c)
      /\ c.baseline \in Runs \cap DOMAIN rows
      /\ c.target \in Runs
  BY <1>1 DEF WellInv, OfRegistered
<1>3. UNCHANGED snapshots
  BY DEF Publication!ReadTarget
<1>4. CASE Publication!Return(w)
  BY <1>3, <1>4, ReturnMove
<1>5. CASE Publication!Comparable(c.baseline, c.target) /\ Publication!Set(w, d)
  <2>1. Row(c.baseline).well = Row(c.target).well
    BY <1>2, <1>5 DEF Publication!Comparable
  <2>2. c.target \in DOMAIN rows /\ rows[c.baseline].well = rows[c.target].well
    BY <1>2, <2>1, WellsOfRows
  <2> HIDE DEF flag
  <2>3. Fields(d) /\ d.baseline = c.baseline /\ d.target = c.target
    BY <1>2 DEF Fields
  <2>4. OfRegistered(d)
    BY <1>2, <2>2, <2>3 DEF OfRegistered
  <2>5. Publication!Set(w, d)
    BY <1>5
  <2> HIDE DEF d
  <2>6. QED
    BY <1>3, <2>4, <2>5, PublicationMoves
<1>6. QED
  BY <1>4, <1>5 DEF Publication!ReadTarget, View

\* A call that goes on keeps its fields and its runs.
LEMMA Onward ==
    ASSUME NEW c, Fields(c), NEW pc, NEW x
    PROVE  /\ LET d == [c EXCEPT !.pc = pc]
              IN  Fields(d) /\ d.baseline = c.baseline /\ d.target = c.target
           /\ LET d == [c EXCEPT !.pc = pc, !.tops = x]
              IN  Fields(d) /\ d.baseline = c.baseline /\ d.target = c.target
           /\ LET d == [c EXCEPT !.pc = pc, !.detail = x]
              IN  Fields(d) /\ d.baseline = c.baseline /\ d.target = c.target
           /\ LET d == [c EXCEPT !.pc = pc, !.version = x]
              IN  Fields(d) /\ d.baseline = c.baseline /\ d.target = c.target
           /\ LET d == [c EXCEPT !.pc = pc, !.id = x]
              IN  Fields(d) /\ d.baseline = c.baseline /\ d.target = c.target
BY DEF Fields

LEMMA CreateMove ==
    ASSUME WellInv, UNCHANGED rows, NEW w \in Workers, Publication!CreateSnapshot(w)
    PROVE  WellInv'
<1> DEFINE c == publications[w]
           d == Publication!Draft(c)
           e == [c EXCEPT !.pc = "review", !.id = d.id]
<1>1. c # Publication!Idle /\ c.pc = "create"
  BY DEF Publication!CreateSnapshot, Publication!Idle
<1>2. /\ Fields(c)
      /\ c.baseline \in Runs \cap DOMAIN rows
      /\ c.target \in Runs \cap DOMAIN rows
      /\ rows[c.baseline].well = rows[c.target].well
  BY <1>1 DEF WellInv, OfRegistered
<1>3. CASE Publication!Return(w) /\ UNCHANGED snapshots
  BY <1>3, ReturnMove
<1>4. CASE snapshots' = snapshots \cup {d} /\ Publication!Set(w, e)
  <2>1. d.well = Row(c.baseline).well /\ d.baseline = c.baseline /\ d.target = c.target
    BY <1>2 DEF Publication!Draft
  <2>2. Columns(d)
    BY DEF Publication!Draft, Columns
  <2>3. OfOneWell(d)
    BY <1>2, <2>1, <2>2 DEF OfOneWell, Row
  <2> HIDE DEF d
  <2>4. Fields(e) /\ e.baseline = c.baseline /\ e.target = c.target
    BY <1>2 DEF Fields
  <2> HIDE DEF e
  <2>5. QED
    BY <1>1, <1>4, <2>3, <2>4, OnwardMove
<1>5. QED
  BY <1>3, <1>4 DEF Publication!CreateSnapshot

LEMMA PublicationSteps ==
    ASSUME RegistryInv, WellInv, UNCHANGED rows, NEW w \in Workers,
           Publication!Continue(w) \/ Publication!Fail(w)
    PROVE  WellInv'
<1> DEFINE c == publications[w]
<1>1. c # Publication!Idle => Fields(c)
  BY DEF WellInv, OfRegistered
<1>2. ASSUME NEW d, Publication!Set(w, d), c.pc \notin {"idle", "get_t"},
             Fields(d) /\ d.baseline = c.baseline /\ d.target = c.target,
             \A t \in snapshots' :
                 t \in snapshots \/ \E s \in snapshots : \E st : t = [s EXCEPT !.state = st]
      PROVE  WellInv'
  BY <1>2, OnwardMove
<1>3. CASE Publication!ListBaseline(w)
  <2>1. PICK x : Publication!Set(w, [c EXCEPT !.pc = "list_t", !.tops = x])
    BY <1>3 DEF Publication!ListBaseline
  <2>2. UNCHANGED snapshots /\ c.pc \notin {"idle", "get_t"} /\ c # Publication!Idle
    BY <1>3 DEF Publication!ListBaseline, Publication!Idle
  <2>3. QED
    BY <1>1, <1>2, <2>1, <2>2, Onward
<1>4. CASE Publication!ListTarget(w)
  <2>1. \/ \E x : Publication!Set(w, [c EXCEPT !.pc = "latest", !.detail = x])
        \/ Publication!Return(w)
    BY <1>4 DEF Publication!ListTarget
  <2>2. UNCHANGED snapshots /\ c.pc \notin {"idle", "get_t"} /\ c # Publication!Idle
    BY <1>4 DEF Publication!ListTarget, Publication!Idle
  <2>3. QED
    BY <1>1, <1>2, <2>1, <2>2, Onward, ReturnMove
<1>5. CASE Publication!LatestVersion(w)
  <2>1. PICK x : Publication!Set(w, [c EXCEPT !.pc = "create", !.version = x])
    BY <1>5 DEF Publication!LatestVersion
  <2>2. UNCHANGED snapshots /\ c.pc \notin {"idle", "get_t"} /\ c # Publication!Idle
    BY <1>5 DEF Publication!LatestVersion, Publication!Idle
  <2>3. QED
    BY <1>1, <1>2, <2>1, <2>2, Onward
<1>6. CASE Publication!SubmitForReview(w)
  <2>1. /\ snapshots' = Publication!UpdateSnapshotState(c.id, "under_review")
        /\ Publication!Return(w) \/ Publication!Set(w, [c EXCEPT !.pc = "supersede"])
    BY <1>6 DEF Publication!SubmitForReview, Publication!Goto
  <2>2. c.pc \notin {"idle", "get_t"} /\ c # Publication!Idle
    BY <1>6 DEF Publication!SubmitForReview, Publication!Idle
  <2>3. \A t \in snapshots' :
           t \in snapshots \/ \E s \in snapshots : \E st : t = [s EXCEPT !.state = st]
    BY <2>1 DEF Publication!UpdateSnapshotState
  <2>4. QED
    BY <1>1, <1>2, <2>1, <2>2, <2>3, Onward, ReturnMove
<1>7. CASE Publication!SupersedePublished(w)
  <2>1. PICK well : snapshots' = Publication!SupersedeOthers(well, c.id)
    BY <1>7 DEF Publication!SupersedePublished
  <2>2. Publication!Set(w, [c EXCEPT !.pc = "publish"])
    BY <1>7 DEF Publication!SupersedePublished, Publication!Goto
  <2>3. c.pc \notin {"idle", "get_t"} /\ c # Publication!Idle
    BY <1>7 DEF Publication!SupersedePublished, Publication!Idle
  <2>4. \A t \in snapshots' :
           t \in snapshots \/ \E s \in snapshots : \E st : t = [s EXCEPT !.state = st]
    BY <2>1 DEF Publication!SupersedeOthers
  <2>5. QED
    BY <1>1, <1>2, <2>2, <2>3, <2>4, Onward
<1>8. CASE Publication!Publish(w)
  <2>1. /\ snapshots' = Publication!UpdateSnapshotState(c.id, "published")
        /\ Publication!Return(w)
    BY <1>8 DEF Publication!Publish
  <2>2. \A t \in snapshots' :
           t \in snapshots \/ \E s \in snapshots : \E st : t = [s EXCEPT !.state = st]
    BY <2>1 DEF Publication!UpdateSnapshotState
  <2>3. QED
    BY <2>1, <2>2, ReturnMove
<1>9. CASE Publication!Fail(w)
  BY <1>9, ReturnMove DEF Publication!Fail
<1>10. QED
  BY <1>3, <1>4, <1>5, <1>6, <1>7, <1>8, <1>9, ReadTargetMove, CreateMove
     DEF Publication!Continue

\* Other steps leave the publications as they are, or give them up.
LEMMA NoPublication ==
    ASSUME WellInv, RowsStay, UNCHANGED snapshots,
           UNCHANGED publications \/ publications' = [w \in Workers |-> Publication!Idle]
    PROVE  WellInv'
<1>1. publications' = [w \in Workers |-> publications'[w]]
  BY DEF WellInv
<1>2. ASSUME NEW w \in Workers
      PROVE  OfRegistered(publications[w])'
  <2>1. PICK c : c = publications'[w]
    OBVIOUS
  <2>2. OfRegistered(c)
    BY <2>1 DEF WellInv, OfRegistered
  <2>3. OfRegistered(c)'
    BY <2>2, StillSo
  <2>4. QED
    BY <2>1, <2>3 DEF OfRegistered, Fields, Publication!Idle
<1>3. \A s \in snapshots' : OfOneWell(s)'
  BY StillSo DEF WellInv
<1>4. QED
  BY <1>1, <1>2, <1>3 DEF WellInv

LEMMA WellSteps ==
    ASSUME RegistryInv, WellInv, [SystemNext]_allVars
    PROVE  WellInv'
<1>1. RowsStay
  BY SystemRegistrySteps, RegistrySteps
<1>2. ASSUME UNCHANGED <<snapshots, publications>>
      PROVE  WellInv'
  BY <1>1, <1>2, NoPublication
<1>3. CASE Failure
  BY <1>2, <1>3, PublicationSteps DEF Failure
<1>4. CASE Restart
  BY <1>1, <1>4, NoPublication DEF Restart, Publication!Crash
<1>5. CASE PublicationRequest
  BY <1>5, BeginMove DEF PublicationRequest
<1>6. CASE \E w \in Workers : PublicationCall(w)
  BY <1>6, PublicationSteps DEF PublicationCall
<1>7. QED
  BY <1>2, <1>3, <1>4, <1>5, <1>6
     DEF SystemNext, SystemStep, Creation, RunRequest, RunCall, Confirmation, allVars

\* Whichever runs are registered, under whichever codes and wells and however
\* creations overlap or are cut off, a snapshot is of two runs of its well.
THEOREM SnapshotsHaveOneWell == SystemSpec => []SnapshotsOfOneWell
<1>1. SystemInit => WellInv
  BY DEF SystemInit, WellInv, OfRegistered
<1>2. RegistryInv /\ WellInv /\ [SystemNext]_allVars => WellInv'
  BY WellSteps
<1>3. WellInv => SnapshotsOfOneWell
  BY DEF WellInv, OfOneWell, SnapshotsOfOneWell
<1>4. QED
  BY <1>1, <1>2, <1>3, RegistryInvariant, PTL DEF SystemSpec

-----------------------------------------------------------------------------
(* What publications see of the runs *)

\* The rows of a run are numbered from 1, without a hole or a duplicate.
Indexed(rs) ==
    /\ \E n \in Nat : {s.idx : s \in rs} = 1..n
    /\ \A s, t \in rs : s.idx = t.idx => s = t

TopsOf(rs) == [i \in 1..Cardinality(rs) |-> (CHOOSE s \in rs : s.idx = i).top]

LEMMA CountIndexed ==
    ASSUME NEW rs, Indexed(rs), NEW n \in Nat, {s.idx : s \in rs} = 1..n
    PROVE  Cardinality(rs) = n
<1> DEFINE f == [s \in rs |-> s.idx]
<1>1. f \in Injection(rs, 1..n) /\ f \in Surjection(rs, 1..n)
  BY DEF Injection, Surjection, IsInjective, Indexed
<1> HIDE DEF f
<1>2. IsFiniteSet(1..n) /\ Cardinality(1..n) = n
  BY FS_Interval
<1>3. f \in Bijection(rs, 1..n)
  BY <1>1 DEF Bijection
<1>4. QED
  BY <1>1, <1>2, FS_Injection

LEMMA NewTops ==
    ASSUME NEW last \in Nat, NEW shape \in Seq(FoundSegment)
    PROVE  /\ Indexed(SegmentRows(last, shape))
           /\ TopsOf(SegmentRows(last, shape)) = [i \in 1..Len(shape) |-> shape[i].top]
<1> DEFINE rs == SegmentRows(last, shape)
           row(i) == [id |-> last + i, idx |-> i, top |-> shape[i].top,
                      state |-> shape[i].state, confirmed |-> FALSE]
<1>1. PICK n \in Nat : n = Len(shape)
  OBVIOUS
<1>2. rs = {row(i) : i \in 1..n}
  BY <1>1 DEF SegmentRows
<1>3. \A i \in 1..n : row(i).idx = i /\ row(i).top = shape[i].top
  OBVIOUS
<1> HIDE DEF rs, row
<1>4. {s.idx : s \in rs} = 1..n
  BY <1>2, <1>3
<1>5. \A s, t \in rs : s.idx = t.idx => s = t
  BY <1>2, <1>3
<1>6. Indexed(rs)
  BY <1>4, <1>5 DEF Indexed
<1>7. Cardinality(rs) = n
  BY <1>4, <1>6, CountIndexed
<1>8. \A i \in 1..n : (CHOOSE s \in rs : s.idx = i) = row(i)
  BY <1>2, <1>3
<1>9. \A i \in 1..n : (CHOOSE s \in rs : s.idx = i).top = shape[i].top
  BY <1>3, <1>8
<1>10. TopsOf(rs) = [i \in 1..n |-> shape[i].top]
  BY <1>7, <1>9 DEF TopsOf
<1>11. QED
  BY <1>1, <1>6, <1>10 DEF rs

\* A confirmation leaves the places of segments alone.
LEMMA ConfirmTops ==
    ASSUME NEW rs \in SUBSET Segment, Indexed(rs), NEW id, NEW st
    PROVE  LET qs == UpdateSegmentState(rs, id, st)
           IN  Indexed(qs) /\ TopsOf(qs) = TopsOf(rs)
<1> DEFINE qs == UpdateSegmentState(rs, id, st)
           upd(s) == IF s.id = id
                     THEN [s EXCEPT !.state = st, !.confirmed = (st = "confirmed")]
                     ELSE s
<1>1. qs = {upd(s) : s \in rs}
  BY DEF UpdateSegmentState
<1>2. \A s \in rs : upd(s).idx = s.idx /\ upd(s).top = s.top
  BY DEF Segment
<1> HIDE DEF qs, upd
<1>3. PICK n \in Nat : {s.idx : s \in rs} = 1..n
  BY DEF Indexed
<1>4. {s.idx : s \in qs} = 1..n
  BY <1>1, <1>2, <1>3
<1>5. \A s, t \in qs : s.idx = t.idx => s = t
  BY <1>1, <1>2 DEF Indexed
<1>6. Indexed(qs)
  BY <1>4, <1>5 DEF Indexed
<1>7. Cardinality(qs) = n /\ Cardinality(rs) = n
  BY <1>3, <1>4, <1>6, CountIndexed
<1>8. ASSUME NEW i \in 1..n
      PROVE  (CHOOSE s \in qs : s.idx = i).top = (CHOOSE s \in rs : s.idx = i).top
  <2>1. PICK s \in rs : s.idx = i
    BY <1>3
  <2>2. (CHOOSE t \in rs : t.idx = i) = s
    BY <2>1 DEF Indexed
  <2>3. upd(s) \in qs /\ upd(s).idx = i
    BY <1>1, <1>2, <2>1
  <2>4. (CHOOSE t \in qs : t.idx = i) = upd(s)
    BY <1>5, <2>3
  <2>5. QED
    BY <1>2, <2>2, <2>4
<1>9. TopsOf(qs) = TopsOf(rs)
  BY <1>7, <1>8 DEF TopsOf
<1>10. QED
  BY <1>6, <1>9 DEF qs

\* A call is on a registered run, and stores segments a pass may find.
Serves(c, registered) ==
    c.pc # "idle" => /\ c.run \in registered
                     /\ c.pc = "replace" => c.shape \in SegmentShapes

ViewInv ==
    /\ TypeInv /\ RegistryInv
    /\ \A r \in Runs : Indexed(segments[r])
    /\ \A w \in Workers : Serves(calls[w], DOMAIN rows)

\* The next call of a worker is on the run of the one before.
LEMMA CallGoesOn ==
    ASSUME TypeInv, NEW w \in Workers, Continue(w) \/ Fail(w)
    PROVE  /\ calls[w].pc # "idle"
           /\ \E c : /\ Set(w, c)
                     /\ c.pc # "idle" => c.run = calls[w].run
                     /\ c.pc = "replace" => c.shape \in SegmentShapes
<1> DEFINE c == calls[w]
           Good(d) == /\ d.pc # "idle" => d.run = c.run
                      /\ d.pc = "replace" => d.shape \in SegmentShapes
<1>1. c \in Call
  BY DEF TypeInv, TypeOK
<1>2. Good(NoCall)
  BY DEF NoCall
<1>3. \A pc : pc # "replace" =>
         /\ [c EXCEPT !.pc = pc].run = c.run /\ [c EXCEPT !.pc = pc].pc = pc
         /\ Good([c EXCEPT !.pc = pc])
  BY <1>1 DEF Call
<1>4. \A op, pc : pc # "replace" => Good([NoCall EXCEPT !.op = op, !.run = c.run, !.pc = pc])
  BY DEF NoCall
<1>5. \A pts, basis, disturbance :
         Good([c EXCEPT !.pc = "upsert", !.pts = pts, !.basis = basis,
                        !.disturbance = disturbance])
  BY <1>1 DEF Call
<1>6. \A shape \in SegmentShapes : Good([c EXCEPT !.pc = "replace", !.shape = shape])
  BY <1>1 DEF Call
<1>7. \A st : Good([c EXCEPT !.pc = "list", !.seen = st])
  BY <1>1 DEF Call
<1> HIDE DEF Good
<1>8. ASSUME NEW corrections, Propose(w, corrections)
      PROVE  \E d : Set(w, d) /\ Good(d)
  BY <1>2, <1>5, <1>8 DEF Propose, Return
<1>9. Abandon(w) => \E d : Set(w, d) /\ Good(d)
  BY <1>2, <1>3 DEF Abandon, Goto, Return
<1>10. ASSUME NEW ref \in References, CorrectCompute(w, ref)
       PROVE  c.pc # "idle" /\ \E d : Set(w, d) /\ Good(d)
  BY <1>8, <1>10 DEF CorrectCompute, At
<1>11. ASSUME NEW request \in PlanRequests, PlanCompute(w, request)
       PROVE  c.pc # "idle" /\ \E d : Set(w, d) /\ Good(d)
  BY <1>8, <1>11 DEF PlanCompute, At
<1>12. BulkUpsertPoints(w) => c.pc # "idle" /\ \E d : Set(w, d) /\ Good(d)
  BY <1>2, <1>3, <1>4 DEF BulkUpsertPoints, Begin, Goto, Return
<1>13. SetWellRunMeta(w) => c.pc # "idle" /\ \E d : Set(w, d) /\ Good(d)
  BY <1>2 DEF SetWellRunMeta, Return
<1>14. LayerGet(w) => c.pc # "idle" /\ \E d : Set(w, d) /\ Good(d)
  BY <1>7, <1>9 DEF LayerGet, At
<1>15. LayerCompute(w) => c.pc # "idle" /\ \E d : Set(w, d) /\ Good(d)
  BY <1>6, <1>9 DEF LayerCompute, At
<1>16. ReplaceSegments(w) => c.pc # "idle" /\ \E d : Set(w, d) /\ Good(d)
  BY <1>4 DEF ReplaceSegments, At, Begin
<1>17. TransitionGet(w) => c.pc # "idle" /\ \E d : Set(w, d) /\ Good(d)
  BY <1>3, <1>9 DEF TransitionGet, Goto
<1>18. UpdateWellRunState(w) => c.pc # "idle" /\ \E d : Set(w, d) /\ Good(d)
  BY <1>9 DEF UpdateWellRunState
<1>19. LayerRelease(w) => c.pc # "idle" /\ \E d : Set(w, d) /\ Good(d)
  BY <1>2 DEF LayerRelease, At, Return
<1>20. Fail(w) => c.pc # "idle" /\ \E d : Set(w, d) /\ Good(d)
  BY <1>9 DEF Fail
<1>21. c.pc # "idle" /\ \E d : Set(w, d) /\ Good(d)
  BY <1>10, <1>11, <1>12, <1>13, <1>14, <1>15, <1>16, <1>17, <1>18, <1>19, <1>20
     DEF Continue
<1>22. QED
  BY <1>21 DEF Good

\* A call begins in a step that reads no shape.
LEMMA CallBegins ==
    ASSUME NEW w \in Workers, Request(w)
    PROVE  UNCHANGED <<run, points, segments, lastSegID>>
              /\ \E c : Set(w, c) /\ c.pc # "replace"
<1>1. \A op, r, pc :
         pc # "replace" => [NoCall EXCEPT !.op = op, !.run = r, !.pc = pc].pc # "replace"
  BY DEF NoCall
<1>2. PICK r \in Runs :
         \/ \E batch \in Batches : IngestBegin(w, r, batch)
         \/ \E op \in {"correct", "plan"} : CorrectBegin(w, op, r)
         \/ LayerLock(w, r)
         \/ ArchiveBegin(w, r)
  BY DEF Request
<1>3. ASSUME NEW batch \in Batches, IngestBegin(w, r, batch)
      PROVE  StoreUnchanged /\ \E c : Set(w, c) /\ c.pc # "replace"
  <2> DEFINE c == [NoCall EXCEPT !.op = "ingest", !.run = r, !.pc = "upsert",
                                 !.seen = run[r].state, !.pts = ToMeasurePoints(batch)]
  <2>1. c.pc # "replace"
    BY DEF NoCall
  <2>2. Set(w, c) /\ StoreUnchanged
    BY <1>3 DEF IngestBegin
  <2> HIDE DEF c
  <2>3. QED
    BY <2>1, <2>2
<1>4. ASSUME NEW op \in {"correct", "plan"}, CorrectBegin(w, op, r)
      PROVE  StoreUnchanged /\ \E c : Set(w, c) /\ c.pc # "replace"
  <2> DEFINE c == [NoCall EXCEPT !.op = op, !.run = r, !.pc = "list",
                                 !.disturbance = run[r].disturbance]
  <2>1. c.pc # "replace"
    BY DEF NoCall
  <2>2. Set(w, c) /\ StoreUnchanged
    BY <1>4 DEF CorrectBegin
  <2> HIDE DEF c
  <2>3. QED
    BY <2>1, <2>2
<1>5. ASSUME NEW op, NEW pc, pc # "replace", Begin(w, op, r, pc)
      PROVE  \E c : Set(w, c) /\ c.pc # "replace"
  <2> DEFINE c == [NoCall EXCEPT !.op = op, !.run = r, !.pc = pc]
  <2>1. c.pc # "replace" /\ Set(w, c)
    BY <1>1, <1>5 DEF Begin
  <2> HIDE DEF c
  <2>2. QED
    BY <2>1
<1>6. LayerLock(w, r) => StoreUnchanged /\ Begin(w, "layer", r, "get")
  BY DEF LayerLock
<1>7. ArchiveBegin(w, r) => StoreUnchanged /\ Begin(w, "archive", r, "tr_get")
  BY DEF ArchiveBegin
<1>8. QED
  BY <1>2, <1>3, <1>4, <1>5, <1>6, <1>7 DEF StoreUnchanged

\* What is known of the calls and the segments stays known.
LEMMA ViewSteps ==
    ASSUME ViewInv, TypeInv', RegistryInv', RowsStay, [SystemNext]_allVars
    PROVE  ViewInv'
<1>1. calls = [w \in Workers |-> calls[w]] /\ segments \in [Runs -> SUBSET Segment]
  BY DEF ViewInv, TypeInv, TypeOK
<1>2. \A c : Serves(c, DOMAIN rows) => Serves(c, DOMAIN rows')
  BY DEF Serves, RowsStay
<1>3. ASSUME NEW w \in Workers, NEW c, Set(w, c), Serves(c, DOMAIN rows')
      PROVE  \A v \in Workers : Serves(calls'[v], DOMAIN rows')
  <2>1. ASSUME NEW v \in Workers
        PROVE  calls'[v] = c \/ calls'[v] = calls[v]
    BY <1>1, <1>3 DEF Set
  <2>2. \A v \in Workers : Serves(calls[v], DOMAIN rows)
    BY DEF ViewInv
  <2>3. QED
    BY <1>2, <1>3, <2>1, <2>2
<1>4. CASE \E w \in Workers : Continue(w) \/ Fail(w)
  <2>1. PICK w \in Workers : Continue(w) \/ Fail(w)
    BY <1>4
  <2>2. PICK c : /\ Set(w, c) /\ calls[w].pc # "idle"
                 /\ c.pc # "idle" => c.run = calls[w].run
                 /\ c.pc = "replace" => c.shape \in SegmentShapes
    BY <2>1, CallGoesOn DEF ViewInv
  <2>3. Serves(c, DOMAIN rows)
    BY <2>2 DEF ViewInv, Serves
  <2>4. \A v \in Workers : Serves(calls'[v], DOMAIN rows')
    BY <1>2, <1>3, <2>2, <2>3
  <2>5. ASSUME NEW r \in Runs
        PROVE  Indexed(segments'[r])
    <3>1. CASE UNCHANGED segments
      BY <3>1 DEF ViewInv
    <3>2. CASE ReplaceSegments(w)
      <4>1. lastSegID \in Nat /\ calls[w].shape \in Seq(FoundSegment)
        BY DEF ViewInv, TypeInv, TypeOK, Call
      <4>2. segments'[r] = segments[r]
               \/ segments'[r] = SegmentRows(lastSegID, calls[w].shape)
        BY <1>1, <3>2 DEF ReplaceSegments
      <4>3. QED
        BY <4>1, <4>2, NewTops DEF ViewInv
    <3>3. UNCHANGED segments \/ ReplaceSegments(w)
      BY <2>1 DEF Continue, StoreUnchanged, CorrectCompute, PlanCompute, BulkUpsertPoints,
         SetWellRunMeta, LayerGet, LayerCompute, TransitionGet, UpdateWellRunState,
         LayerRelease, Fail
    <3>4. QED
      BY <3>1, <3>2, <3>3
  <2>6. QED
    BY <2>4, <2>5 DEF ViewInv, Indexed
<1>5. CASE RunRequest
  <2>1. PICK w \in Workers : Request(w) /\ calls'[w].run \in DOMAIN rows
    BY <1>5 DEF RunRequest
  <2>2. PICK c : Set(w, c) /\ c.pc # "replace"
    BY <2>1, CallBegins
  <2>3. calls'[w] = c
    BY <1>1, <2>2 DEF Set
  <2>4. Serves(c, DOMAIN rows)
    BY <2>1, <2>2, <2>3 DEF Serves
  <2>5. UNCHANGED segments
    BY <2>1, CallBegins
  <2>6. \A v \in Workers : Serves(calls'[v], DOMAIN rows')
    BY <1>2, <1>3, <2>2, <2>4
  <2>7. QED
    BY <2>5, <2>6 DEF ViewInv, Indexed
<1>6. CASE Confirmation
  <2>1. PICK id, st : ConfirmSegment(id, st)
    BY <1>6 DEF Confirmation, Confirm
  <2>2. ASSUME NEW r \in Runs
        PROVE  Indexed(segments'[r])
    <3>1. segments'[r] = UpdateSegmentState(segments[r], id, st)
      BY <2>1 DEF ConfirmSegment
    <3>2. segments[r] \in SUBSET Segment
      BY <1>1
    <3>3. QED
      BY <3>1, <3>2, ConfirmTops DEF ViewInv
  <2>3. \A v \in Workers : Serves(calls'[v], DOMAIN rows')
    BY <1>2, <2>1 DEF ConfirmSegment, ViewInv, Serves
  <2>4. QED
    BY <2>2, <2>3 DEF ViewInv, Indexed
<1>7. CASE UNCHANGED segments /\ UNCHANGED calls
  BY <1>2, <1>7 DEF ViewInv, Indexed, Serves
<1>8. CASE Restart
  <2>1. UNCHANGED segments /\ \A w \in Workers : calls'[w].pc = "idle"
    BY <1>8 DEF Restart, Crash, StoreUnchanged, NoCall
  <2>2. QED
    BY <2>1 DEF ViewInv, Indexed, Serves
<1>9. QED
  BY <1>4, <1>5, <1>6, <1>7, <1>8 DEF SystemNext, SystemStep, Creation, RunCall,
     PublicationRequest, PublicationCall, Failure, allVars, vars

LEMMA ViewInvariant == SystemSpec => []ViewInv
<1>1. SystemInit => ViewInv
  <2> SUFFICES ASSUME SystemInit
               PROVE  ViewInv
    OBVIOUS
  <2>1. TypeInv
    BY InitType DEF SystemInit
  <2>2. RegistryInv
    BY DEF SystemInit, Registry!Init, RegistryInv, RegistryTyped, Creations,
       OneRunPerCode, Registry!OneRunPerCode, CreationAnswers, Registry!CreationAnswers,
       Registry!Idle
  <2>3. {s.idx : s \in {}} = 1..0
    OBVIOUS
  <2>4. Indexed({})
    BY <2>3 DEF Indexed
  <2>5. \A w \in Workers : Serves(calls[w], DOMAIN rows)
    BY DEF SystemInit, Init, NoCall, Serves
  <2>6. QED
    BY <2>1, <2>2, <2>4, <2>5 DEF SystemInit, Init, ViewInv
<1>2. ViewInv /\ TypeInv' /\ [SystemNext]_allVars => ViewInv'
  BY SystemRegistrySteps, RegistrySteps, ViewSteps DEF ViewInv
<1>3. SystemSpec => []TypeInv
  BY SystemRuns, InitType, NextType, PTL DEF Spec
<1>4. QED
  BY <1>1, <1>2, <1>3, PTL DEF SystemSpec

-----------------------------------------------------------------------------
(* Each step of the service, as publications see it *)

RowOf(R, r) == IF r \in DOMAIN R THEN R[r] ELSE [well |-> None, units |-> None]

Entry(row, flag, tops) ==
    [well |-> row.well, units |-> row.units, disturbance |-> flag, tops |-> tops]

LEMMA ViewIs ==
    /\ View = [r \in Runs |->
                  Entry(RowOf(rows, r), run[r].disturbance, TopsOf(segments[r]))]
    /\ View' = [r \in Runs |->
                  Entry(RowOf(rows', r), run'[r].disturbance, TopsOf(segments'[r]))]
BY DEF View, Entry, RowOf, Row, TopsOf, BoundariesFromSegments

\* One run changes.
LEMMA ViewOfOne ==
    ASSUME NEW r \in Runs, NEW e, View'[r] = e,
           \A q \in Runs \ {r} : View'[q] = View[q]
    PROVE  View' = [View EXCEPT ![r] = e]
BY ViewIs

LEMMA ViewOfNone ==
    ASSUME \A r \in Runs :
               /\ RowOf(rows', r) = RowOf(rows, r)
               /\ run'[r].disturbance = run[r].disturbance
               /\ TopsOf(segments'[r]) = TopsOf(segments[r])
    PROVE  View' = View
BY ViewIs

\* A step that changes neither what publications see nor the publications.
LEMMA Unseen ==
    ASSUME View' = View, UNCHANGED <<snapshots, publications>>
    PROVE  UNCHANGED Publication!vars
BY DEF Publication!vars, View

LEMMA FlagSeen ==
    ASSUME ViewInv, NEW r \in Runs, r \in DOMAIN rows, NEW flag \in BOOLEAN,
           run'[r].disturbance = flag,
           \A q \in Runs \ {r} : run'[q].disturbance = run[q].disturbance,
           UNCHANGED <<rows, segments, snapshots, publications>>
    PROVE  Publication!SetWellRunMeta(r, flag)
<1>1. View'[r] = [View[r] EXCEPT !.disturbance = flag]
  BY ViewIs DEF Entry
<1>2. \A q \in Runs \ {r} : View'[q] = View[q]
  BY ViewIs
<1>3. View' = [View EXCEPT ![r].disturbance = flag]
  BY <1>1, <1>2, ViewOfOne
<1>4. View[r].well # None
  BY WellsOfRows DEF ViewInv
<1>5. QED
  BY <1>3, <1>4 DEF Publication!SetWellRunMeta, Publication!Registered, View

LEMMA TopsSeen ==
    ASSUME ViewInv, NEW r \in Runs, r \in DOMAIN rows, NEW tops,
           TopsOf(segments'[r]) = tops,
           \A q \in Runs \ {r} : segments'[q] = segments[q],
           UNCHANGED <<rows, run, snapshots, publications>>
    PROVE  Publication!ReplaceSegments(r, tops)
<1>1. View'[r] = [View[r] EXCEPT !.tops = tops]
  BY ViewIs DEF Entry
<1>2. \A q \in Runs \ {r} : View'[q] = View[q]
  BY ViewIs
<1>3. View' = [View EXCEPT ![r].tops = tops]
  BY <1>1, <1>2, ViewOfOne
<1>4. View[r].well # None
  BY WellsOfRows DEF ViewInv
<1>5. QED
  BY <1>3, <1>4 DEF Publication!ReplaceSegments, Publication!Registered, View

\* The columns a creation stores, and the flag and segments it leaves alone.
LEMMA RowSeen ==
    ASSUME ViewInv, NEW r \in Runs, r \notin DOMAIN rows, NEW request \in Known,
           RowOf(rows', r) = request,
           \A q \in Runs \ {r} : RowOf(rows', q) = RowOf(rows, q),
           UNCHANGED <<run, segments, snapshots, publications>>
    PROVE  Publication!CreateWellRun(r, request.well, request.units)
<1>1. PICK e, well, units, flag, tops :
         /\ e = View[r] /\ flag = run[r].disturbance /\ tops = TopsOf(segments[r])
         /\ well = request.well /\ units = request.units
  OBVIOUS
<1>2. PICK d : d = [e EXCEPT !.well = well, !.units = units]
  OBVIOUS
<1>3. e = Entry(RowOf(rows, r), flag, tops)
  BY <1>1, ViewIs
<1>4. PICK row : row = RowOf(rows, r)
  OBVIOUS
<1>5. e \in [well : {row.well}, units : {row.units}, disturbance : {flag}, tops : {tops}]
  BY <1>3, <1>4 DEF Entry
<1>6. d \in [well : {well}, units : {units}, disturbance : {flag}, tops : {tops}]
  BY <1>2, <1>5
<1>7. d = [well |-> well, units |-> units, disturbance |-> flag, tops |-> tops]
  BY <1>6
<1>8. View'[r] = Entry(RowOf(rows', r), run'[r].disturbance, TopsOf(segments'[r]))
  BY ViewIs
<1>9. run'[r].disturbance = flag /\ TopsOf(segments'[r]) = tops
  BY <1>1
<1>10. View'[r] = d
  BY <1>1, <1>7, <1>8, <1>9 DEF Entry
<1>11. \A q \in Runs \ {r} : View'[q] = View[q]
  BY ViewIs
<1>12. View' = [View EXCEPT ![r] = d]
  BY <1>10, <1>11, ViewOfOne
<1>13. View' = [View EXCEPT ![r].well = request.well, ![r].units = request.units]
  BY <1>1, <1>2, <1>12, ViewIs
<1>14. View[r].well = None
  BY ViewIs DEF Entry, RowOf
<1>15. QED
  BY <1>13, <1>14 DEF Publication!CreateWellRun, Publication!Registered, View

LEMMA CallSeen ==
    ASSUME ViewInv, NEW w \in Workers, Continue(w) \/ Fail(w),
           UNCHANGED <<rows, snapshots, publications>>
    PROVE  Publication!RunChange \/ UNCHANGED Publication!vars
<1> DEFINE c == calls[w]
<1>1. c \in Call /\ Shape(c) /\ Serves(c, DOMAIN rows)
  BY DEF ViewInv, TypeInv, ShapedCalls
<1>2. run \in [Runs -> Run] /\ segments \in [Runs -> SUBSET Segment] /\ lastSegID \in Nat
  BY DEF ViewInv, TypeInv, TypeOK
<1>3. CASE SetWellRunMeta(w)
  <2>1. c.run \in Runs /\ c.run \in DOMAIN rows /\ c.disturbance \in BOOLEAN
    BY <1>1, <1>3 DEF SetWellRunMeta, Shape, Serves, Call
  <2>2. \A q \in Runs : run'[q].disturbance =
                            IF q = c.run THEN c.disturbance ELSE run[q].disturbance
    BY <1>2, <1>3, <2>1 DEF SetWellRunMeta, Run
  <2>3. UNCHANGED segments
    BY <1>3 DEF SetWellRunMeta
  <2>4. PICK r \in Runs, flag \in BOOLEAN : r = c.run /\ flag = c.disturbance
    BY <2>1
  <2>5. Publication!SetWellRunMeta(r, flag)
    BY <2>1, <2>2, <2>3, <2>4, FlagSeen
  <2>6. QED
    BY <2>5 DEF Publication!RunChange
<1>4. CASE ReplaceSegments(w)
  <2>1. /\ c.run \in Runs /\ c.run \in DOMAIN rows
        /\ c.shape \in SegmentShapes /\ c.shape \in Seq(FoundSegment)
    BY <1>1, <1>4 DEF ReplaceSegments, At, Shape, Serves, Call
  <2>2. PICK tops : tops = [i \in 1..Len(c.shape) |-> c.shape[i].top]
    OBVIOUS
  <2>3. TopsOf(segments'[c.run]) = tops
    <3>1. segments'[c.run] = SegmentRows(lastSegID, c.shape)
      BY <1>2, <1>4, <2>1 DEF ReplaceSegments
    <3>2. QED
      BY <1>2, <2>1, <2>2, <3>1, NewTops
  <2>4. \A q \in Runs \ {c.run} : segments'[q] = segments[q]
    BY <1>2, <1>4 DEF ReplaceSegments
  <2>5. UNCHANGED run
    BY <1>4 DEF ReplaceSegments
  <2>6. Publication!ReplaceSegments(c.run, tops)
    BY <2>1, <2>3, <2>4, <2>5, TopsSeen
  <2>7. tops \in {[i \in 1..Len(shape) |-> shape[i].top] : shape \in SegmentShapes}
    BY <2>1, <2>2
  <2>8. QED
    BY <2>1, <2>6, <2>7 DEF Publication!RunChange
<1>5. CASE UNCHANGED segments /\ \A r \in Runs : run'[r].disturbance = run[r].disturbance
  BY <1>5, ViewOfNone, Unseen
<1>6. UpdateWellRunState(w) =>
         UNCHANGED segments /\ \A r \in Runs : run'[r].disturbance = run[r].disturbance
  BY <1>2 DEF UpdateWellRunState, Run
<1>7. QED
  BY <1>3, <1>4, <1>5, <1>6 DEF Continue, StoreUnchanged, CorrectCompute, PlanCompute,
     BulkUpsertPoints, LayerGet, LayerCompute, TransitionGet, LayerRelease, Fail

LEMMA ConfirmationSeen ==
    ASSUME ViewInv, Confirmation
    PROVE  UNCHANGED Publication!vars
<1>1. PICK id, st : ConfirmSegment(id, st)
  BY DEF Confirmation, Confirm
<1>2. segments \in [Runs -> SUBSET Segment]
  BY DEF ViewInv, TypeInv, TypeOK
<1>3. ASSUME NEW r \in Runs
      PROVE  TopsOf(segments'[r]) = TopsOf(segments[r])
  <2>1. segments'[r] = UpdateSegmentState(segments[r], id, st)
    BY <1>1 DEF ConfirmSegment
  <2>2. QED
    BY <1>2, <2>1, ConfirmTops DEF ViewInv
<1>4. UNCHANGED <<run, rows, snapshots, publications>>
  BY <1>1 DEF Confirmation, ConfirmSegment
<1>5. QED
  BY <1>3, <1>4, ViewOfNone, Unseen

LEMMA CreationSeen ==
    ASSUME ViewInv, NEW c \in Creators,
           Registry!Begin(c) \/ Registry!Continue(c) \/ Registry!Fail(c),
           UNCHANGED <<vars, snapshots, publications>>
    PROVE  Publication!RunChange \/ UNCHANGED Publication!vars
<1>1. rows \in Seq(Known) /\ creates \in [Creators -> Creations]
  BY DEF ViewInv, RegistryInv, RegistryTyped
<1>2. UNCHANGED <<run, segments>>
  BY DEF vars
<1>3. CASE UNCHANGED rows
  BY <1>2, <1>3, ViewOfNone, Unseen
<1>4. CASE Registry!InsertWellRun(c) /\ ~UNCHANGED rows
  <2>1. PICK request : request = creates[c].request
    OBVIOUS
  <2>2. request \in Known
    BY <1>1, <1>4, <2>1 DEF Registry!InsertWellRun, Creations, Registry!Idle
  <2>3. PICK r : r = Len(rows) + 1
    OBVIOUS
  <2>4. rows' = Append(rows, request)
    BY <1>4, <2>1 DEF Registry!InsertWellRun
  <2>5. r \notin DOMAIN rows /\ RowOf(rows', r) = request
    BY <1>1, <2>2, <2>3, <2>4 DEF RowOf
  <2>6. \A q : q # r => RowOf(rows', q) = RowOf(rows, q)
    BY <1>1, <2>2, <2>3, <2>4 DEF RowOf
  <2>7. CASE r \in Runs
    <3>1. Publication!CreateWellRun(r, request.well, request.units)
      BY <1>2, <2>2, <2>5, <2>6, <2>7, RowSeen
    <3>2. request.well \in Wells /\ request.units \in Units
      BY <2>2 DEF Wells, Known
    <3>3. QED
      BY <2>7, <3>1, <3>2 DEF Publication!RunChange
  <2>8. CASE r \notin Runs
    BY <1>2, <2>6, <2>8, ViewOfNone, Unseen
  <2>9. QED
    BY <2>7, <2>8
<1>5. QED
  BY <1>3, <1>4 DEF Registry!Begin, Registry!CreateBegin, Registry!Continue,
     Registry!GetWellRunByCode, Registry!Done, Registry!Fail

LEMMA StepsSeen ==
    ASSUME ViewInv, [SystemNext]_allVars
    PROVE  [Publication!Next]_(Publication!vars)
<1>1. CASE Creation
  BY <1>1, CreationSeen DEF Creation, Publication!Next, Publication!Step
<1>2. CASE \E w \in Workers : RunCall(w)
  BY <1>2, CallSeen DEF RunCall, Publication!Next, Publication!Step
<1>3. CASE RunRequest
  <2>1. UNCHANGED <<run, segments, rows, snapshots, publications>>
    BY <1>3, CallBegins DEF RunRequest
  <2>2. QED
    BY <2>1, ViewOfNone, Unseen
<1>4. CASE Confirmation
  BY <1>4, ConfirmationSeen
<1>5. CASE PublicationRequest
  BY <1>5 DEF PublicationRequest, Publication!Next, Publication!Step
<1>6. CASE \E w \in Workers : PublicationCall(w)
  BY <1>6 DEF PublicationCall, Publication!Next, Publication!Step
<1>7. CASE Failure
  <2>1. CASE \E c \in Creators : Registry!Fail(c) /\ UNCHANGED <<vars, snapshots, publications>>
    BY <2>1, CreationSeen DEF Publication!Next, Publication!Step
  <2>2. CASE \E w \in Workers : Fail(w) /\ UNCHANGED <<rows, creates, snapshots, publications>>
    BY <2>2, CallSeen DEF Publication!Next, Publication!Step
  <2>3. CASE \E w \in Workers : Publication!Fail(w)
    BY <2>3 DEF Publication!Next, Publication!Fault
  <2>4. QED
    BY <1>7, <2>1, <2>2, <2>3 DEF Failure
<1>8. CASE Restart
  BY <1>8 DEF Restart, Publication!Next, Publication!Fault
<1>9. CASE UNCHANGED allVars
  <2>1. UNCHANGED <<run, segments, rows, snapshots, publications>>
    BY <1>9 DEF allVars, vars
  <2>2. QED
    BY <2>1, ViewOfNone, Unseen
<1>10. QED
  BY <1>1, <1>2, <1>3, <1>4, <1>5, <1>6, <1>7, <1>8, <1>9 DEF SystemNext, SystemStep

LEMMA StartSeen ==
    ASSUME SystemInit
    PROVE  Publication!Init
<1>1. ASSUME NEW r \in Runs
      PROVE  View[r] = Publication!Unregistered
  <2>1. r \notin DOMAIN rows
    BY DEF SystemInit, Registry!Init
  <2>2. run[r].disturbance = FALSE
    BY DEF SystemInit, Init
  <2>3. segments[r] = {} /\ Cardinality({}) = 0
    BY FS_EmptySet DEF SystemInit, Init
  <2>4. TopsOf(segments[r]) = <<>>
    BY <2>3 DEF TopsOf
  <2>5. QED
    BY <2>1, <2>2, <2>4, ViewIs DEF Entry, RowOf, Publication!Unregistered
<1>2. View = [r \in Runs |-> Publication!Unregistered]
  BY <1>1, ViewIs
<1>3. QED
  BY <1>2 DEF SystemInit, Publication!Init, View

\* Beside any creations, uploads, corrections, layering passes, confirmations
\* and archivings, with whatever fails, the publications of the service are
\* those of SnapshotService: nothing the others do, in whatever order, looks
\* to a publication like anything but a run registered once, a flag written or
\* the boundaries of one whole layering pass.
THEOREM SystemPublishes == SystemSpec => ImplementsPublications
<1>1. SystemInit => Publication!Init
  BY StartSeen
<1>2. ViewInv /\ [SystemNext]_allVars => [Publication!Next]_(Publication!vars)
  BY StepsSeen
<1>3. QED
  BY <1>1, <1>2, ViewInvariant, PTL DEF SystemSpec, ImplementsPublications, Publication!Spec

-----------------------------------------------------------------------------
(* What is proved of SnapshotService, in the service *)

Order ==
    INSTANCE SnapshotServiceProofs WITH
        run   <- View,
        calls <- publications,
        Tops  <- {[i \in 1..Len(shape) |-> shape[i].top] : shape \in SegmentShapes}

\* The constants are as SnapshotService assumes them.
LEMMA OrderAssumption ==
    /\ Pairs \subseteq Runs \X Runs
    /\ {[i \in 1..Len(shape) |-> shape[i].top] : shape \in SegmentShapes} \subseteq Seq(Int)
    /\ None \notin Wells
    /\ MaxSnapshots \in Nat
    /\ DepthDeltaMax \in Nat /\ NaN \notin Int
<1>1. ASSUME NEW shape \in SegmentShapes
      PROVE  [i \in 1..Len(shape) |-> shape[i].top] \in Seq(Int)
  <2>1. shape \in Seq(FoundSegment)
    BY RunServiceAssumption
  <2>2. PICK n \in Nat : n = Len(shape)
    BY <2>1
  <2>3. \A i \in 1..n : shape[i].top \in Int
    <3>1. \A i \in 1..n : shape[i] \in FoundSegment
      BY <2>1, <2>2
    <3>2. \A x \in FoundSegment : x.top \in Int
      BY DEF FoundSegment
    <3>3. QED
      BY <3>1, <3>2, Zenon
  <2>4. [i \in 1..Len(shape) |-> shape[i].top] \in [1..n -> Int]
    BY <2>2, <2>3
  <2>5. QED
    BY <2>4, SeqDef
<1>2. QED
  BY <1>1, GeowellAssumption DEF Wells

LEMMA SameCompare ==
    \A bs, ts : Publication!Compare(bs, ts) = Order!Compare(bs, ts)
<1>1. \A bs, ts : Publication!Matches(bs, ts) = Order!Matches(bs, ts)
  BY Zenon DEF Publication!Matches, Order!Matches, Publication!NearestFree,
     Order!NearestFree, Publication!Distance, Order!Distance, Publication!Reach,
     Order!Reach, Publication!Range, Order!Range
<1>2. \A d, e : Publication!Movement(d, e) = Order!Movement(d, e)
  BY Zenon DEF Publication!Movement, Order!Movement, Publication!Distance, Order!Distance
<1>3. \A d : Publication!VanishedMovement(d) = Order!VanishedMovement(d)
  BY Zenon DEF Publication!VanishedMovement, Order!VanishedMovement
<1>4. QED
  BY <1>1, <1>2, <1>3 DEF Publication!Compare, Order!Compare

LEMMA SameCalls ==
    ASSUME NEW w \in Workers
    PROVE  /\ Publication!Continue(w) => Order!Continue(w)
           /\ Publication!Fail(w) => Order!Fail(w)
           /\ \A pair \in Pairs :
                 Publication!PublishBegin(w, pair) => Order!PublishBegin(w, pair)
<1> USE DEF View
<1>1. Publication!ReadTarget(w) => Order!ReadTarget(w)
  BY Zenon DEF Publication!ReadTarget, Order!ReadTarget, Publication!Comparable,
     Order!Comparable, Publication!Return, Order!Return, Publication!Set, Order!Set,
     Publication!Idle, Order!Idle
<1>2. Publication!ListBaseline(w) => Order!ListBaseline(w)
  BY Zenon DEF Publication!ListBaseline, Order!ListBaseline, Publication!Set, Order!Set
<1>3. Publication!ListTarget(w) => Order!ListTarget(w)
  BY SameCompare, Zenon DEF Publication!ListTarget, Order!ListTarget, Publication!Set,
     Order!Set, Publication!Return, Order!Return, Publication!Idle, Order!Idle,
     Publication!BuildDetailSucceeds, Order!BuildDetailSucceeds
<1>4. Publication!LatestVersion(w) => Order!LatestVersion(w)
  BY Zenon DEF Publication!LatestVersion, Order!LatestVersion, Publication!Set,
     Order!Set, Publication!OfWell, Order!OfWell
<1>5. Publication!CreateSnapshot(w) => Order!CreateSnapshot(w)
  BY Zenon DEF Publication!CreateSnapshot, Order!CreateSnapshot, Publication!Set,
     Order!Set, Publication!OfWell, Order!OfWell, Publication!Draft, Order!Draft,
     Publication!Cardinality, Order!Cardinality, Publication!Return, Order!Return,
     Publication!Idle, Order!Idle
<1>6. Publication!SubmitForReview(w) => Order!SubmitForReview(w)
  BY Zenon DEF Publication!SubmitForReview, Order!SubmitForReview,
     Publication!UpdateSnapshotState, Order!UpdateSnapshotState, Publication!Goto,
     Order!Goto, Publication!Set, Order!Set, Publication!Return, Order!Return,
     Publication!Idle, Order!Idle
<1>7. Publication!SupersedePublished(w) => Order!SupersedePublished(w)
  BY Zenon DEF Publication!SupersedePublished, Order!SupersedePublished,
     Publication!SupersedeOthers, Order!SupersedeOthers, Publication!Goto, Order!Goto,
     Publication!Set, Order!Set
<1>8. Publication!Publish(w) => Order!Publish(w)
  BY Zenon DEF Publication!Publish, Order!Publish, Publication!UpdateSnapshotState,
     Order!UpdateSnapshotState, Publication!Return, Order!Return, Publication!Set,
     Order!Set, Publication!Idle, Order!Idle
<1>9. Publication!Fail(w) => Order!Fail(w)
  BY Zenon DEF Publication!Fail, Order!Fail, Publication!Return, Order!Return,
     Publication!Set, Order!Set, Publication!Idle, Order!Idle
<1>10. \A pair \in Pairs : Publication!PublishBegin(w, pair) => Order!PublishBegin(w, pair)
  BY Zenon DEF Publication!PublishBegin, Order!PublishBegin, Publication!Registered,
     Order!Registered, Publication!Set, Order!Set, Publication!Idle, Order!Idle,
     Publication!Cardinality, Order!Cardinality
<1>11. QED
  BY <1>1, <1>2, <1>3, <1>4, <1>5, <1>6, <1>7, <1>8, <1>9, <1>10, Zenon
     DEF Publication!Continue, Order!Continue

LEMMA SameSteps ==
    ASSUME [Publication!Next]_(Publication!vars)
    PROVE  [Order!Next]_(Order!vars)
<1>1. Publication!RunChange => Order!RunChange
  BY Zenon DEF Publication!RunChange, Order!RunChange, Publication!CreateWellRun,
     Order!CreateWellRun, Publication!SetWellRunMeta, Order!SetWellRunMeta,
     Publication!ReplaceSegments, Order!ReplaceSegments, Publication!Registered,
     Order!Registered, View
<1>2. Publication!Crash => Order!Crash
  BY Zenon DEF Publication!Crash, Order!Crash, Publication!Idle, Order!Idle, View
<1>3. UNCHANGED Publication!vars => UNCHANGED Order!vars
  BY DEF Publication!vars, Order!vars, View
<1>4. QED
  BY <1>1, <1>2, <1>3, SameCalls DEF Publication!Next, Order!Next, Publication!Step,
     Order!Step, Publication!Fault, Order!Fault

\* Whatever else the service does meanwhile, and whatever fails, the versions of
\* a well have no hole and no duplicate, and what a snapshot says never changes.
THEOREM SystemKeepsSnapshots ==
    SystemSpec => []Publication!VersionsDense /\ Publication!SnapshotsImmutable
<1>1. Publication!Init => Order!Init
  BY DEF Publication!Init, Order!Init, Publication!Idle, Order!Idle,
     Publication!Unregistered, Order!Unregistered, View
<1>2. SystemSpec => Order!Spec
  BY <1>1, SameSteps, SystemPublishes, PTL
     DEF ImplementsPublications, Publication!Spec, Order!Spec
<1>3. Order!Spec => []Order!VersionsDense
  BY OrderAssumption, Order!VersionsStayDense
<1>4. Order!Spec => Order!SnapshotsImmutable
  BY OrderAssumption, Order!SnapshotsAreImmutable
<1>5. Order!VersionsDense => Publication!VersionsDense
  BY DEF Order!VersionsDense, Publication!VersionsDense, Order!OfWell, Publication!OfWell,
     Order!Cardinality, Publication!Cardinality
<1>6. [\A s \in snapshots : \E t \in snapshots' : t = [s EXCEPT !.state = t.state]]_(Order!vars)
        => [\A s \in snapshots : \E t \in snapshots' :
               t = [s EXCEPT !.state = t.state]]_(Publication!vars)
  BY DEF Order!vars, Publication!vars, View
<1>7. QED
  BY <1>2, <1>3, <1>4, <1>5, <1>6, PTL DEF Order!SnapshotsImmutable,
     Publication!SnapshotsImmutable
=============================================================================
