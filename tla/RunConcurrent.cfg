SPECIFICATION Spec
CONSTANTS
    Runs = {r1}
    Workers = {w1, w2}
    NoRun = NoRun
    NoRow = NoRow
    Seqs = {1, 2, 3}
    GridStep = 5
    BandDivisor = 1
    Scales = {1, 2}
    Ops = {"ingest", "correct", "plan", "layer", "archive", "confirm"}
    Batches <- TwoBatches
    References = {0, 12}
    PlanRequests <- AllPlans
    SegmentShapes <- Shapes
    MaxSegmentID = 2
    ExclusiveIngest = TRUE
INVARIANTS
    TypeOK
    LayeringSerial
    CompletenessAgrees
PROPERTIES
    ReplaceIsSerial
    ImplementsLifecycle
    SegmentIDsFresh
    ArchivedSettles
    CorrectionKeepsReadings
    CorrectionIsWhole
