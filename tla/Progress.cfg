SPECIFICATION ProgressSpec
CONSTANTS
    Runs = {1}
    Workers = {w1, w2}
    NoRun = NoRun
    NoRow = NoRow
    Seqs = {1, 2, 3}
    GridStep = 5
    BandDivisor = 1
    Scales = {1, 2}
    Ops = {"ingest", "correct", "plan", "layer", "archive", "confirm"}
    Batches <- TwoBatches
    References = {12}
    PlanRequests <- TiePoint
    SegmentShapes <- OneShape
    MaxSegmentID = 2
    ExclusiveIngest = TRUE
    Creators = {c1, c2}
    Requests <- TwoCodes
    Units <- Celsius
    Pairs <- Itself
    MaxRuns = 2
    MaxSnapshots = 3
    None = None
    DepthDeltaMax = 1
    NaN = NaN
INVARIANTS
    OneRunPerCode
    CreationAnswers
PROPERTIES
    LayeringLockReleased
    SegmentedRunGetsLayered
    UploadedRunMovesOn
    SupersededIsReplaced
CHECK_DEADLOCK FALSE
