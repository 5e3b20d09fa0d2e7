SPECIFICATION FaultFreeSpec
CONSTANTS
    Runs = {r1}
    Workers = {w1, w2}
    NoRun = NoRun
    NoRow = NoRow
    Seqs = {1, 2, 3}
    GridStep = 5
    BandDivisor = 1
    Scales = {1, 2}
    Ops = {"ingest", "correct", "layer", "archive"}
    Batches <- TwoBatches
    References = {0, 12}
    PlanRequests <- TiePoint
    SegmentShapes <- OneShape
    MaxSegmentID = 1
    ExclusiveIngest = TRUE
PROPERTIES
    ArchivedRunFrozen
CHECK_DEADLOCK FALSE
