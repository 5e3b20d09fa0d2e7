SPECIFICATION RestartFairSpec
CONSTANTS
    Runs = {r1}
    Workers = {w1}
    NoRun = NoRun
    NoRow = NoRow
    Seqs = {1, 2, 3}
    GridStep = 5
    BandDivisor = 1
    Scales = {1, 2}
    Ops = {"ingest", "layer"}
    Batches <- TwoBatches
    References = {12}
    PlanRequests <- TiePoint
    SegmentShapes <- OneShape
    MaxSegmentID = 2
    ExclusiveIngest = TRUE
PROPERTIES
    SegmentedRunGetsLayered
