SPECIFICATION FaultFreeSystemSpec
CONSTANTS
    Runs = {1, 2}
    Workers = {w1}
    NoRun = NoRun
    NoRow = NoRow
    Seqs = {1, 2, 3, 4}
    GridStep = 5
    BandDivisor = 1
    Scales = {1}
    Ops = {"ingest", "correct"}
    Batches <- Dip
    References = {0}
    PlanRequests = {}
    SegmentShapes <- OneShape
    MaxSegmentID = 1
    ExclusiveIngest = TRUE
    Creators = {c1}
    Requests <- TwoCodes
    Units <- Celsius
    Pairs <- Forward
    MaxRuns = 2
    MaxSnapshots = 1
    None = None
    DepthDeltaMax = 1
    NaN = NaN
PROPERTIES
    PublishedIsUndisturbed
