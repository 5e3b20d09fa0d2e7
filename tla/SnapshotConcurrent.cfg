SPECIFICATION TimelineSpec
SYMMETRY WorkerSymmetry
CONSTANTS
    r1 = r1
    r2 = r2
    Runs = {r1, r2}
    Wells = {"A"}
    Units <- Celsius
    Workers = {w1, w2}
    Pairs <- Forward
    Tops <- OneList
    DepthDeltaMax = 1
    NaN = NaN
    None = None
    MaxSnapshots = 2
INVARIANTS
    TypeOK
    VersionsDense
PROPERTIES
    ImplementsHistory
    SnapshotsImmutable
    FlagBlocksPublication
    SettledIsCurrent
    EarlierIsSuperseded
