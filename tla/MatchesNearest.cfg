SPECIFICATION Spec
CONSTANTS
    Seqs = {1}
    NoRow = NoRow
    GridStep = 2
    BandDivisor = 20
    Scales = {1}
    JumpThreshold = 1
    MinSegThick = 4
    Depths = {0}
    Temps = {0}
    Shift = 1
    DepthDeltaMax = 1
    NaN = NaN
    MaxDepth = 8
    MaxBoundaries = 3
INVARIANTS
    MatchesNearest
CHECK_DEADLOCK FALSE
