SPECIFICATION Spec
CONSTANTS
    Seqs = {1, 2, 3, 4}
    NoRow = NoRow
    GridStep = 2
    BandDivisor = 20
    Scales = {1}
    JumpThreshold = 120120
    MinSegThick = 4
    Depths = {0, 2, 4, 6, 8, 12, 13}
    Temps = {0, 360360, 1081080}
    Shift = 1
    DepthDeltaMax = 1
    NaN = NaN
    MaxDepth = 8
    MaxBoundaries = 3
INVARIANTS
    SamplesHonourReadings
    SegmentsTile
    OnlyLastThin
    JumpsCovered
    AnomaliesAreFew
    LayeringShifts
    LayeringAsAssumed
    MatchingInjective
    NoneMissed
    ShiftRecovered
CHECK_DEADLOCK FALSE
