SPECIFICATION Spec
CONSTANTS
    NumExperts = 3
    Unit = 2520
    TopK = 2
    Jobs <- MCJobs
    ShortHashRows = FALSE
    Int2DecodeMax = 2
    Int2GrpMax = 2
    Int2RowsMax = 1
    GroupMax = 2
    GroupChunk = 2
    Nvfp4RowsMax = 1
INVARIANTS
    ContributionsExact
    AccumulationFixed
PROPERTY
    DispatchEnds
CHECK_DEADLOCK FALSE
