CONSTANTS
    Ids = {i1, i2, i3, i4}
    TraceValues <- MCTraceValues
    Services <- MCServices
    Operations <- MCOperations
    Queries <- MCQueries
    Times <- MCTimes
    MaxSize = 3
    None = None
SPECIFICATION Spec
INVARIANTS
    IndexesAgree
    TimelineIsIndex
    WithinCapacity
    QueryAgreesWithScan
    EvictionProgresses
PROPERTIES
    EvictsOldest
    RetentionComplete
