CONSTANTS
    a = a
    b = b
    None = None
    NoData = NoData
    NoParent = NoParent
    Ids = {a, b}
    Contents <- MCContents
    Tagged = {1, 2}
    MaxStale = 1
SPECIFICATION TraceFairSpec
INVARIANTS
    TraceIsOfRoute
    RowsAreTree
PROPERTY TraceSettles
