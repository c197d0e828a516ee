CONSTANTS
    s1 = s1
    s2 = s2
    o1 = o1
    o2 = o2
    t1 = t1
    t2 = t2
    t3 = t3
    None = None
    NoData = NoData
    Services = {s1}
    Operations = {o1}
    Traces <- MCTraces
    arrivals <- MCArrivals
    serviceOf <- MCServiceOf
    operationOf <- MCOperationOf
    hasError <- MCHasError
    PageSize = 1
    LiveLimit = 2
    MaxOffset = 1
    MaxStale = 1
SPECIFICATION FairSpec
INVARIANTS
    LoadingIsNewest
    FirstPageIsCurrent
    CardsAreRight
PROPERTY SearchSettles
