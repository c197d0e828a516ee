CONSTANTS
    t1 = t1
    t2 = t2
    s1 = s1
    s2 = s2
    s3 = s3
    s4 = s4
    r1 = r1
    r2 = r2
    always = always
    limited = limited
    adaptive = adaptive
    tail = tail
    put1 = put1
    put2 = put2
    None = None
    Traces <- MCTraces
    Spans <- MCSpans
    traceOf <- MCTraceOf
    isValid <- MCIsValid
    isRoot <- MCIsRoot
    startTime <- MCStart
    Requests <- MCRequests
    spansOf <- MCSpansOf
    Samplers <- MCSamplers
    TailSamplers = {tail}
    AdaptiveSamplers = {adaptive}
    FirstSampler = adaptive
    results <- MCResults
    Swaps <- TwoSwaps
    swapTo <- MCSwapTo
    DecisionsExpire = TRUE
SPECIFICATION FairSpec
PROPERTIES
    OneDecisionPerEntry
    EventuallySettled
CHECK_DEADLOCK FALSE
