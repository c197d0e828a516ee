CONSTANTS
    t1 = t1
    t2 = t2
    t3 = t3
    s1 = s1
    s2 = s2
    s3 = s3
    s4 = s4
    Traces <- MCTraces
    Spans <- MCSpans
    traceOf <- MCTraceOf
    isError <- MCIsError
    start <- MCStart
    end <- MCEnd
    hashKeeps <- MCHash
    Policies <- MCPolicies
    Threshold = 3
    MaxSize = 1
SPECIFICATION FairSpec
INVARIANTS
    ExactlyOnce
    BufferBounded
    NoStrandedTrace
    ErrorsNotVotedDown
PROPERTIES
    EventuallySettled
CHECK_DEADLOCK FALSE
