CONSTANTS
    t1 = t1
    t2 = t2
    s1 = s1
    s2 = s2
    s3 = s3
    s4 = s4
    Traces <- MCTraces
    Spans <- MCSpans
    traceOf <- MCTraceOf
SPECIFICATION FairSpec
INVARIANTS
    ExactlyOnce
    NoStrandedEntry
PROPERTIES
    EventuallyHandedOn
    ImplementsContract
CHECK_DEADLOCK FALSE
