CONSTANTS
    t1 = t1
    s1 = s1
    s2 = s2
    w1 = w1
    w2 = w2
    None = None
    Traces = {t1}
    Spans = {s1, s2}
    traceOf <- MCTraceOf
    transport <- MCTransport
    Workers = {w1}
    QueueDepth = 1
SPECIFICATION Spec
INVARIANT
    NoIngestPanics
CHECK_DEADLOCK FALSE
