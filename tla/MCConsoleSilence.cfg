CONSTANTS
    t1 = t1
    t2 = t2
    a = a
    b = b
    None = None
    NoData = NoData
    MaxStale = 1
    TraceIds = {t1, t2}
    MaxTraces = 3
    TimelineLimit = 2
    ChannelSize = 2
    Graphs <- MCGraphs
    Measured <- MCMeasured
    Secondary = {"heatmap"}
    Rates = {0, 1}
    slowOnly = slowOnly
    onError = onError
    Tails = {slowOnly, onError}
    ValidTails = {slowOnly, onError}
    FallbackTail = onError
    MaxPuts = 1
    MaxHistory = 1
SPECIFICATION FairSpec
PROPERTY PollsReportSilence
