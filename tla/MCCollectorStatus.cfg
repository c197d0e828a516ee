CONSTANTS
    Calls = {c1, c2}
    None = None
SPECIFICATION FairSpec
INVARIANTS
    ShowsNewest
    NothingLeftArmed
PROPERTIES
    SilenceIsReported
    ImplementsRequests
