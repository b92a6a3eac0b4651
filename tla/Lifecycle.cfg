SPECIFICATION LifeSpec
CONSTANTS
    Stocks = {aapl, nope}
    Unknown = {nope}
    Interval = 1
    Backoff = 2
    HttpTimeout = 3
    MaxBars = 2
    ChartCap = 3
    ErrorCap = 1
    MaxReaps = 1
INVARIANTS
    LifeTypeOK
    SamplesFollowBars
    NothingLeftBehind
    ListensWhileFeedRuns
PROPERTIES
    NoBurstOfPolls
    EverythingEnds
    WatchedGetsQuoted
\* A terminal that has closed or crashed does nothing more.
CHECK_DEADLOCK FALSE
