\* Violated: the feed process ends with the terminal.
SPECIFICATION Spec
CONSTANTS
    Symbols = {btc}
    MaxBuffer = 2
    MaxConns = 2
    MaxTape = 2
    MaxMessages = 3
    MaxTicks = 1
    MaxTrades = 1
    MaxRepeats = 0
    MaxUniverses = 1
    MaxBackfills = 0
    MaxStops = 1
    MaxTimeouts = 0
INVARIANT FeedSurvives
\* A feed process that has died does nothing more.
CHECK_DEADLOCK FALSE
