SPECIFICATION Spec
CONSTANTS
    Symbols = {btc, eth}
    MaxBuffer = 2
    MaxConns = 2
    MaxTape = 2
    MaxMessages = 3
    MaxTicks = 3
    MaxTrades = 2
    MaxRepeats = 1
    MaxUniverses = 1
    MaxBackfills = 1
    MaxStops = 1
    MaxTimeouts = 1
INVARIANTS
    StoreCatchesUp
    TapeInOrder
    OnlyLiveConnectionOpen
    TypeOK
PROPERTIES
    BackfillGoesInFront
    EventuallyCurrent
\* A feed process that has died does nothing more.
CHECK_DEADLOCK FALSE
