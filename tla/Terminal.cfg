SPECIFICATION TerminalSpec
CONSTANTS
    A = A
    B = B
    None = None
    Symbols <- MCSymbols
    Books <- MCBooks
    Marks = {}
    Signals <- MCSignals
    InitialCapital <- MCInitialCapital
    MaxOrderNotional <- MCInitialCapital
    MaxOrderQty = 6
    MaxPositionQty = 9
    Eps = 0
    MaxOrders = 3
    InitialSymbols <- MCInitialSymbols
    CryptoListed <- MCCryptoListed
    StockListed <- MCStockListed
    FeedUniverse <- MCFeedUniverse
    Notionals <- MCNotionals
    Quantities <- MCQuantities
    MaxTicks = 2
    GuiEps = 1
    Typed = {B}
    MaxPosts = 3
INVARIANTS
    TerminalTypeOK
    ChartIsOfFocus
    RowsHaveASource
    NoRowTwice
    PositionsWithinLimits
PROPERTIES
    NothingTradesAfterKillPosted
    FillsAtPublishedPrice
    DollarsAreSpent
    ImplementsOrderManager
    KillReachesTheScreen
