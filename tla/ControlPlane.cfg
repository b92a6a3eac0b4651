\* Requests, subscriptions and charts, through one late answer and one drop.
SPECIFICATION Spec
CONSTANTS
    btc = btc
    sol = sol
    Symbols <- MCSymbols
    Boot <- MCBoot
    Catalog <- MCDelisted
    MaxBackfill = 1
    MaxTimeouts = 1
    MaxDrops = 1
INVARIANTS
    TypeOK
    HandedOutOnce
    AnnouncedIsSubscribed
    OnePollAtATime
PROPERTIES
    EveryRequestSettled
    EveryChartSettled
