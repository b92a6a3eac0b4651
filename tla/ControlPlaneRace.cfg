\* Violated without any failure: a request that meets a connect.
SPECIFICATION Spec
CONSTANTS
    btc = btc
    sol = sol
    Symbols <- MCSymbols
    Boot <- MCBoot
    Catalog <- MCListed
    MaxBackfill = 1
    MaxTimeouts = 0
    MaxDrops = 0
INVARIANT SubscribesEverythingWanted
