\* Violated: requests that meet a reconnect delay.
SPECIFICATION Spec
CONSTANTS
    btc = btc
    sol = sol
    Symbols <- MCSymbols
    Boot <- MCBoot
    Catalog <- MCListed
    MaxBackfill = 1
    MaxTimeouts = 0
    MaxDrops = 1
INVARIANT NoRequestLost
