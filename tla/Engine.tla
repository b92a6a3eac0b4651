------------------------------- MODULE Engine -------------------------------
(***************************************************************************)
(* TradingEngine (src/cpp/src/engine.cpp): one thread that drains the      *)
(* commands the GUI posted, runs each against its copy of the quotes,      *)
(* refreshes that copy and the chart, adopts the feed's universe, and      *)
(* publishes a view.                                                       *)
(*                                                                         *)
(* The sources it reads, MarketStore and StockFeed, are kept current by    *)
(* threads of their own; here they are their caches, which change between  *)
(* any two steps.  Whatever the thread does between two accesses to shared *)
(* state is one action: taking the queue, one command, the refresh with    *)
(* the publication that ends it.                                           *)
(***************************************************************************)
EXTENDS OrderManager

CONSTANTS
    InitialSymbols,     \* the crypto watch list the terminal starts with
    CryptoListed,       \* the symbols the crypto feed has quotes for
    StockListed,        \* the symbols the stock venue has quotes for
    FeedUniverse,       \* the products the crypto feed streams
    Notionals,          \* the sums, in money, an order ticket may ask for
    Quantities,         \* the sizes it may ask for
    None,               \* no quote, no chart, no symbol
    MaxTicks            \* bound: the sources change no more often than this

Classes == {"Crypto", "Stock"}

Watched(s, class) == [symbol |-> s, class |-> class]

\* Command of engine.hpp.  `late` is history, not state of the program: the
\* command was posted after a Kill had been.
TradeCommand(type, s, amount, notional) ==
    [type |-> type, symbol |-> s, amount |-> amount, notional |-> notional]

TradeCommands ==
    [type : Sides, symbol : Symbols, amount : Notionals, notional : {TRUE}]
    \cup [type : Sides, symbol : Symbols, amount : Quantities, notional : {FALSE}]

Commands ==
    TradeCommands
    \cup [type : {"Flatten", "SetFocus"}, symbol : Symbols]
    \cup [type : {"AddSymbol"}, symbol : Symbols, class : Classes]
    \cup {[type |-> "Kill"]}

Posted == [command : Commands, late : BOOLEAN]

\* The order size a Buy or Sell command asks for: a sum of money buys what it
\* is worth at the quote the order will cross, nothing when there is no price.
OrderSizeAtMid(c, quote) ==
    IF ~c.notional THEN c.amount
    ELSE IF DoubleMid(quote) > 0 THEN (2 * c.amount) \div DoubleMid(quote) ELSE 0

OrderSize(c, quote) ==
    IF ~c.notional THEN c.amount
    ELSE IF Touch(quote, c.type) > 0 THEN c.amount \div Touch(quote, c.type)
    ELSE 0

OrderSignal(c, quote) ==
    [symbol |-> c.symbol, side |-> c.type, type |-> "Market",
     qty |-> OrderSize(c, quote), limit |-> 0]

ASSUME EngineAssumption ==
    /\ InitialSymbols \in Seq(Symbols) /\ InitialSymbols # <<>>
    /\ IsInjective(InitialSymbols)
    /\ FeedUniverse \in Seq(Symbols)
    /\ CryptoListed \subseteq Symbols /\ StockListed \subseteq Symbols
    /\ Notionals \subseteq Nat /\ Quantities \subseteq Nat
    /\ None \notin Symbols /\ None \notin Books
    /\ MaxTicks \in Nat
    /\ \A c \in TradeCommands, quote \in Books :
          OrderSize(c, quote) > 0 => OrderSignal(c, quote) \in Signals

VARIABLES
    cryptoQuotes,   \* MarketStore::last_quote_
    stockQuotes,    \* StockFeed::quotes_
    universe,       \* MarketStore::universe_
    requested,      \* the symbols ever given to MarketStore::add_symbol
    ticks,          \* changes of the sources so far
    cmds,           \* cmds_, the commands posted and not yet taken
    pending,        \* those taken and not yet run
    phase,          \* "sleep" before the queue is taken, "run" after
    quotes,         \* quotes_
    symbols,        \* symbols_
    stockSymbols,   \* stock_symbols_, and StockFeed::symbols_ with it
    focus,          \* focus_
    chart,          \* whose series price_hist_ holds, and from which source
    histRequested,  \* hist_requested_
    universeSeen,   \* universe_seen_
    view,           \* view_, the last one published
    viewChart       \* the chart in it: it is drawn, and no button looks at it

sourceVars == <<cryptoQuotes, stockQuotes, universe, ticks>>

watchVars == <<requested, symbols, stockSymbols, focus, chart>>

engineVars == <<pending, phase, quotes, histRequested, universeSeen, view, viewChart>>

Row == [symbol : Symbols, class : Classes]

Chart == Row \cup {None}

Quotes == [Symbols -> Books \cup {None}]

View == [killed : BOOLEAN, cash : Int, net : [Symbols -> Int], quotes : Quotes,
         rows : Seq(Row), focus : Symbols \cup {None}]

NoQuotes == [s \in Symbols |-> None]

EmptyView ==
    [killed |-> FALSE, cash |-> 0, net |-> [s \in Symbols |-> 0],
     quotes |-> NoQuotes, rows |-> <<>>, focus |-> None]

EngineInit ==
    /\ Init
    /\ cryptoQuotes = NoQuotes /\ stockQuotes = NoQuotes
    /\ universe = <<>> /\ requested = {} /\ ticks = 0
    /\ cmds = <<>> /\ pending = <<>> /\ phase = "sleep"
    /\ quotes = NoQuotes
    /\ symbols = InitialSymbols /\ stockSymbols = <<>>
    /\ focus = Head(InitialSymbols) /\ chart = None
    /\ histRequested = {} /\ universeSeen = FALSE
    /\ view = EmptyView /\ viewChart = None

ClassOf(s) == IF s \in Range(stockSymbols) THEN "Stock" ELSE "Crypto"

-----------------------------------------------------------------------------
(* The sources.                                                            *)

CryptoTick(s, quote) ==
    /\ cryptoQuotes[s] # quote
    /\ cryptoQuotes' = [cryptoQuotes EXCEPT ![s] = quote]
    /\ UNCHANGED <<stockQuotes, universe>>

\* The stock venue is polled for the watched stocks only.
StockTick(s, quote) ==
    /\ s \in Range(stockSymbols)
    /\ stockQuotes[s] # quote
    /\ stockQuotes' = [stockQuotes EXCEPT ![s] = quote]
    /\ UNCHANGED <<cryptoQuotes, universe>>

UniverseArrives ==
    /\ universe # FeedUniverse
    /\ universe' = FeedUniverse
    /\ UNCHANGED <<cryptoQuotes, stockQuotes>>

SourcesMove ==
    /\ ticks < MaxTicks
    /\ ticks' = ticks + 1
    /\ \/ \E s \in CryptoListed, quote \in Books : CryptoTick(s, quote)
       \/ \E s \in StockListed, quote \in Books : StockTick(s, quote)
       \/ UniverseArrives
    /\ UNCHANGED <<vars, watchVars, cmds, engineVars>>

-----------------------------------------------------------------------------
(* 1. The commands.                                                        *)

\* The queue taken newest command first.
DrainNewestFirst ==
    /\ phase = "sleep"
    /\ phase' = "run"
    /\ pending' = Reverse(cmds)
    /\ cmds' = <<>>
    /\ UNCHANGED <<vars, sourceVars, watchVars, quotes, histRequested,
                   universeSeen, view, viewChart>>

\* The queue left alone until the feed has sent its universe.
DrainOnceStreaming ==
    /\ phase = "sleep"
    /\ phase' = "run"
    /\ pending' = IF universeSeen THEN cmds ELSE <<>>
    /\ cmds' = IF universeSeen THEN <<>> ELSE cmds
    /\ UNCHANGED <<vars, sourceVars, watchVars, quotes, histRequested,
                   universeSeen, view, viewChart>>

\* The engine wakes up and takes the whole queue.
Drain ==
    /\ phase = "sleep"
    /\ phase' = "run"
    /\ pending' = cmds
    /\ cmds' = <<>>
    /\ UNCHANGED <<vars, sourceVars, watchVars, quotes, histRequested,
                   universeSeen, view, viewChart>>

\* Focusing a new symbol drops the series of the old one.
FocusKeepsChart(s) == focus' = s /\ UNCHANGED chart

Focus(s) == focus' = s /\ chart' = None

\* A second click on the focused row takes the focus away.
SetFocusToggles(c) ==
    /\ c.type = "SetFocus"
    /\ focus' = (IF c.symbol # focus THEN c.symbol ELSE None)
    /\ chart' = None
    /\ UNCHANGED <<vars, symbols, stockSymbols, requested>>

SetFocus(c) ==
    /\ c.type = "SetFocus"
    /\ IF c.symbol # focus THEN Focus(c.symbol) ELSE UNCHANGED <<focus, chart>>
    /\ UNCHANGED <<vars, symbols, stockSymbols, requested>>

AddStock(s) ==
    /\ s \notin Range(stockSymbols)
    /\ stockSymbols' = Append(stockSymbols, s)
    /\ Focus(s)
    /\ UNCHANGED <<symbols, requested>>

\* A symbol shown without asking the feed to stream it.
AddCryptoUnasked(s) ==
    /\ s \notin Range(symbols)
    /\ symbols' = Append(symbols, s)
    /\ Focus(s)
    /\ UNCHANGED <<stockSymbols, requested>>

AddCrypto(s) ==
    /\ s \notin Range(symbols)
    /\ symbols' = Append(symbols, s)
    /\ requested' = requested \cup {s}
    /\ Focus(s)
    /\ UNCHANGED stockSymbols

\* A symbol already in its list is not even focused.
AlreadyWatched(c) ==
    /\ c.symbol \in Range(IF c.class = "Stock" THEN stockSymbols ELSE symbols)
    /\ UNCHANGED watchVars

AddSymbol(c) ==
    /\ c.type = "AddSymbol"
    /\ \/ c.class = "Stock" /\ AddStock(c.symbol)
       \/ c.class = "Crypto" /\ AddCrypto(c.symbol)
       \/ AlreadyWatched(c)
    /\ UNCHANGED vars

\* Trades the engine runs against its own copy of the quote; with none, or no
\* size, no order is made.
PlaceOrder(c) ==
    /\ c.type \in Sides
    /\ IF quotes[c.symbol] # None /\ OrderSize(c, quotes[c.symbol]) > 0
       THEN Submit(OrderSignal(c, quotes[c.symbol]), quotes[c.symbol])
       ELSE UNCHANGED vars
    /\ UNCHANGED watchVars

FlattenPosition(c) ==
    /\ c.type = "Flatten"
    /\ IF quotes[c.symbol] # None /\ NetQty(c.symbol) > Eps
       THEN Flatten(c.symbol, quotes[c.symbol])
       ELSE UNCHANGED vars
    /\ UNCHANGED watchVars

\* A second KILL resumes trading.
HaltToggles(c) ==
    /\ c.type = "Kill"
    /\ killed' = ~killed
    /\ UNCHANGED <<portfolioVars, orderVars, watchVars>>

Halt(c) ==
    /\ c.type = "Kill"
    /\ Kill
    /\ UNCHANGED watchVars

\* process() of the oldest command taken.
Process ==
    /\ phase = "run"
    /\ pending # <<>>
    /\ LET c == Head(pending).command IN
       SetFocus(c) \/ AddSymbol(c) \/ PlaceOrder(c) \/ FlattenPosition(c) \/ Halt(c)
    /\ pending' = Tail(pending)
    /\ UNCHANGED <<sourceVars, cmds, phase, quotes, histRequested,
                   universeSeen, view, viewChart>>

-----------------------------------------------------------------------------
(* 2 and 3. The refresh and the publication that ends the cycle.           *)

\* Both sources copied, the stock venue last; what neither has stays.
RefreshedQuotes ==
    [s \in Symbols |->
        IF stockQuotes[s] # None THEN stockQuotes[s]
        ELSE IF s \in Range(symbols) /\ cryptoQuotes[s] # None
        THEN cryptoQuotes[s]
        ELSE quotes[s]]

\* Candles are asked for once per crypto symbol that is charted.
RequestHistory ==
    histRequested' = histRequested
                        \cup IF ClassOf(focus) = "Crypto" THEN {focus} ELSE {}

\* The series of the focused symbol, read again when its deadline has passed.
RefreshChart == chart' \in {chart, Watched(focus, ClassOf(focus))}

\* Of `found`, what `list` does not have yet, appended one by one.
Adopted(list, found) ==
    LET adopted[n \in 0 .. Len(found)] ==
            IF n = 0 THEN list
            ELSE IF found[n] \in Range(adopted[n - 1]) THEN adopted[n - 1]
            ELSE Append(adopted[n - 1], found[n])
    IN  adopted[Len(found)]

\* The universe appended without looking what is there.
AdoptWholeUniverse ==
    /\ symbols' = symbols \o universe
    /\ universeSeen' = (universeSeen \/ universe # <<>>)

\* The watch list adopts what the feed streams: in every cycle until there is
\* something, then when the catalog's deadline has passed.
AdoptUniverse ==
    \/ /\ symbols' = Adopted(symbols, universe)
       /\ universeSeen' = (universeSeen \/ universe # <<>>)
    \/ universeSeen /\ UNCHANGED <<symbols, universeSeen>>

RowsOf(crypto, stocks) ==
    [i \in 1 .. Len(crypto) + Len(stocks) |->
        IF i <= Len(crypto) THEN Watched(crypto[i], "Crypto")
        ELSE Watched(stocks[i - Len(crypto)], "Stock")]

\* The view published from the quotes of the previous cycle.
PublishUnrefreshed(shown) ==
    /\ view' = [killed |-> killed, cash |-> cash, net |-> NetQuantities,
                quotes |-> quotes, rows |-> RowsOf(symbols', stockSymbols),
                focus |-> focus]
    /\ viewChart' = chart'

Publish(shown) ==
    /\ view' = [killed |-> killed, cash |-> cash, net |-> NetQuantities,
                quotes |-> shown, rows |-> RowsOf(symbols', stockSymbols),
                focus |-> focus]
    /\ viewChart' = chart'

Refresh ==
    /\ phase = "run" /\ pending = <<>>
    /\ phase' = "sleep"
    /\ quotes' = RefreshedQuotes
    /\ RequestHistory
    /\ RefreshChart
    /\ AdoptUniverse
    /\ Publish(quotes')
    /\ UNCHANGED <<vars, sourceVars, cmds, pending, focus, stockSymbols, requested>>

EngineStep == Drain \/ Process \/ Refresh
=============================================================================
