------------------------------ MODULE Terminal ------------------------------
(***************************************************************************)
(* The desk: the GUI (src/cpp/src/terminal_gui.cpp) over the engine.  Each *)
(* frame copies the engine's view and draws from the copy; a click posts a *)
(* command that the copy allowed, while the engine may already be          *)
(* elsewhere.  What is drawn but posts nothing is left out.                *)
(***************************************************************************)
EXTENDS Engine

CONSTANTS
    GuiEps,     \* the holding below which the ticket does not sell (1e-9)
    Typed,      \* the symbols the user types into a watch box
    MaxPosts    \* bound: no more commands than this are posted

ASSUME TerminalAssumption == GuiEps \in Nat /\ Typed \subseteq Symbols /\ MaxPosts \in Nat

VARIABLES
    frame,      \* the frame's copy of the view, `v`
    killPosted, \* history: a Kill has been posted
    posts       \* commands posted so far

guiVars == <<frame, killPosted, posts>>

terminalVars == <<vars, sourceVars, watchVars, cmds, engineVars, guiVars>>

-----------------------------------------------------------------------------
(* The GUI thread.                                                         *)

\* TradingEngine::post, from a click.
Post(c) ==
    /\ posts < MaxPosts
    /\ cmds' = Append(cmds, [command |-> c, late |-> killPosted])
    /\ killPosted' = (killPosted \/ c.type = "Kill")
    /\ posts' = posts + 1
    /\ UNCHANGED <<vars, sourceVars, watchVars, engineVars, frame>>

DrawFrame ==
    /\ frame' = view
    /\ UNCHANGED <<vars, sourceVars, watchVars, cmds, engineVars, killPosted, posts>>

ClickKill == ~frame.killed /\ Post([type |-> "Kill"])

\* "+ Watch" and Ticker Search, and "+ Add Stock": free text.
TypeSymbol(s, class) ==
    Post([type |-> "AddSymbol", symbol |-> s, class |-> class])

Shown(s) == \E i \in DOMAIN frame.rows : frame.rows[i].symbol = s

\* A row of the watch list, of the positions, or of the ticket's combo.
ClickRow(s) == Shown(s) /\ Post([type |-> "SetFocus", symbol |-> s])

\* The ticket is for the focused symbol; without a row for it, it would show
\* the first one with every button disabled.
TicketOpen == Shown(frame.focus) /\ frame.quotes[frame.focus] # None

ClickBuy(amount, notional) ==
    /\ TicketOpen
    /\ amount > 0
    /\ frame.cash > 0
    /\ Post(TradeCommand("Buy", frame.focus, amount, notional))

ClickSell(amount, notional) ==
    /\ TicketOpen
    /\ amount > 0
    /\ frame.net[frame.focus] > GuiEps
    /\ Post(TradeCommand("Sell", frame.focus, amount, notional))

ClickSellAll ==
    /\ Shown(frame.focus)
    /\ frame.net[frame.focus] > GuiEps
    /\ Post([type |-> "Flatten", symbol |-> frame.focus])

\* "flatten" in the positions table, which lists every position not flat.
ClickFlatten(s) ==
    /\ Shown(s)
    /\ frame.net[s] # 0
    /\ Post([type |-> "Flatten", symbol |-> s])

Click ==
    \/ ClickKill
    \/ \E s \in Typed, class \in Classes : TypeSymbol(s, class)
    \/ \E s \in Symbols : ClickRow(s) \/ ClickFlatten(s)
    \/ \E amount \in Notionals : ClickBuy(amount, TRUE) \/ ClickSell(amount, TRUE)
    \/ \E amount \in Quantities : ClickBuy(amount, FALSE) \/ ClickSell(amount, FALSE)
    \/ ClickSellAll

-----------------------------------------------------------------------------
TerminalInit ==
    /\ EngineInit
    /\ frame = EmptyView
    /\ killPosted = FALSE
    /\ posts = 0

TerminalNext ==
    \/ EngineStep /\ UNCHANGED guiVars
    \/ SourcesMove /\ UNCHANGED guiVars
    \/ DrawFrame
    \/ Click

\* Neither loop has a condition to wait for: each comes round while the desk
\* is open.
TerminalSpec ==
    /\ TerminalInit
    /\ [][TerminalNext]_terminalVars
    /\ WF_terminalVars(EngineStep /\ UNCHANGED guiVars)
    /\ WF_terminalVars(DrawFrame)

-----------------------------------------------------------------------------
(* Properties.                                                             *)

\* Every variable has its type.
TerminalTypeOK ==
    /\ TypeOK
    /\ cryptoQuotes \in Quotes /\ stockQuotes \in Quotes /\ quotes \in Quotes
    /\ universe \in {<<>>, FeedUniverse} /\ requested \subseteq Symbols
    /\ cmds \in Seq(Posted) /\ pending \in Seq(Posted)
    /\ phase \in {"sleep", "run"}
    /\ symbols \in Seq(Symbols) /\ stockSymbols \in Seq(Symbols)
    /\ focus \in Symbols /\ chart \in Chart
    /\ histRequested \subseteq Symbols /\ universeSeen \in BOOLEAN
    /\ view \in View /\ viewChart \in Chart /\ frame \in View

\* A click on KILL is the last word: no command posted after it changes the
\* account or brings a fill, however the queue was cut into cycles
\* (engine.cpp:79-86).  Those posted before it may still trade.
NothingTradesAfterKillPosted ==
    [][Process /\ Head(pending).late => UNCHANGED <<portfolioVars, fills>>]_terminalVars

\* A fill is at a price the terminal has shown: commands run against the
\* quotes of the last view published, although newer ones have come in
\* (engine.cpp:79-92).
FillsAtPublishedPrice ==
    [][fills' # fills =>
          LET f == Last(fills')
          IN  /\ view.quotes[f.symbol] # None
              /\ f.price = Touch(view.quotes[f.symbol], f.side)]_terminalVars

\* A ticket in dollars trades those dollars to within one unit of the price,
\* although the price it was typed at has moved on (engine.cpp:179-181).
DollarsAreSpent ==
    [][fills' # fills /\ Head(pending).command.type \in Sides =>
          LET c == Head(pending).command
              f == Last(fills')
          IN  c.notional => /\ f.qty * f.price <= c.amount
                            /\ f.qty * f.price > c.amount - f.price]_terminalVars

\* What is drawn belongs together: the focused symbol has a row, and the chart
\* is of that symbol and from the source it is listed under, through any
\* sequence of focus changes and of symbols listed twice; a crypto chart has had
\* its candles asked for (engine.cpp:102-109, 139-159).
ChartIsOfFocus ==
    view.rows # <<>> =>
        /\ \E row \in Range(view.rows) : row.symbol = view.focus
        /\ viewChart # None =>
              /\ viewChart.symbol = view.focus
              /\ viewChart \in Range(view.rows)
              /\ viewChart.class = "Crypto" =>
                    /\ Watched(view.focus, "Stock") \notin Range(view.rows)
                    /\ view.focus \in histRequested

\* No crypto row goes unannounced: it was there from the start, or is in the
\* universe last read, or the feed was asked for it, whether the user or the
\* universe was first (engine.cpp:120-124, 145-147).  What becomes of the request
\* is ControlPlane's matter.
RowsHaveASource ==
    \A i \in DOMAIN symbols :
        symbols[i] \in Range(InitialSymbols) \cup Range(universe) \cup requested

\* No row is listed twice, whoever adds first (engine.cpp:123, 138, 145): two
\* rows would post two commands for one name.
NoRowTwice == IsInjective(symbols) /\ IsInjective(stockSymbols)

\* For the account, the whole terminal is the order pipeline: whatever is
\* clicked from stale frames, queued and interleaved with the market, each
\* command is one call to submit or flatten, or nothing.  (Spec, with the
\* stutter written first, which is what most steps are.)
ImplementsOrderManager == Init /\ [][UNCHANGED vars \/ Next]_vars

\* A click on KILL reaches the engine, the next view and the next frame: the
\* button turns into [HALTED] (terminal_gui.cpp:231-232).
KillReachesTheScreen == killPosted ~> frame.killed
=============================================================================
