--------------------------- MODULE TerminalProofs ---------------------------
(***************************************************************************)
(* The terminal implements the order pipeline, for every set of symbols,   *)
(* watch list and market and any number of commands: what is proved of the *)
(* pipeline holds of the desk.                                             *)
(*                                                                         *)
(* The argument: a step of the GUI or of the sources leaves the account    *)
(* alone, and a command the engine runs is one call of the pipeline, for a *)
(* symbol that exists, at a quote that exists.  That is what Wellformed    *)
(* keeps, from the click to the queue to the engine.                       *)
(***************************************************************************)
EXTENDS Terminal, OrderManagerProofs, SumLemmas

\* A view without rows offers nothing to click that names a symbol.
Drawable(v) == v.rows = <<>> \/ v.focus \in Symbols

Wellformed ==
    /\ cryptoQuotes \in Quotes /\ stockQuotes \in Quotes /\ quotes \in Quotes
    /\ cmds \in Seq(Posted) /\ pending \in Seq(Posted)
    /\ killPosted \in BOOLEAN
    /\ focus \in Symbols
    /\ Drawable(view) /\ Drawable(frame)

LEMMA InitWellformed == TerminalInit => Wellformed
<1>. SUFFICES ASSUME TerminalInit PROVE Wellformed
  OBVIOUS
<1>1. focus \in Symbols
  BY EngineAssumption DEF TerminalInit, EngineInit
<1>2. NoQuotes \in Quotes
  BY DEF NoQuotes, Quotes
<1>3. Drawable(EmptyView)
  BY DEF Drawable, EmptyView
<1>4. /\ cryptoQuotes \in Quotes /\ stockQuotes \in Quotes /\ quotes \in Quotes
      /\ Drawable(view) /\ Drawable(frame)
  BY <1>2, <1>3 DEF TerminalInit, EngineInit
<1>5. cmds \in Seq(Posted) /\ pending \in Seq(Posted)
  <2>1. <<>> \in Seq(Posted)
    OBVIOUS
  <2>. QED
    BY <2>1, Zenon DEF TerminalInit, EngineInit
<1>6. killPosted \in BOOLEAN
  BY DEF TerminalInit
<1>. QED
  BY <1>1, <1>4, <1>5, <1>6 DEF Wellformed

\* The commands, by what they ask for.
LEMMA CommandKinds ==
    ASSUME NEW c \in Commands
    PROVE  /\ c.type \in Sides => c \in TradeCommands
           /\ c.type \in {"SetFocus", "Flatten", "AddSymbol"} => c.symbol \in Symbols
<1>1. CASE c \in TradeCommands
  <2>1. c.type \in Sides
    BY <1>1 DEF TradeCommands, TradeCommand
  <2>. QED
    BY <1>1, <2>1 DEF Sides
<1>2. CASE c \in [type : {"Flatten", "SetFocus"}, symbol : Symbols]
  BY <1>2 DEF Sides
<1>3. CASE c \in [type : {"AddSymbol"}, symbol : Symbols, class : Classes]
  BY <1>3 DEF Sides
<1>4. CASE c = [type |-> "Kill"]
  BY <1>4 DEF Sides
<1>. QED
  BY <1>1, <1>2, <1>3, <1>4 DEF Commands

LEMMA TradeCommandFields ==
    ASSUME NEW c \in TradeCommands
    PROVE  c.symbol \in Symbols
BY DEF TradeCommands, TradeCommand

\* Running one command is one step of the pipeline, or none.
LEMMA ProcessStep ==
    Wellformed /\ Process => [Next]_vars
<1>. SUFFICES ASSUME Wellformed, Process PROVE [Next]_vars
  OBVIOUS
<1>. DEFINE c == Head(pending).command
<1>1. c \in Commands
  <2>1. pending \in Seq(Posted) /\ pending # <<>>
    BY DEF Wellformed, Process
  <2>2. Head(pending) \in Posted
    BY <2>1
  <2>. QED
    BY <2>2 DEF Posted
<1>2. \/ SetFocus(c) \/ AddSymbol(c) \/ PlaceOrder(c)
      \/ FlattenPosition(c) \/ Halt(c)
  BY DEF Process
<1>. HIDE DEF c
<1>3. CASE SetFocus(c) \/ AddSymbol(c)
  BY <1>3 DEF SetFocus, AddSymbol, vars
<1>4. CASE PlaceOrder(c)
  <2>1. c \in TradeCommands
    BY <1>1, <1>4, CommandKinds DEF PlaceOrder
  <2>2. c.symbol \in Symbols
    BY <2>1, TradeCommandFields
  <2>. DEFINE quote == quotes[c.symbol]
  <2>3. CASE quote # None /\ OrderSize(c, quote) > 0
    <3>1. quote \in Books
      BY <2>2, <2>3 DEF Wellformed, Quotes
    <3>2. OrderSignal(c, quote) \in Signals
      BY <2>1, <2>3, <3>1, EngineAssumption
    <3>3. Submit(OrderSignal(c, quote), quote)
      BY <1>4, <2>3 DEF PlaceOrder
    <3>. QED
      BY <3>1, <3>2, <3>3 DEF Next
  <2>4. CASE ~(quote # None /\ OrderSize(c, quote) > 0)
    BY <1>4, <2>4 DEF PlaceOrder
  <2>. QED
    BY <2>3, <2>4
<1>5. CASE FlattenPosition(c)
  <2>1. c.symbol \in Symbols
    BY <1>1, <1>5, CommandKinds DEF FlattenPosition
  <2>. DEFINE quote == quotes[c.symbol]
  <2>2. CASE quote # None /\ NetQty(c.symbol) > Eps
    <3>1. quote \in Books
      BY <2>1, <2>2 DEF Wellformed, Quotes
    <3>2. Flatten(c.symbol, quote)
      BY <1>5, <2>2 DEF FlattenPosition
    <3>. QED
      BY <2>1, <3>1, <3>2 DEF Next
  <2>3. CASE ~(quote # None /\ NetQty(c.symbol) > Eps)
    BY <1>5, <2>3 DEF FlattenPosition
  <2>. QED
    BY <2>2, <2>3
<1>6. CASE Halt(c)
  BY <1>6 DEF Halt, Next
<1>. QED
  BY <1>2, <1>3, <1>4, <1>5, <1>6

\* Whatever else moves, the account does not.
LEMMA OtherSteps ==
    (SourcesMove /\ UNCHANGED guiVars) \/ DrawFrame \/ Click
        \/ Drain \/ Refresh \/ UNCHANGED terminalVars
      => UNCHANGED vars
<1>1. SourcesMove \/ DrawFrame \/ Drain \/ Refresh \/ UNCHANGED terminalVars
        => UNCHANGED vars
  BY DEF SourcesMove, DrawFrame, Drain, Refresh, terminalVars
<1>2. ASSUME NEW c, Post(c) PROVE UNCHANGED vars
  BY <1>2 DEF Post
<1>3. Click => UNCHANGED vars
  BY <1>2 DEF Click, ClickKill, TypeSymbol, ClickRow, ClickFlatten, ClickBuy,
              ClickSell, ClickSellAll
<1>. QED
  BY <1>1, <1>3

LEMMA PipelineStep ==
    Wellformed /\ [TerminalNext]_terminalVars => [Next]_vars
BY ProcessStep, OtherSteps DEF TerminalNext, EngineStep

LEMMA ATicketIsACommand ==
    ASSUME NEW s \in Symbols, NEW amount
    PROVE  /\ amount \in Notionals =>
                /\ TradeCommand("Buy", s, amount, TRUE) \in Commands
                /\ TradeCommand("Sell", s, amount, TRUE) \in Commands
           /\ amount \in Quantities =>
                /\ TradeCommand("Buy", s, amount, FALSE) \in Commands
                /\ TradeCommand("Sell", s, amount, FALSE) \in Commands
<1>1. /\ amount \in Notionals =>
            /\ TradeCommand("Buy", s, amount, TRUE) \in TradeCommands
            /\ TradeCommand("Sell", s, amount, TRUE) \in TradeCommands
      /\ amount \in Quantities =>
            /\ TradeCommand("Buy", s, amount, FALSE) \in TradeCommands
            /\ TradeCommand("Sell", s, amount, FALSE) \in TradeCommands
  BY DEF TradeCommands, TradeCommand, Sides
<1>2. TradeCommands \subseteq Commands
  BY DEF Commands
<1>. QED
  BY <1>1, <1>2, Zenon

\* A click posts a command.
LEMMA ClickPosts ==
    ASSUME Wellformed, Click
    PROVE  \E c \in Commands : Post(c)
<1>0. DEFINE Posts == \E c \in Commands : Post(c)
<1>1. CASE ClickKill
  BY <1>1 DEF ClickKill, Commands
<1>2. ASSUME NEW s \in Typed, NEW class \in Classes, TypeSymbol(s, class)
      PROVE  Posts
  <2>1. [type |-> "AddSymbol", symbol |-> s, class |-> class] \in Commands
    BY TerminalAssumption DEF Commands
  <2>. QED
    BY <1>2, <2>1 DEF TypeSymbol
<1>3. ASSUME NEW s \in Symbols, ClickRow(s) \/ ClickFlatten(s) PROVE Posts
  <2>1. /\ [type |-> "SetFocus", symbol |-> s] \in Commands
        /\ [type |-> "Flatten", symbol |-> s] \in Commands
    BY DEF Commands
  <2>. QED
    BY <1>3, <2>1 DEF ClickRow, ClickFlatten
<1>4. Shown(frame.focus) => frame.focus \in Symbols
  BY DEF Wellformed, Drawable, Shown
<1>5. ASSUME NEW amount \in Notionals,
             ClickBuy(amount, TRUE) \/ ClickSell(amount, TRUE)
      PROVE  Posts
  <2>1. frame.focus \in Symbols
    BY <1>4, <1>5 DEF ClickBuy, ClickSell, TicketOpen
  <2>2. /\ TradeCommand("Buy", frame.focus, amount, TRUE) \in Commands
        /\ TradeCommand("Sell", frame.focus, amount, TRUE) \in Commands
    BY <2>1, ATicketIsACommand
  <2>3. \/ Post(TradeCommand("Buy", frame.focus, amount, TRUE))
        \/ Post(TradeCommand("Sell", frame.focus, amount, TRUE))
    BY <1>5, Zenon DEF ClickBuy, ClickSell
  <2>. QED
    BY <2>2, <2>3, Zenon
<1>6. ASSUME NEW amount \in Quantities,
             ClickBuy(amount, FALSE) \/ ClickSell(amount, FALSE)
      PROVE  Posts
  <2>1. frame.focus \in Symbols
    BY <1>4, <1>6 DEF ClickBuy, ClickSell, TicketOpen
  <2>2. /\ TradeCommand("Buy", frame.focus, amount, FALSE) \in Commands
        /\ TradeCommand("Sell", frame.focus, amount, FALSE) \in Commands
    BY <2>1, ATicketIsACommand
  <2>3. \/ Post(TradeCommand("Buy", frame.focus, amount, FALSE))
        \/ Post(TradeCommand("Sell", frame.focus, amount, FALSE))
    BY <1>6, Zenon DEF ClickBuy, ClickSell
  <2>. QED
    BY <2>2, <2>3, Zenon
<1>7. CASE ClickSellAll
  <2>1. frame.focus \in Symbols =>
            [type |-> "Flatten", symbol |-> frame.focus] \in Commands
    BY DEF Commands
  <2>. QED
    BY <1>4, <1>7, <2>1 DEF ClickSellAll
<1>. QED
  BY <1>1, <1>2, <1>3, <1>5, <1>6, <1>7 DEF Click

LEMMA WellformedStep ==
    Wellformed /\ [TerminalNext]_terminalVars => Wellformed'
<1>. SUFFICES ASSUME Wellformed, [TerminalNext]_terminalVars PROVE Wellformed'
  OBVIOUS
<1>. USE DEF Wellformed, sourceVars, watchVars, engineVars, guiVars
<1>1. CASE SourcesMove /\ UNCHANGED guiVars
  <2>1. /\ UNCHANGED <<quotes, cmds, pending, killPosted, focus, view, frame>>
        /\ \/ \E s \in CryptoListed, quote \in Books : CryptoTick(s, quote)
           \/ \E s \in StockListed, quote \in Books : StockTick(s, quote)
           \/ UniverseArrives
    BY <1>1 DEF SourcesMove
  <2>2. cryptoQuotes' \in Quotes /\ stockQuotes' \in Quotes
    <3>1. ASSUME NEW s, NEW quote \in Books, CryptoTick(s, quote)
          PROVE  cryptoQuotes' \in Quotes /\ stockQuotes' \in Quotes
      BY <3>1 DEF CryptoTick, Quotes
    <3>2. ASSUME NEW s, NEW quote \in Books, StockTick(s, quote)
          PROVE  cryptoQuotes' \in Quotes /\ stockQuotes' \in Quotes
      BY <3>2 DEF StockTick, Quotes
    <3>. QED
      BY <2>1, <3>1, <3>2 DEF UniverseArrives
  <2>. QED
    BY <2>1, <2>2, Zenon DEF Drawable
<1>2. CASE DrawFrame
  BY <1>2, Zenon DEF DrawFrame, Drawable
<1>3. CASE Click
  <2>1. PICK c \in Commands : Post(c)
    BY <1>3, ClickPosts
  <2>2. killPosted' \in BOOLEAN
    BY <2>1 DEF Post
  <2>3. cmds' \in Seq(Posted)
    <3>1. [command |-> c, late |-> killPosted] \in Posted
      BY DEF Posted
    <3>. QED
      BY <2>1, <3>1 DEF Post
  <2>. QED
    BY <2>1, <2>2, <2>3, Zenon DEF Post, Drawable
<1>4. CASE Drain /\ UNCHANGED guiVars
  <2>1. <<>> \in Seq(Posted)
    OBVIOUS
  <2>. QED
    BY <1>4, <2>1, Zenon DEF Drain, Drawable
<1>5. CASE Process /\ UNCHANGED guiVars
  <2>. DEFINE c == Head(pending).command
  <2>1. c \in Commands
    <3>1. Head(pending) \in Posted
      BY <1>5 DEF Process
    <3>. QED
      BY <3>1 DEF Posted
  <2>2. pending' \in Seq(Posted)
    BY <1>5 DEF Process
  <2>3. focus' \in Symbols
    <3>1. \/ SetFocus(c) \/ AddSymbol(c) \/ PlaceOrder(c)
          \/ FlattenPosition(c) \/ Halt(c)
      BY <1>5 DEF Process
    <3>. HIDE DEF c
    <3>. QED
      BY <2>1, <3>1, CommandKinds
         DEF SetFocus, AddSymbol, AddStock, AddCrypto, AlreadyWatched, Focus,
             PlaceOrder, FlattenPosition, Halt
  <2>. QED
    BY <1>5, <2>2, <2>3, Zenon DEF Process, Drawable
<1>6. CASE Refresh /\ UNCHANGED guiVars
  <2>1. quotes' \in Quotes
    BY <1>6 DEF Refresh, RefreshedQuotes, Quotes
  <2>2. view'.focus = focus
    BY <1>6 DEF Refresh, Publish
  <2>. QED
    BY <1>6, <2>1, <2>2, Zenon DEF Refresh, Drawable
<1>7. CASE UNCHANGED terminalVars
  BY <1>7, Zenon DEF terminalVars, Drawable
<1>. QED
  BY <1>1, <1>2, <1>3, <1>4, <1>5, <1>6, <1>7 DEF TerminalNext, EngineStep

LEMMA AlwaysWellformed == TerminalSpec => []Wellformed
BY InitWellformed, WellformedStep, PTL DEF TerminalSpec

\* Every behaviour of the desk is, for the account, a behaviour of the pipeline
\* (engine.cpp:134-196 over oms.cpp).
THEOREM DeskIsPipeline == TerminalSpec => Spec
<1>1. TerminalInit => Init
  BY DEF TerminalInit, EngineInit
<1>. QED
  BY <1>1, PipelineStep, AlwaysWellformed, PTL DEF TerminalSpec, Spec

\* The same, as the run states it.
THEOREM DeskImplementsOrderManager == TerminalSpec => ImplementsOrderManager
<1>1. [Next]_vars => [UNCHANGED vars \/ Next]_vars
  OBVIOUS
<1>. QED
  BY <1>1, DeskIsPipeline, PTL DEF Spec, ImplementsOrderManager

\* However stale the frames, and however many exits are clicked from one of
\* them, no position leaves the limits of the pipeline.
THEOREM DeskLongOnly == TerminalSpec => []PositionsWithinLimits
BY DeskIsPipeline, LongOnly, PTL

-----------------------------------------------------------------------------
(* KILL is the last word.  A command clicked after KILL has a Kill ahead of  *)
(* it, in its own queue or in the one taken before, until trading is halted. *)

IsKill(q, i) == q[i].command.type = "Kill"

HasKill(q) == \E i \in 1 .. Len(q) : IsKill(q, i)

LateBehindKill(q, halted) ==
    \A i \in 1 .. Len(q) :
        q[i].late => halted \/ \E j \in 1 .. Len(q) : j < i /\ IsKill(q, j)

KillInQueue == killed \/ HasKill(pending) \/ HasKill(cmds)

KillAhead ==
    /\ phase = "sleep" => pending = <<>>
    /\ killPosted => KillInQueue
    /\ LateBehindKill(pending, killed)
    /\ LateBehindKill(cmds, killed \/ HasKill(pending))

LEMMA InitKillAhead == TerminalInit => KillAhead
BY DEF TerminalInit, EngineInit, KillAhead, LateBehindKill

LEMMA PostKillAhead ==
    ASSUME Wellformed, KillAhead, NEW c \in Commands, Post(c)
    PROVE  KillAhead'
<1>1. /\ cmds \in Seq(Posted)
      /\ cmds' = Append(cmds, [command |-> c, late |-> killPosted])
      /\ killPosted' = (killPosted \/ c.type = "Kill")
      /\ UNCHANGED <<killed, pending, phase>>
  BY DEF Post, Wellformed, vars, engineVars
<1>2. /\ Len(cmds') = Len(cmds) + 1 /\ Len(cmds) \in Nat
      /\ \A i \in 1 .. Len(cmds) : cmds'[i] = cmds[i]
      /\ cmds'[Len(cmds) + 1] = [command |-> c, late |-> killPosted]
  BY <1>1
<1>3. HasKill(cmds) => HasKill(cmds')
  BY <1>2 DEF HasKill, IsKill
<1>4. c.type = "Kill" => HasKill(cmds')
  BY <1>2 DEF HasKill, IsKill
<1>5. killPosted' => KillInQueue'
  BY <1>1, <1>3, <1>4 DEF KillAhead, KillInQueue
<1>6. LateBehindKill(cmds, killed \/ HasKill(pending))'
  <2>. SUFFICES ASSUME NEW i \in 1 .. Len(cmds'), cmds'[i].late,
                       ~(killed \/ HasKill(pending))
                PROVE  \E j \in 1 .. Len(cmds') : j < i /\ IsKill(cmds', j)
    BY <1>1 DEF LateBehindKill
  <2>1. CASE i \in 1 .. Len(cmds)
    <3>1. PICK j \in 1 .. Len(cmds) : j < i /\ IsKill(cmds, j)
      BY <1>2, <2>1 DEF KillAhead, LateBehindKill
    <3>. QED
      BY <1>2, <3>1 DEF IsKill
  <2>2. CASE i = Len(cmds) + 1
    <3>1. HasKill(cmds)
      BY <1>2, <2>2 DEF KillAhead, KillInQueue
    <3>. QED
      BY <1>2, <2>2, <3>1 DEF HasKill, IsKill
  <2>. QED
    BY <1>2, <2>1, <2>2
<1>. QED
  BY <1>1, <1>5, <1>6, Zenon DEF KillAhead, LateBehindKill

LEMMA ProcessKillAhead ==
    ASSUME Wellformed, KillAhead, TypeOK, Process, UNCHANGED guiVars
    PROVE  KillAhead'
<1>1. /\ pending \in Seq(Posted) /\ pending # <<>>
      /\ pending' = Tail(pending) /\ phase # "sleep"
      /\ UNCHANGED <<cmds, phase, killPosted>>
  BY DEF Process, Wellformed, guiVars
<1>2. /\ Len(pending) \in Nat \ {0} /\ Len(pending') = Len(pending) - 1
      /\ \A i \in 1 .. Len(pending') : pending'[i] = pending[i + 1]
  BY <1>1
<1>3. killed => killed'
  BY ProcessStep, KilledStep
<1>4. IsKill(pending, 1) => killed'
  <2>1. Head(pending) = pending[1]
    BY <1>1
  <2>. QED
    BY <2>1 DEF Process, IsKill, SetFocus, AddSymbol, PlaceOrder, FlattenPosition,
                Halt, Kill, Trip, Sides
<1>5. HasKill(pending) => killed' \/ HasKill(pending')
  <2>. SUFFICES ASSUME NEW i \in 1 .. Len(pending), IsKill(pending, i), i # 1
                PROVE  HasKill(pending')
    BY <1>4 DEF HasKill
  <2>1. i - 1 \in 1 .. Len(pending') /\ pending'[i - 1] = pending[i]
    BY <1>2
  <2>. QED
    BY <2>1 DEF HasKill, IsKill
<1>6. LateBehindKill(pending, killed)'
  <2>. SUFFICES ASSUME NEW i \in 1 .. Len(pending'), pending'[i].late, ~killed'
                PROVE  \E j \in 1 .. Len(pending') : j < i /\ IsKill(pending', j)
    BY DEF LateBehindKill
  <2>1. PICK j \in 1 .. Len(pending) : j < i + 1 /\ IsKill(pending, j)
    BY <1>2, <1>3 DEF KillAhead, LateBehindKill
  <2>2. j - 1 \in 1 .. Len(pending') /\ j - 1 < i /\ pending'[j - 1] = pending[j]
    BY <1>2, <1>4, <2>1
  <2>. QED
    BY <2>1, <2>2 DEF IsKill
<1>7. LateBehindKill(cmds, killed \/ HasKill(pending))'
  BY <1>1, <1>3, <1>5 DEF KillAhead, LateBehindKill, HasKill, IsKill
<1>8. killPosted' => KillInQueue'
  BY <1>1, <1>3, <1>5 DEF KillAhead, KillInQueue, HasKill, IsKill
<1>. QED
  BY <1>1, <1>6, <1>7, <1>8 DEF KillAhead

LEMMA KillAheadStep ==
    TypeOK /\ Wellformed /\ KillAhead /\ [TerminalNext]_terminalVars => KillAhead'
<1>. SUFFICES ASSUME TypeOK, Wellformed, KillAhead, [TerminalNext]_terminalVars
              PROVE  KillAhead'
  OBVIOUS
<1>1. CASE Click
  BY <1>1, ClickPosts, PostKillAhead
<1>2. CASE Process /\ UNCHANGED guiVars
  BY <1>2, ProcessKillAhead
<1>3. CASE Drain /\ UNCHANGED guiVars
  <2>1. /\ pending = <<>> /\ pending' = cmds /\ cmds' = <<>>
        /\ phase' = "run" /\ UNCHANGED <<killed, killPosted>>
    BY <1>3 DEF Drain, guiVars, vars, KillAhead
  <2>2. ~HasKill(pending)
    BY <2>1 DEF HasKill
  <2>3. LateBehindKill(pending, killed)'
    BY <2>1, <2>2 DEF KillAhead, LateBehindKill, IsKill
  <2>4. LateBehindKill(cmds, killed \/ HasKill(pending))'
    BY <2>1 DEF LateBehindKill
  <2>5. killPosted' => KillInQueue'
    BY <2>1, <2>2 DEF KillAhead, KillInQueue, HasKill, IsKill
  <2>. QED
    BY <2>1, <2>3, <2>4, <2>5 DEF KillAhead
<1>4. CASE Refresh /\ UNCHANGED guiVars
  <2>1. pending = <<>> /\ UNCHANGED <<killed, killPosted, pending, cmds>>
    BY <1>4 DEF Refresh, guiVars, vars
  <2>. QED
    BY <2>1 DEF KillAhead, KillInQueue, LateBehindKill, HasKill, IsKill
<1>5. CASE (SourcesMove /\ UNCHANGED guiVars) \/ DrawFrame \/ UNCHANGED terminalVars
  <2>1. UNCHANGED <<killed, killPosted, pending, cmds, phase>>
    BY <1>5 DEF SourcesMove, DrawFrame, terminalVars, guiVars, engineVars, vars
  <2>. QED
    BY <2>1 DEF KillAhead, KillInQueue, LateBehindKill, HasKill, IsKill
<1>. QED
  BY <1>1, <1>2, <1>3, <1>4, <1>5 DEF TerminalNext, EngineStep

LEMMA LateCommandDoesNotTrade ==
    ASSUME TypeOK, Wellformed, KillAhead, Process, Head(pending).late
    PROVE  UNCHANGED <<portfolioVars, fills>>
<1>1. pending \in Seq(Posted) /\ pending # <<>>
  BY DEF Wellformed, Process
<1>2. Len(pending) \in Nat \ {0} /\ pending[1].late
  BY <1>1
<1>3. killed
  BY <1>2 DEF KillAhead, LateBehindKill
<1>. QED
  BY <1>3, ProcessStep, KilledStep

\* No command clicked after KILL ever trades, for any number of commands, cycles
\* and frames between them.
THEOREM KillIsTheLastWord == TerminalSpec => NothingTradesAfterKillPosted
<1>1. TerminalSpec => []TypeOK
  BY DeskIsPipeline, TypeCorrect, PTL
<1>2. TerminalSpec => []KillAhead
  BY <1>1, InitKillAhead, KillAheadStep, AlwaysWellformed, PTL DEF TerminalSpec
<1>3. TypeOK /\ Wellformed /\ KillAhead /\ [TerminalNext]_terminalVars
        => [Process /\ Head(pending).late
              => UNCHANGED <<portfolioVars, fills>>]_terminalVars
  BY LateCommandDoesNotTrade
<1>. QED
  BY <1>1, <1>2, <1>3, AlwaysWellformed, PTL
     DEF TerminalSpec, NothingTradesAfterKillPosted

-----------------------------------------------------------------------------
(* The engine's quotes between two refreshes are those it last published.    *)

QuotesPublished == view.quotes = quotes

LEMMA InitQuotesPublished == TerminalInit => QuotesPublished
BY DEF TerminalInit, EngineInit, QuotesPublished, EmptyView

LEMMA QuotesPublishedStep ==
    QuotesPublished /\ [TerminalNext]_terminalVars => QuotesPublished'
<1>. SUFFICES ASSUME QuotesPublished, [TerminalNext]_terminalVars
              PROVE  QuotesPublished'
  OBVIOUS
<1>1. CASE Refresh
  BY <1>1 DEF Refresh, Publish, QuotesPublished
<1>2. ASSUME NEW c, Post(c) PROVE UNCHANGED <<view, quotes>>
  BY <1>2 DEF Post, engineVars
<1>3. CASE Click
  <2>1. UNCHANGED <<view, quotes>>
    BY <1>2, <1>3 DEF Click, ClickKill, TypeSymbol, ClickRow, ClickFlatten,
                      ClickBuy, ClickSell, ClickSellAll
  <2>. QED
    BY <2>1 DEF QuotesPublished
<1>4. CASE Drain \/ Process \/ SourcesMove \/ DrawFrame \/ UNCHANGED terminalVars
  <2>1. UNCHANGED <<view, quotes>>
    BY <1>4 DEF Drain, Process, SourcesMove, DrawFrame, terminalVars, engineVars
  <2>. QED
    BY <2>1 DEF QuotesPublished
<1>. QED
  BY <1>1, <1>3, <1>4 DEF TerminalNext, EngineStep

\* A call that brings a fill brings the one of its signal at its quote.
LEMMA SubmitFills ==
    ASSUME TypeOK, NEW sig \in Signal, NEW quote \in Books, Submit(sig, quote),
           fills' # fills
    PROVE  Last(fills') = TradeFill(sig, quote)
<1>1. Trade(sig, quote)
  BY SubmitCases DEF NoTrade
<1>2. fills \in Seq(Fill) /\ fills' = Append(fills, TradeFill(sig, quote))
  BY <1>1 DEF Trade, TypeOK
<1>. QED
  BY <1>2 DEF Last

LEMMA ProcessFills ==
    ASSUME TypeOK, Wellformed, Process, fills' # fills
    PROVE  LET f == Last(fills')
           IN  /\ quotes[f.symbol] # None
               /\ f.price = Touch(quotes[f.symbol], f.side)
<1>. DEFINE c == Head(pending).command
            quote == quotes[c.symbol]
<1>1. c \in Commands
  <2>1. pending \in Seq(Posted) /\ pending # <<>>
    BY DEF Wellformed, Process
  <2>2. Head(pending) \in Posted
    BY <2>1
  <2>. QED
    BY <2>2 DEF Posted
<1>2. \/ SetFocus(c) \/ AddSymbol(c) \/ PlaceOrder(c)
      \/ FlattenPosition(c) \/ Halt(c)
  BY DEF Process
<1>. HIDE DEF c
<1>3. ~(SetFocus(c) \/ AddSymbol(c) \/ Halt(c))
  BY DEF SetFocus, AddSymbol, Halt, Kill, vars, orderVars
<1>4. \E sig \in Signal :
          /\ sig.symbol = c.symbol /\ quote # None /\ c.symbol \in Symbols
          /\ Submit(sig, quote)
  <2>1. CASE PlaceOrder(c)
    <3>1. c \in TradeCommands /\ c.symbol \in Symbols
      BY <1>1, <2>1, CommandKinds, TradeCommandFields DEF PlaceOrder
    <3>2. /\ quote # None /\ OrderSize(c, quote) > 0
          /\ Submit(OrderSignal(c, quote), quote)
      BY <2>1 DEF PlaceOrder, vars
    <3>3. quote \in Books
      BY <3>1, <3>2 DEF Wellformed, Quotes
    <3>4. OrderSignal(c, quote) \in Signal
      BY <3>1, <3>2, <3>3, EngineAssumption, OrderManagerAssumption
    <3>5. OrderSignal(c, quote).symbol = c.symbol
      BY DEF OrderSignal
    <3>. QED
      BY <3>1, <3>2, <3>4, <3>5
  <2>2. CASE FlattenPosition(c)
    <3>1. c.symbol \in Symbols
      BY <1>1, <2>2, CommandKinds DEF FlattenPosition
    <3>2. quote # None /\ NetQty(c.symbol) > Eps /\ Flatten(c.symbol, quote)
      BY <2>2 DEF FlattenPosition, vars
    <3>3. NetQty(c.symbol) \in Nat
      BY <3>1, <3>2, OrderManagerAssumption DEF NetQty, TypeOK, Position
    <3>4. FlattenSignal(c.symbol) \in Signal
      BY <3>1, <3>3 DEF FlattenSignal, Signal, Sides, OrderTypes
    <3>5. FlattenSignal(c.symbol).symbol = c.symbol
      BY DEF FlattenSignal
    <3>. QED
      BY <3>1, <3>2, <3>4, <3>5 DEF Flatten
  <2>. QED
    BY <1>2, <1>3, <2>1, <2>2
<1>5. PICK sig \in Signal :
          /\ sig.symbol = c.symbol /\ quote # None /\ c.symbol \in Symbols
          /\ Submit(sig, quote)
  BY <1>4
<1>6. quote \in Books
  BY <1>5 DEF Wellformed, Quotes
<1>7. Last(fills') = TradeFill(sig, quote)
  BY <1>5, <1>6, SubmitFills
<1>. QED
  BY <1>5, <1>7 DEF TradeFill

\* Every fill is at a price the terminal has published, whatever the sources did
\* in the meantime.
THEOREM FilledAsShown == TerminalSpec => FillsAtPublishedPrice
<1>1. TerminalSpec => []TypeOK
  BY DeskIsPipeline, TypeCorrect, PTL
<1>2. TerminalSpec => []QuotesPublished
  BY InitQuotesPublished, QuotesPublishedStep, PTL DEF TerminalSpec
<1>3. TypeOK /\ Wellformed /\ QuotesPublished /\ [TerminalNext]_terminalVars
        => [fills' # fills =>
              LET f == Last(fills')
              IN  /\ view.quotes[f.symbol] # None
                  /\ f.price = Touch(view.quotes[f.symbol], f.side)]_terminalVars
  <2>. SUFFICES ASSUME TypeOK, Wellformed, QuotesPublished,
                       [TerminalNext]_terminalVars, fills' # fills
                PROVE  LET f == Last(fills')
                       IN  /\ quotes[f.symbol] # None
                           /\ f.price = Touch(quotes[f.symbol], f.side)
    BY DEF QuotesPublished
  <2>1. Process
    BY OtherSteps DEF TerminalNext, EngineStep, vars
  <2>. QED
    BY <2>1, ProcessFills
<1>. QED
  BY <1>1, <1>2, <1>3, AlwaysWellformed, PTL DEF TerminalSpec, FillsAtPublishedPrice

-----------------------------------------------------------------------------
(* What a ticket in dollars buys.                                          *)

LEMMA DivisionRest ==
    ASSUME NEW a \in Nat, NEW t \in Nat \ {0}
    PROVE  (a \div t) * t <= a /\ (a \div t) * t > a - t
<1>. DEFINE q == a \div t
            r == a % t
<1>1. a = t * q + r /\ r \in 0 .. t - 1 /\ q \in Int
  OBVIOUS
<1>2. t * q = q * t
  BY <1>1
<1>. HIDE DEF q, r
<1>3. q * t <= a /\ q * t > a - t
  BY <1>1, <1>2
<1>. QED
  BY <1>3 DEF q

LEMMA TicketFills ==
    ASSUME TypeOK, Wellformed, Process, fills' # fills,
           Head(pending).command.type \in Sides, Head(pending).command.notional
    PROVE  LET c == Head(pending).command
               f == Last(fills')
           IN  f.qty * f.price <= c.amount /\ f.qty * f.price > c.amount - f.price
<1>. DEFINE c == Head(pending).command
            quote == quotes[c.symbol]
            t == Touch(quote, c.type)
<1>1. c \in TradeCommands /\ c.symbol \in Symbols
  <2>1. pending \in Seq(Posted) /\ pending # <<>>
    BY DEF Wellformed, Process
  <2>2. Head(pending) \in Posted
    BY <2>1
  <2>3. c \in Commands
    BY <2>2 DEF Posted
  <2>. QED
    BY <2>3, CommandKinds, TradeCommandFields
<1>2. PlaceOrder(c)
  <2>1. \/ SetFocus(c) \/ AddSymbol(c) \/ PlaceOrder(c)
        \/ FlattenPosition(c) \/ Halt(c)
    BY DEF Process
  <2>. QED
    BY <2>1 DEF SetFocus, AddSymbol, FlattenPosition, Halt, Sides
<1>3. c.notional /\ c.type \in Sides
  OBVIOUS
<1>. HIDE DEF c
<1>4. /\ quote # None /\ OrderSize(c, quote) > 0
      /\ Submit(OrderSignal(c, quote), quote)
  BY <1>2 DEF PlaceOrder, vars
<1>5. quote \in Books
  BY <1>1, <1>4 DEF Wellformed, Quotes
<1>6. OrderSignal(c, quote) \in Signal
  BY <1>1, <1>4, <1>5, EngineAssumption, OrderManagerAssumption
<1>7. Last(fills') = TradeFill(OrderSignal(c, quote), quote)
  BY <1>4, <1>5, <1>6, SubmitFills
<1>8. OrderSize(c, quote) = c.amount \div t /\ t > 0
  BY <1>3, <1>4 DEF OrderSize
<1>9. Last(fills').qty = c.amount \div t /\ Last(fills').price = t
  BY <1>7, <1>8 DEF TradeFill, OrderSignal
<1>10. c.amount \in Nat /\ t \in Nat \ {0}
  <2>1. c.amount \in Nat
    BY <1>1, EngineAssumption DEF TradeCommands
  <2>2. t \in Int
    BY <1>5, BooksAssumption, TouchType
  <2>. QED
    BY <1>8, <2>1, <2>2
<1>. HIDE DEF t, quote
<1>11. (c.amount \div t) * t <= c.amount /\ (c.amount \div t) * t > c.amount - t
  BY <1>10, DivisionRest
<1>. QED
  BY <1>9, <1>11 DEF c

\* A ticket in dollars trades those dollars to within one unit, at the price the
\* order crosses: never more than was asked for.
THEOREM DollarsSpentAsAsked == TerminalSpec => DollarsAreSpent
<1>1. TerminalSpec => []TypeOK
  BY DeskIsPipeline, TypeCorrect, PTL
<1>2. TypeOK /\ Wellformed /\ [TerminalNext]_terminalVars
        => [fills' # fills /\ Head(pending).command.type \in Sides =>
              LET c == Head(pending).command
                  f == Last(fills')
              IN  c.notional => /\ f.qty * f.price <= c.amount
                                /\ f.qty * f.price > c.amount - f.price]_terminalVars
  <2>. SUFFICES ASSUME TypeOK, Wellformed, [TerminalNext]_terminalVars, fills' # fills,
                       Head(pending).command.type \in Sides,
                       Head(pending).command.notional
                PROVE  LET c == Head(pending).command
                           f == Last(fills')
                       IN  /\ f.qty * f.price <= c.amount
                           /\ f.qty * f.price > c.amount - f.price
    OBVIOUS
  <2>1. Process
    BY OtherSteps DEF TerminalNext, EngineStep, vars
  <2>. QED
    BY <2>1, TicketFills
<1>. QED
  BY <1>1, <1>2, AlwaysWellformed, PTL DEF TerminalSpec, DollarsAreSpent
-----------------------------------------------------------------------------
(* Facts on the watch lists as sequences.                                  *)

LEMMA Appended ==
    ASSUME NEW D, NEW list \in Seq(D), NEW x \in D
    PROVE  /\ Append(list, x) \in Seq(D)
           /\ Range(Append(list, x)) = Range(list) \cup {x}
           /\ IsInjective(list) /\ x \notin Range(list)
                => IsInjective(Append(list, x))
<1>. DEFINE r == Append(list, x)
            l == Len(list)
<1>1. /\ l \in Nat /\ DOMAIN list = 1 .. l /\ DOMAIN r = 1 .. l + 1
      /\ r \in Seq(D) /\ r[l + 1] = x /\ \A i \in 1 .. l : r[i] = list[i]
  OBVIOUS
<1>. HIDE DEF r, l
<1>2. \A i \in 1 .. l + 1 : i \in 1 .. l \/ i = l + 1
  BY <1>1
<1>3. l + 1 \in 1 .. l + 1 /\ 1 .. l \subseteq 1 .. l + 1
  BY <1>1
<1>4. Range(r) = Range(list) \cup {x}
  BY <1>1, <1>2, <1>3 DEF Range
<1>5. IsInjective(list) /\ x \notin Range(list) => IsInjective(r)
  BY <1>1, <1>2 DEF IsInjective, Range
<1>. QED
  BY <1>1, <1>4, <1>5 DEF r

\* Adopting keeps what is there, brings only what was found, and brings it once.
Adoption(list, found, result, D) ==
    /\ result \in Seq(D)
    /\ Range(list) \subseteq Range(result)
    /\ Range(result) \subseteq Range(list) \cup Range(found)
    /\ IsInjective(list) => IsInjective(result)

Extended(list, x) == IF x \in Range(list) THEN list ELSE Append(list, x)

AdoptedUpTo(h, list, found, n) ==
    h = [k \in 0 .. n |-> IF k = 0 THEN list ELSE Extended(h[k - 1], found[k])]

LEMMA AdoptedExists ==
    ASSUME NEW list, NEW found, NEW n \in Nat
    PROVE  \E h : AdoptedUpTo(h, list, found, n)
<1>. DEFINE T == {m \in Nat : \E h : AdoptedUpTo(h, list, found, m)}
<1>1. 0 \in T
  <2>. DEFINE h == [k \in 0 .. 0 |-> list]
  <2>1. AdoptedUpTo(h, list, found, 0)
    BY DEF AdoptedUpTo
  <2>. QED
    BY <2>1
<1>2. ASSUME NEW m \in Nat, m \in T PROVE m + 1 \in T
  <2>1. PICK h : AdoptedUpTo(h, list, found, m)
    BY <1>2
  <2>. DEFINE g == [k \in 0 .. m + 1 |->
                       IF k = 0 THEN list ELSE Extended(h[k - 1], found[k])]
  <2>2. \A k \in 0 .. m : g[k] = h[k]
    BY <2>1 DEF AdoptedUpTo
  <2>3. \A k \in 0 .. m + 1 : k # 0 => k - 1 \in 0 .. m
    OBVIOUS
  <2>4. g = [k \in 0 .. m + 1 |->
                IF k = 0 THEN list ELSE Extended(g[k - 1], found[k])]
    <3>1. g = [k \in 0 .. m + 1 |->
                  IF k = 0 THEN list ELSE Extended(h[k - 1], found[k])]
      OBVIOUS
    <3>. HIDE DEF g
    <3>2. \A k \in 0 .. m + 1 : k # 0 => h[k - 1] = g[k - 1]
      BY <2>2, <2>3, Zenon
    <3>. QED
      BY <3>1, <3>2
  <2>. HIDE DEF g
  <2>5. \E h1 : AdoptedUpTo(h1, list, found, m + 1)
    BY <2>4 DEF AdoptedUpTo
  <2>. QED
    BY <2>5
<1>. HIDE DEF T
<1>3. n \in T
  BY <1>1, <1>2, AllNumbers
<1>. QED
  BY <1>3 DEF T

LEMMA AdoptedIs ==
    ASSUME NEW D, NEW list \in Seq(D), NEW found \in Seq(D)
    PROVE  Adoption(list, found, Adopted(list, found), D)
<1>. DEFINE n == Len(found)
            h == CHOOSE h : AdoptedUpTo(h, list, found, n)
<1>1. n \in Nat /\ DOMAIN found = 1 .. n
  OBVIOUS
<1>2. AdoptedUpTo(h, list, found, n)
  <2>. HIDE DEF n
  <2>. QED
    BY <1>1, AdoptedExists
<1>3. Adopted(list, found) = h[n]
  BY DEF Adopted, AdoptedUpTo, Extended
<1>. HIDE DEF h
<1>. DEFINE T == {m \in Nat : m <= n => Adoption(list, found, h[m], D)}
<1>4. 0 \in T
  <2>1. h[0] = list
    BY <1>1, <1>2 DEF AdoptedUpTo
  <2>. QED
    BY <2>1 DEF Adoption
<1>5. ASSUME NEW m \in Nat, m \in T PROVE m + 1 \in T
  <2>. SUFFICES ASSUME m + 1 <= n PROVE Adoption(list, found, h[m + 1], D)
    OBVIOUS
  <2>1. Adoption(list, found, h[m], D)
    BY <1>1, <1>5
  <2>2. m + 1 \in 0 .. n /\ m + 1 # 0 /\ (m + 1) - 1 = m /\ m + 1 \in 1 .. n
    BY <1>1
  <2>3. h[m + 1] = Extended(h[m], found[m + 1])
    BY <1>2, <2>2 DEF AdoptedUpTo
  <2>4. found[m + 1] \in D /\ found[m + 1] \in Range(found)
    BY <1>1, <2>2 DEF Range
  <2>5. CASE found[m + 1] \in Range(h[m])
    BY <2>1, <2>3, <2>5 DEF Extended
  <2>6. CASE found[m + 1] \notin Range(h[m])
    <3>. DEFINE x == found[m + 1]
                g == h[m]
    <3>1. h[m + 1] = Append(g, x)
      BY <2>3, <2>6 DEF Extended
    <3>2. g \in Seq(D) /\ x \in D /\ x \notin Range(g)
      BY <2>1, <2>4, <2>6 DEF Adoption
    <3>. HIDE DEF g, x
    <3>3. /\ Append(g, x) \in Seq(D)
          /\ Range(Append(g, x)) = Range(g) \cup {x}
          /\ IsInjective(g) => IsInjective(Append(g, x))
      BY <3>2, Appended
    <3>. QED
      <4>1. Range(list) \subseteq Range(g) /\ Range(g) \subseteq Range(list) \cup Range(found)
        BY <2>1 DEF Adoption, g
      <4>2. x \in Range(found)
        BY <2>4 DEF x
      <4>3. IsInjective(list) => IsInjective(g)
        BY <2>1 DEF Adoption, g
      <4>. QED
        BY <3>1, <3>3, <4>1, <4>2, <4>3 DEF Adoption
  <2>. QED
    BY <2>5, <2>6
<1>. HIDE DEF T
<1>6. n \in T
  <2>. HIDE DEF n
  <2>. QED
    BY <1>1, <1>4, <1>5, AllNumbers
<1>. QED
  BY <1>1, <1>3, <1>6 DEF T

\* The rows are the symbols of the two lists, each under its class.
LEMMA RowsOfIs ==
    ASSUME NEW crypto \in Seq(Symbols), NEW stocks \in Seq(Symbols)
    PROVE  /\ RowsOf(crypto, stocks) \in Seq(Row)
           /\ \A row \in Range(RowsOf(crypto, stocks)) :
                 \/ \E s \in Range(crypto) : row = Watched(s, "Crypto")
                 \/ \E s \in Range(stocks) : row = Watched(s, "Stock")
           /\ \A s \in Range(crypto) :
                 Watched(s, "Crypto") \in Range(RowsOf(crypto, stocks))
           /\ \A s \in Range(stocks) :
                 Watched(s, "Stock") \in Range(RowsOf(crypto, stocks))
<1>. DEFINE m == Len(crypto)
            n == Len(stocks)
            rows == RowsOf(crypto, stocks)
<1>1. /\ m \in Nat /\ n \in Nat /\ DOMAIN crypto = 1 .. m /\ DOMAIN stocks = 1 .. n
      /\ \A i \in 1 .. m : crypto[i] \in Symbols
      /\ \A i \in 1 .. n : stocks[i] \in Symbols
  OBVIOUS
<1>2. rows = [i \in 1 .. m + n |-> IF i <= m THEN Watched(crypto[i], "Crypto")
                                   ELSE Watched(stocks[i - m], "Stock")]
  BY DEF RowsOf
<1>. HIDE DEF m, n, rows
<1>3. /\ DOMAIN rows = 1 .. m + n
      /\ \A i \in 1 .. m : i \in 1 .. m + n /\ rows[i] = Watched(crypto[i], "Crypto")
      /\ \A i \in 1 .. n : m + i \in 1 .. m + n /\ rows[m + i] = Watched(stocks[i], "Stock")
  <2>1. ASSUME NEW i \in 1 .. m
        PROVE  i \in 1 .. m + n /\ rows[i] = Watched(crypto[i], "Crypto")
    BY <1>1, <1>2
  <2>2. ASSUME NEW i \in 1 .. n
        PROVE  m + i \in 1 .. m + n /\ rows[m + i] = Watched(stocks[i], "Stock")
    <3>1. m + i \in 1 .. m + n /\ ~(m + i <= m) /\ (m + i) - m = i
      BY <1>1
    <3>. QED
      BY <1>2, <3>1
  <2>. QED
    BY <1>2, <2>1, <2>2
<1>4. \A i \in 1 .. m + n : i \in 1 .. m \/ \E j \in 1 .. n : i = m + j
  <2>. SUFFICES ASSUME NEW i \in 1 .. m + n, i \notin 1 .. m
                PROVE  \E j \in 1 .. n : i = m + j
    OBVIOUS
  <2>1. i - m \in 1 .. n /\ i = m + (i - m)
    BY <1>1
  <2>. QED
    BY <2>1
<1>5. \A s \in Symbols, class \in Classes : Watched(s, class) \in Row
  BY DEF Watched, Row
<1>6. \A i \in 1 .. m + n : rows[i] \in Row
  BY <1>1, <1>3, <1>4, <1>5 DEF Classes
<1>7. rows \in Seq(Row)
  <2>1. m + n \in Nat
    BY <1>1
  <2>2. rows \in [1 .. m + n -> Row]
    BY <1>2, <1>6
  <2>. QED
    BY <2>1, <2>2
<1>8. ASSUME NEW row \in Range(rows)
      PROVE  \/ \E s \in Range(crypto) : row = Watched(s, "Crypto")
             \/ \E s \in Range(stocks) : row = Watched(s, "Stock")
  <2>1. PICK i \in 1 .. m + n : row = rows[i]
    BY <1>3 DEF Range
  <2>2. CASE i \in 1 .. m
    <3>1. crypto[i] \in Range(crypto) /\ row = Watched(crypto[i], "Crypto")
      BY <1>1, <1>3, <2>1, <2>2 DEF Range
    <3>. QED
      BY <3>1
  <2>3. ASSUME NEW j \in 1 .. n, i = m + j
        PROVE  \E s \in Range(stocks) : row = Watched(s, "Stock")
    <3>1. stocks[j] \in Range(stocks) /\ row = Watched(stocks[j], "Stock")
      BY <1>1, <1>3, <2>1, <2>3 DEF Range
    <3>. QED
      BY <3>1
  <2>. QED
    BY <1>4, <2>2, <2>3
<1>9. \A s \in Range(crypto) : Watched(s, "Crypto") \in Range(rows)
  BY <1>1, <1>3 DEF Range
<1>10. \A s \in Range(stocks) : Watched(s, "Stock") \in Range(rows)
  BY <1>1, <1>3 DEF Range
<1>. QED
  BY <1>7, <1>8, <1>9, <1>10 DEF rows

-----------------------------------------------------------------------------
(* The watch lists and the focus.  A symbol the user can name by clicking a  *)
(* row is still listed when the command runs: lists only grow, so what was   *)
(* listed when a view was published is listed in every frame drawn from it   *)
(* and in every command clicked there.                                       *)

Listed(s) == s \in Range(symbols) \cup Range(stockSymbols)

ListsOK ==
    /\ symbols \in Seq(Symbols) /\ stockSymbols \in Seq(Symbols)
    /\ NoRowTwice

SourcesOK ==
    /\ universe \in {<<>>, FeedUniverse} /\ requested \subseteq Symbols
    /\ RowsHaveASource

FocusesListed(queue) ==
    \A i \in DOMAIN queue :
        LET c == queue[i].command
        IN  c.type = "SetFocus" => Listed(c.symbol)

RowsListed(v) == \A row \in Range(v.rows) : Listed(row.symbol)

NamesListed ==
    /\ FocusesListed(cmds) /\ FocusesListed(pending)
    /\ view \in View /\ frame \in View
    /\ RowsListed(view) /\ RowsListed(frame)

FocusOK ==
    /\ focus \in Symbols /\ Listed(focus) /\ histRequested \subseteq Symbols
    /\ chart \in {None, Watched(focus, ClassOf(focus))}
    /\ chart # None /\ ClassOf(focus) = "Crypto" => focus \in histRequested

DrawnOK == viewChart \in Chart /\ ChartIsOfFocus

SwitchesOK == phase \in {"sleep", "run"} /\ universeSeen \in BOOLEAN

DeskInv ==
    /\ Wellformed /\ ListsOK /\ SourcesOK /\ NamesListed
    /\ FocusOK /\ DrawnOK /\ SwitchesOK

LEMMA NothingListed == Range(<<>>) = {}
BY DEF Range

LEMMA DeskInit == TerminalInit => DeskInv
<1>. SUFFICES ASSUME TerminalInit PROVE DeskInv
  OBVIOUS
<1>1. /\ symbols = InitialSymbols /\ stockSymbols = <<>> /\ universe = <<>>
      /\ requested = {} /\ cmds = <<>> /\ pending = <<>> /\ phase = "sleep"
      /\ focus = Head(InitialSymbols) /\ chart = None /\ histRequested = {}
      /\ universeSeen = FALSE /\ view = EmptyView /\ frame = EmptyView
      /\ viewChart = None
  BY DEF TerminalInit, EngineInit
<1>2. Wellformed
  BY InitWellformed
<1>3. ListsOK
  <2>1. <<>> \in Seq(Symbols) /\ IsInjective(<<>>)
    BY DEF IsInjective
  <2>. QED
    BY <1>1, <2>1, EngineAssumption DEF ListsOK, NoRowTwice
<1>4. SourcesOK
  BY <1>1 DEF SourcesOK, RowsHaveASource, Range
<1>5. NamesListed
  <2>1. EmptyView \in View
    <3>1. NoQuotes \in Quotes
      BY DEF NoQuotes, Quotes
    <3>2. <<>> \in Seq(Row)
      OBVIOUS
    <3>. QED
      BY <3>1, <3>2 DEF EmptyView, View
  <2>2. RowsListed(EmptyView)
    BY NothingListed DEF RowsListed, EmptyView
  <2>. QED
    BY <1>1, <2>1, <2>2 DEF NamesListed, RowsListed, FocusesListed
<1>6. FocusOK
  <2>1. focus \in Symbols /\ focus \in Range(symbols)
    BY <1>1, EngineAssumption DEF Range
  <2>. QED
    BY <1>1, <2>1 DEF FocusOK, Listed
<1>7. DrawnOK
  BY <1>1 DEF DrawnOK, ChartIsOfFocus, Chart, EmptyView
<1>8. SwitchesOK
  BY <1>1 DEF SwitchesOK
<1>. QED
  BY <1>2, <1>3, <1>4, <1>5, <1>6, <1>7, <1>8 DEF DeskInv

\* What a command does to the watch lists, the focus and the chart.
Refocused(s) == Listed(s) /\ Focus(s) /\ UNCHANGED <<symbols, stockSymbols, requested>>

LEMMA CommandMoves ==
    ASSUME Wellformed, NamesListed, Process
    PROVE  \/ UNCHANGED watchVars
           \/ \E s \in Symbols : Refocused(s)
           \/ \E s \in Symbols : AddStock(s)
           \/ \E s \in Symbols : AddCrypto(s)
<1>. DEFINE c == Head(pending).command
<1>1. pending \in Seq(Posted) /\ pending # <<>>
  BY DEF Wellformed, Process
<1>2. c \in Commands
  <2>1. Head(pending) \in Posted
    BY <1>1
  <2>. QED
    BY <2>1 DEF Posted
<1>3. c.type = "SetFocus" => Listed(c.symbol)
  <2>1. 1 \in DOMAIN pending /\ Head(pending) = pending[1]
    BY <1>1
  <2>. QED
    BY <2>1 DEF NamesListed, FocusesListed
<1>4. \/ SetFocus(c) \/ AddSymbol(c) \/ PlaceOrder(c)
      \/ FlattenPosition(c) \/ Halt(c)
  BY DEF Process
<1>. HIDE DEF c
<1>5. CASE SetFocus(c)
  <2>1. c.symbol \in Symbols
    BY <1>2, <1>5, CommandKinds DEF SetFocus
  <2>. QED
    BY <1>3, <1>5, <2>1 DEF SetFocus, Refocused, watchVars
<1>6. CASE AddSymbol(c)
  <2>1. c.symbol \in Symbols
    BY <1>2, <1>6, CommandKinds DEF AddSymbol
  <2>. QED
    BY <1>6, <2>1 DEF AddSymbol, AlreadyWatched
<1>7. CASE PlaceOrder(c) \/ FlattenPosition(c) \/ Halt(c)
  BY <1>7 DEF PlaceOrder, FlattenPosition, Halt
<1>. QED
  BY <1>4, <1>5, <1>6, <1>7

\* Nothing but a command and a refresh moves them.
LEMMA OthersLeaveWatch ==
    [TerminalNext]_terminalVars =>
        \/ Process \/ Refresh
        \/ UNCHANGED <<watchVars, histRequested, universeSeen, view, viewChart>>
<1>1. ASSUME NEW c, Post(c)
      PROVE  UNCHANGED <<watchVars, histRequested, universeSeen, view, viewChart>>
  BY <1>1 DEF Post, engineVars
<1>2. Click => UNCHANGED <<watchVars, histRequested, universeSeen, view, viewChart>>
  BY <1>1 DEF Click, ClickKill, TypeSymbol, ClickRow, ClickFlatten, ClickBuy,
              ClickSell, ClickSellAll
<1>3. SourcesMove \/ DrawFrame \/ Drain \/ UNCHANGED terminalVars
        => UNCHANGED <<watchVars, histRequested, universeSeen, view, viewChart>>
  BY DEF SourcesMove, DrawFrame, Drain, terminalVars, engineVars
<1>. QED
  BY <1>2, <1>3 DEF TerminalNext, EngineStep

\* The refresh may extend the crypto list, by what the feed streams.
LEMMA RefreshLists ==
    ASSUME ListsOK, SourcesOK, Refresh
    PROVE  /\ Adoption(symbols, universe, symbols', Symbols)
           /\ UNCHANGED <<stockSymbols, requested, focus, universe>>
<1>1. universe \in Seq(Symbols)
  <2>1. <<>> \in Seq(Symbols)
    OBVIOUS
  <2>. QED
    BY <2>1, EngineAssumption DEF SourcesOK
<1>2. symbols \in Seq(Symbols)
  BY DEF ListsOK
<1>3. Adoption(symbols, universe, Adopted(symbols, universe), Symbols)
  BY <1>1, <1>2, AdoptedIs
<1>4. Adoption(symbols, universe, symbols, Symbols)
  BY <1>2 DEF Adoption
<1>5. symbols' = Adopted(symbols, universe) \/ symbols' = symbols
  BY DEF Refresh, AdoptUniverse
<1>6. UNCHANGED <<stockSymbols, requested, focus, universe>>
  BY DEF Refresh, sourceVars
<1>. QED
  BY <1>3, <1>4, <1>5, <1>6

ListsGrow ==
    /\ Range(symbols) \subseteq Range(symbols')
    /\ Range(stockSymbols) \subseteq Range(stockSymbols')

LEMMA ListsStep ==
    ASSUME DeskInv, [TerminalNext]_terminalVars
    PROVE  ListsOK' /\ ListsGrow
<1>. USE DEF DeskInv
<1>0. /\ symbols \in Seq(Symbols) /\ stockSymbols \in Seq(Symbols)
      /\ IsInjective(symbols) /\ IsInjective(stockSymbols)
  BY DEF ListsOK, NoRowTwice
<1>1. ASSUME UNCHANGED <<symbols, stockSymbols>> PROVE ListsOK' /\ ListsGrow
  BY <1>0, <1>1 DEF ListsOK, NoRowTwice, ListsGrow
<1>2. ASSUME NEW s \in Symbols, AddStock(s) PROVE ListsOK' /\ ListsGrow
  <2>1. /\ stockSymbols' = Append(stockSymbols, s) /\ s \notin Range(stockSymbols)
        /\ symbols' = symbols
    BY <1>2 DEF AddStock
  <2>. QED
    BY <1>0, <2>1, Appended DEF ListsOK, NoRowTwice, ListsGrow
<1>3. ASSUME NEW s \in Symbols, AddCrypto(s) PROVE ListsOK' /\ ListsGrow
  <2>1. /\ symbols' = Append(symbols, s) /\ s \notin Range(symbols)
        /\ stockSymbols' = stockSymbols
    BY <1>3 DEF AddCrypto
  <2>. QED
    BY <1>0, <2>1, Appended DEF ListsOK, NoRowTwice, ListsGrow
<1>4. CASE Process
  BY <1>1, <1>2, <1>3, <1>4, CommandMoves DEF Refocused, watchVars
<1>5. CASE Refresh
  BY <1>0, <1>5, RefreshLists DEF Adoption, ListsOK, NoRowTwice, ListsGrow
<1>. QED
  BY <1>1, <1>4, <1>5, OthersLeaveWatch DEF watchVars

LEMMA StillListed ==
    ASSUME ListsGrow, NEW s, Listed(s)
    PROVE  Listed(s)'
BY DEF ListsGrow, Listed

LEMMA SourcesStep ==
    ASSUME DeskInv, [TerminalNext]_terminalVars
    PROVE  SourcesOK'
<1>. USE DEF DeskInv
<1>. DEFINE known == Range(InitialSymbols) \cup Range(universe) \cup requested
<1>1. RowsHaveASource <=> Range(symbols) \subseteq known
  BY DEF RowsHaveASource, Range
<1>2. RowsHaveASource' <=> Range(symbols') \subseteq known'
  BY DEF RowsHaveASource, Range
<1>3. Range(symbols) \subseteq known /\ requested \subseteq Symbols
      /\ universe \in {<<>>, FeedUniverse}
  BY <1>1 DEF SourcesOK
<1>4. ASSUME Range(symbols') \subseteq known', requested' \subseteq Symbols,
             universe' \in {<<>>, FeedUniverse}
      PROVE  SourcesOK'
  BY <1>2, <1>4 DEF SourcesOK
<1>5. ASSUME UNCHANGED <<symbols, requested>>,
             universe' = universe \/ universe' = FeedUniverse
      PROVE  SourcesOK'
  <2>1. Range(universe) \subseteq Range(universe')
    BY <1>3, <1>5, NothingListed
  <2>. QED
    BY <1>3, <1>4, <1>5, <2>1
<1>6. ASSUME NEW s \in Symbols, AddCrypto(s), universe' = universe
      PROVE  SourcesOK'
  <2>1. symbols' = Append(symbols, s) /\ requested' = requested \cup {s}
    BY <1>6 DEF AddCrypto
  <2>2. Range(symbols') = Range(symbols) \cup {s}
    BY <2>1, Appended DEF ListsOK
  <2>. QED
    BY <1>3, <1>4, <1>6, <2>1, <2>2
<1>7. CASE Process
  <2>1. universe' = universe
    BY <1>7 DEF Process, sourceVars
  <2>. QED
    BY <1>5, <1>6, <1>7, <2>1, CommandMoves DEF Refocused, AddStock, watchVars
<1>8. CASE Refresh
  <2>1. /\ Range(symbols') \subseteq Range(symbols) \cup Range(universe)
        /\ UNCHANGED <<requested, universe>>
    BY <1>8, RefreshLists DEF Adoption
  <2>. QED
    BY <1>3, <1>4, <2>1
<1>9. CASE UNCHANGED watchVars /\ ~Process /\ ~Refresh
  <2>1. ASSUME NEW c, Post(c) PROVE universe' = universe
    BY <2>1 DEF Post, sourceVars
  <2>2. Click => universe' = universe
    BY <2>1 DEF Click, ClickKill, TypeSymbol, ClickRow, ClickFlatten, ClickBuy,
                ClickSell, ClickSellAll
  <2>3. universe' = universe \/ universe' = FeedUniverse
    BY <1>9, <2>2 DEF TerminalNext, EngineStep, Drain, DrawFrame, SourcesMove,
                      CryptoTick, StockTick, UniverseArrives, terminalVars, sourceVars
  <2>. QED
    BY <1>5, <1>9, <2>3 DEF watchVars
<1>. QED
  BY <1>7, <1>8, <1>9, OthersLeaveWatch

\* A click on a row names a symbol that is listed.
LEMMA ClickNames ==
    ASSUME NamesListed, Click
    PROVE  \E c : Post(c) /\ (c.type = "SetFocus" => Listed(c.symbol))
<1>1. ASSUME NEW s \in Symbols, ClickRow(s)
      PROVE  Post([type |-> "SetFocus", symbol |-> s]) /\ Listed(s)
  BY <1>1 DEF ClickRow, Shown, NamesListed, RowsListed, Range
<1>. DEFINE Other == \E c : Post(c) /\ c.type # "SetFocus"
<1>2. \/ \E s \in Symbols : ClickRow(s)
      \/ Other
  <2>1. ASSUME NEW side \in Sides, NEW s, NEW amount, NEW notional,
               Post(TradeCommand(side, s, amount, notional))
        PROVE  Other
    <3>1. TradeCommand(side, s, amount, notional).type # "SetFocus"
      BY DEF TradeCommand, Sides
    <3>. QED
      BY <2>1, <3>1, Zenon
  <2>2. ASSUME NEW s, Post([type |-> "Flatten", symbol |-> s]) PROVE Other
    BY <2>2
  <2>3. ASSUME NEW s, NEW class, TypeSymbol(s, class) PROVE Other
    BY <2>3 DEF TypeSymbol
  <2>4. ClickKill => Other
    BY DEF ClickKill
  <2>5. ASSUME NEW amount, NEW notional,
               ClickBuy(amount, notional) \/ ClickSell(amount, notional)
        PROVE  Other
    <3>1. \/ Post(TradeCommand("Buy", frame.focus, amount, notional))
          \/ Post(TradeCommand("Sell", frame.focus, amount, notional))
      BY <2>5, Zenon DEF ClickBuy, ClickSell
    <3>2. "Buy" \in Sides /\ "Sell" \in Sides
      BY DEF Sides
    <3>. QED
      BY <2>1, <3>1, <3>2, Zenon
  <2>6. ASSUME NEW s, ClickFlatten(s) PROVE Other
    BY <2>2, <2>6 DEF ClickFlatten
  <2>7. ClickSellAll => Other
    BY <2>2 DEF ClickSellAll
  <2>. HIDE DEF Other
  <2>. QED
    BY <2>3, <2>4, <2>5, <2>6, <2>7, Zenon DEF Click
<1>3. ASSUME NEW s \in Symbols, ClickRow(s)
      PROVE  \E c : Post(c) /\ (c.type = "SetFocus" => Listed(c.symbol))
  <2>. DEFINE c == [type |-> "SetFocus", symbol |-> s]
  <2>1. Post(c) /\ Listed(c.symbol)
    BY <1>1, <1>3
  <2>. QED
    BY <2>1
<1>. QED
  BY <1>2, <1>3

LEMMA QueueGrows ==
    ASSUME NEW queue \in Seq(Posted), NEW p, p.command.type = "SetFocus"
                                             => Listed(p.command.symbol),
           FocusesListed(queue)
    PROVE  FocusesListed(Append(queue, p))
<1>1. \A i \in DOMAIN Append(queue, p) :
         Append(queue, p)[i] = p
         \/ (i \in DOMAIN queue /\ Append(queue, p)[i] = queue[i])
  OBVIOUS
<1>. QED
  BY <1>1, Zenon DEF FocusesListed

LEMMA QueueShrinks ==
    ASSUME NEW queue \in Seq(Posted), queue # <<>>, FocusesListed(queue)
    PROVE  FocusesListed(Tail(queue))
<1>1. \A i \in DOMAIN Tail(queue) :
         i + 1 \in DOMAIN queue /\ Tail(queue)[i] = queue[i + 1]
  OBVIOUS
<1>. QED
  BY <1>1, Zenon DEF FocusesListed

\* The queue after a step, judged by the lists before it.
LEMMA NamesMove ==
    ASSUME DeskInv, [TerminalNext]_terminalVars
    PROVE  FocusesListed(cmds') /\ FocusesListed(pending')
<1>1. /\ cmds \in Seq(Posted) /\ pending \in Seq(Posted)
      /\ FocusesListed(cmds) /\ FocusesListed(pending)
  BY DEF DeskInv, Wellformed, NamesListed
<1>2. CASE Click
  <2>1. PICK c : Post(c) /\ (c.type = "SetFocus" => Listed(c.symbol))
    BY <1>2, ClickNames DEF DeskInv
  <2>. DEFINE p == [command |-> c, late |-> killPosted]
  <2>2. cmds' = Append(cmds, p) /\ pending' = pending
    BY <2>1 DEF Post, engineVars
  <2>3. p.command.type = "SetFocus" => Listed(p.command.symbol)
    BY <2>1
  <2>. HIDE DEF p
  <2>4. FocusesListed(Append(cmds, p))
    BY <1>1, <2>3, QueueGrows
  <2>. QED
    BY <1>1, <2>2, <2>4
<1>3. CASE Process
  <2>1. /\ cmds' = cmds /\ pending' = Tail(pending) /\ pending # <<>>
    BY <1>3 DEF Process
  <2>. QED
    BY <1>1, <2>1, QueueShrinks
<1>4. CASE Drain
  <2>1. FocusesListed(<<>>)
    BY DEF FocusesListed
  <2>. QED
    BY <1>1, <1>4, <2>1 DEF Drain
<1>5. CASE SourcesMove \/ DrawFrame \/ Refresh \/ UNCHANGED terminalVars
  <2>1. UNCHANGED <<cmds, pending>>
    BY <1>5 DEF SourcesMove, DrawFrame, Refresh, terminalVars, engineVars
  <2>. QED
    BY <1>1, <2>1
<1>. QED
  BY <1>2, <1>3, <1>4, <1>5 DEF TerminalNext, EngineStep

\* What a refresh publishes.
LEMMA Published ==
    ASSUME TypeOK, DeskInv, Wellformed', ListsOK', Refresh
    PROVE  /\ view' \in View /\ view'.focus = focus' /\ viewChart' = chart'
           /\ Range(view'.rows)
                = {Watched(s, "Crypto") : s \in Range(symbols')}
                    \cup {Watched(s, "Stock") : s \in Range(stockSymbols')}
<1>1. /\ symbols' \in Seq(Symbols) /\ stockSymbols' \in Seq(Symbols)
      /\ stockSymbols' = stockSymbols /\ focus' = focus /\ focus \in Symbols
      /\ quotes' \in Quotes
  BY DEF ListsOK, DeskInv, FocusOK, Wellformed, Refresh
<1>2. /\ view' = [killed |-> killed, cash |-> cash, net |-> NetQuantities,
                  quotes |-> quotes', rows |-> RowsOf(symbols', stockSymbols),
                  focus |-> focus]
      /\ viewChart' = chart'
  BY DEF Refresh, Publish
<1>. DEFINE rows == RowsOf(symbols', stockSymbols')
<1>3. /\ rows \in Seq(Row)
      /\ \A row \in Range(rows) :
            \/ \E s \in Range(symbols') : row = Watched(s, "Crypto")
            \/ \E s \in Range(stockSymbols') : row = Watched(s, "Stock")
      /\ \A s \in Range(symbols') : Watched(s, "Crypto") \in Range(rows)
      /\ \A s \in Range(stockSymbols') : Watched(s, "Stock") \in Range(rows)
  BY <1>1, RowsOfIs
<1>4. view'.rows = rows /\ view'.focus = focus'
  BY <1>1, <1>2
<1>. HIDE DEF rows
<1>5. Range(view'.rows)
        = {Watched(s, "Crypto") : s \in Range(symbols')}
            \cup {Watched(s, "Stock") : s \in Range(stockSymbols')}
  BY <1>3, <1>4
<1>6. NetQuantities \in [Symbols -> Int]
  BY DEF NetQuantities, NetQty, TypeOK, Position
<1>7. view' \in View
  <2>1. killed \in BOOLEAN /\ cash \in Int
    BY DEF TypeOK
  <2>2. RowsOf(symbols', stockSymbols) \in Seq(Row)
    BY <1>1, <1>3 DEF rows
  <2>. HIDE DEF TypeOK
  <2>. QED
    BY <1>1, <1>2, <1>6, <2>1, <2>2, Zenon DEF View
<1>. QED
  BY <1>2, <1>4, <1>5, <1>7

LEMMA NamesStep ==
    ASSUME TypeOK, DeskInv, Wellformed', ListsOK', ListsGrow, [TerminalNext]_terminalVars
    PROVE  NamesListed'
<1>. DEFINE names == Range(symbols) \cup Range(stockSymbols)
<1>0. names \subseteq names'
  BY DEF ListsGrow
<1>1. FocusesListed(cmds)' /\ FocusesListed(pending)'
  <2>1. FocusesListed(cmds') /\ FocusesListed(pending')
    BY NamesMove
  <2>. QED
    BY <1>0, <2>1 DEF FocusesListed, Listed
<1>2. /\ view \in View /\ frame \in View
      /\ \A row \in Range(view.rows) : row.symbol \in names'
      /\ \A row \in Range(frame.rows) : row.symbol \in names'
  BY <1>0 DEF DeskInv, NamesListed, RowsListed, Listed
<1>3. view' \in View /\ \A row \in Range(view'.rows) : row.symbol \in names'
  <2>1. CASE Refresh
    BY <2>1, Published DEF Watched
  <2>2. CASE Process
    BY <1>2, <2>2 DEF Process
  <2>. QED
    BY <1>2, <2>1, <2>2, OthersLeaveWatch
<1>4. frame' = frame \/ frame' = view
  <2>1. ASSUME NEW c, Post(c) PROVE frame' = frame
    BY <2>1 DEF Post
  <2>2. Click => frame' = frame
    BY <2>1 DEF Click, ClickKill, TypeSymbol, ClickRow, ClickFlatten, ClickBuy,
                ClickSell, ClickSellAll
  <2>. QED
    BY <2>2 DEF TerminalNext, DrawFrame, guiVars, terminalVars
<1>5. frame' \in View /\ \A row \in Range(frame'.rows) : row.symbol \in names'
  BY <1>2, <1>4
<1>. QED
  BY <1>1, <1>3, <1>5 DEF NamesListed, RowsListed, Listed

LEMMA FocusStep ==
    ASSUME DeskInv, ListsGrow, [TerminalNext]_terminalVars
    PROVE  FocusOK'
<1>1. /\ focus \in Symbols /\ Listed(focus) /\ histRequested \subseteq Symbols
      /\ chart \in {None, Watched(focus, ClassOf(focus))}
      /\ chart # None /\ ClassOf(focus) = "Crypto" => focus \in histRequested
      /\ symbols \in Seq(Symbols) /\ stockSymbols \in Seq(Symbols)
  BY DEF DeskInv, FocusOK, ListsOK
<1>2. ASSUME UNCHANGED <<focus, chart, stockSymbols, histRequested>>
      PROVE  FocusOK'
  BY <1>1, <1>2 DEF FocusOK, Listed, ListsGrow, ClassOf
<1>3. ASSUME NEW s \in Symbols, focus' = s, chart' = None,
             histRequested' = histRequested,
             s \in Range(symbols') \cup Range(stockSymbols')
      PROVE  FocusOK'
  BY <1>1, <1>3 DEF FocusOK, Listed
<1>4. CASE Process
  <2>1. histRequested' = histRequested
    BY <1>4 DEF Process
  <2>2. ASSUME NEW s \in Symbols, Refocused(s) PROVE FocusOK'
    BY <1>3, <2>1, <2>2 DEF Refocused, Focus, Listed
  <2>3. ASSUME NEW s \in Symbols, AddStock(s) PROVE FocusOK'
    <3>1. s \in Range(stockSymbols')
      BY <1>1, <2>3, Appended DEF AddStock
    <3>. QED
      BY <1>3, <2>1, <2>3, <3>1 DEF AddStock, Focus
  <2>4. ASSUME NEW s \in Symbols, AddCrypto(s) PROVE FocusOK'
    <3>1. s \in Range(symbols')
      BY <1>1, <2>4, Appended DEF AddCrypto
    <3>. QED
      BY <1>3, <2>1, <2>4, <3>1 DEF AddCrypto, Focus
  <2>. QED
    BY <1>2, <1>4, <2>1, <2>2, <2>3, <2>4, CommandMoves DEF watchVars, DeskInv
<1>5. CASE Refresh
  <2>1. /\ stockSymbols' = stockSymbols /\ focus' = focus
        /\ histRequested' = histRequested
                \cup IF ClassOf(focus) = "Crypto" THEN {focus} ELSE {}
        /\ chart' \in {chart, Watched(focus, ClassOf(focus))}
    BY <1>5 DEF Refresh, RequestHistory, RefreshChart
  <2>. QED
    BY <1>1, <2>1 DEF FocusOK, Listed, ListsGrow, ClassOf
<1>. QED
  BY <1>2, <1>4, <1>5, OthersLeaveWatch DEF watchVars

LEMMA DrawnStep ==
    ASSUME TypeOK, DeskInv, Wellformed', ListsOK', FocusOK', [TerminalNext]_terminalVars
    PROVE  DrawnOK'
<1>1. viewChart \in Chart /\ ChartIsOfFocus
  BY DEF DeskInv, DrawnOK
<1>2. ASSUME UNCHANGED <<view, viewChart, histRequested>> PROVE DrawnOK'
  BY <1>1, <1>2 DEF DrawnOK, ChartIsOfFocus
<1>3. CASE Process
  BY <1>2, <1>3 DEF Process
<1>4. CASE Refresh
  <2>. DEFINE f == focus'
              rows == Range(view'.rows)
              stock == f \in Range(stockSymbols')
  <2>1. /\ view'.focus = f /\ viewChart' = chart'
        /\ rows = {Watched(s, "Crypto") : s \in Range(symbols')}
                    \cup {Watched(s, "Stock") : s \in Range(stockSymbols')}
    BY <1>4, Published
  <2>2. /\ f \in Symbols
        /\ f \in Range(symbols') \cup Range(stockSymbols')
        /\ chart' = None \/ chart' = Watched(f, IF stock THEN "Stock" ELSE "Crypto")
        /\ chart' # None /\ ~stock => f \in histRequested'
    BY DEF FocusOK, Listed, ClassOf
  <2>. HIDE DEF f, rows
  <2>3. \E row \in rows : row.symbol = f
    <3>1. Watched(f, "Crypto") \in rows \/ Watched(f, "Stock") \in rows
      BY <2>1, <2>2
    <3>2. Watched(f, "Crypto").symbol = f /\ Watched(f, "Stock").symbol = f
      BY DEF Watched
    <3>. QED
      BY <3>1, <3>2, Zenon
  <2>4. CASE chart' = None
    BY <2>1, <2>3, <2>4 DEF DrawnOK, ChartIsOfFocus, Chart, rows
  <2>5. CASE chart' # None /\ stock
    <3>1. viewChart' = Watched(f, "Stock") /\ viewChart' \in rows
      BY <2>1, <2>2, <2>5
    <3>2. viewChart' \in Chart /\ viewChart'.symbol = f /\ viewChart'.class = "Stock"
      BY <2>2, <3>1 DEF Watched, Chart, Row, Classes
    <3>. QED
      BY <2>1, <2>3, <3>1, <3>2 DEF DrawnOK, ChartIsOfFocus, rows
  <2>6. CASE chart' # None /\ ~stock
    <3>1. viewChart' = Watched(f, "Crypto") /\ viewChart' \in rows
      BY <2>1, <2>2, <2>6
    <3>2. viewChart' \in Chart /\ viewChart'.symbol = f
      BY <2>2, <3>1 DEF Watched, Chart, Row, Classes
    <3>3. Watched(f, "Stock") \notin rows
      BY <2>1, <2>6 DEF Watched
    <3>4. f \in histRequested'
      BY <2>2, <2>6
    <3>. QED
      BY <2>1, <2>3, <3>1, <3>2, <3>3, <3>4 DEF DrawnOK, ChartIsOfFocus, rows
  <2>. QED
    BY <2>4, <2>5, <2>6
<1>. QED
  BY <1>2, <1>3, <1>4, OthersLeaveWatch

LEMMA SwitchesStep ==
    ASSUME DeskInv, [TerminalNext]_terminalVars
    PROVE  SwitchesOK'
<1>1. phase \in {"sleep", "run"} /\ universeSeen \in BOOLEAN
  BY DEF DeskInv, SwitchesOK
<1>2. universeSeen' \in BOOLEAN
  <2>1. CASE Refresh
    BY <1>1, <2>1 DEF Refresh, AdoptUniverse
  <2>2. CASE Process
    BY <1>1, <2>2 DEF Process
  <2>. QED
    BY <1>1, <2>1, <2>2, OthersLeaveWatch
<1>3. phase' \in {"sleep", "run"}
  <2>1. ASSUME NEW c, Post(c) PROVE phase' = phase
    BY <2>1 DEF Post, engineVars
  <2>2. Click => phase' = phase
    BY <2>1 DEF Click, ClickKill, TypeSymbol, ClickRow, ClickFlatten, ClickBuy,
                ClickSell, ClickSellAll
  <2>. QED
    BY <1>1, <2>2 DEF TerminalNext, EngineStep, Drain, Process, Refresh, SourcesMove,
                      DrawFrame, engineVars, terminalVars
<1>. QED
  BY <1>2, <1>3 DEF SwitchesOK

LEMMA DeskStep ==
    TypeOK /\ DeskInv /\ [TerminalNext]_terminalVars => DeskInv'
<1>. SUFFICES ASSUME TypeOK, DeskInv, [TerminalNext]_terminalVars PROVE DeskInv'
  OBVIOUS
<1>1. Wellformed'
  BY WellformedStep DEF DeskInv
<1>2. ListsOK' /\ ListsGrow
  BY ListsStep
<1>3. SourcesOK'
  BY SourcesStep
<1>4. NamesListed'
  BY <1>1, <1>2, NamesStep
<1>5. FocusOK'
  BY <1>2, FocusStep
<1>6. DrawnOK'
  BY <1>1, <1>2, <1>5, DrawnStep
<1>7. SwitchesOK'
  BY SwitchesStep
<1>. QED
  BY <1>1, <1>2, <1>3, <1>4, <1>5, <1>6, <1>7 DEF DeskInv

LEMMA AlwaysDeskInv == TerminalSpec => []DeskInv
<1>1. TerminalSpec => []TypeOK
  BY DeskIsPipeline, TypeCorrect, PTL
<1>. QED
  BY <1>1, DeskInit, DeskStep, PTL DEF TerminalSpec

\* Every variable of the desk has its type, for any watch list, market and number
\* of commands.
THEOREM DeskTypesHold == TerminalSpec => []TerminalTypeOK
<1>1. TerminalSpec => []TypeOK
  BY DeskIsPipeline, TypeCorrect, PTL
<1>2. TypeOK /\ DeskInv => TerminalTypeOK
  <2>1. DeskInv => /\ focus \in Symbols
                   /\ chart \in Chart
    <3>1. \A s \in Symbols : Watched(s, ClassOf(s)) \in Row
      BY DEF Watched, Row, ClassOf, Classes
    <3>. QED
      BY <3>1, Zenon DEF DeskInv, FocusOK, Chart
  <2>. QED
    BY <2>1 DEF DeskInv, TerminalTypeOK, Wellformed, ListsOK, SourcesOK, NamesListed,
                FocusOK, DrawnOK, SwitchesOK
<1>. QED
  BY <1>1, <1>2, AlwaysDeskInv, PTL

\* No symbol is listed twice in its class, whether the user or the feed's universe
\* brings it first, and even when the universe repeats it (engine.cpp:122-124,
\* 137-149).
THEOREM ListedOnce == TerminalSpec => []NoRowTwice
<1>1. DeskInv => NoRowTwice
  BY DEF DeskInv, ListsOK
<1>. QED
  BY <1>1, AlwaysDeskInv, PTL

\* Every crypto row was there from the start, is streamed by the feed or has been
\* asked for.
THEOREM EveryRowHasASource == TerminalSpec => []RowsHaveASource
<1>1. DeskInv => RowsHaveASource
  BY DEF DeskInv, SourcesOK
<1>. QED
  BY <1>1, AlwaysDeskInv, PTL

\* Every view that is published shows the chart of its focused symbol, from the
\* source that symbol is listed under, and the symbol has a row.
THEOREM ChartShowsFocus == TerminalSpec => []ChartIsOfFocus
<1>1. DeskInv => ChartIsOfFocus
  BY DEF DeskInv, DrawnOK
<1>. QED
  BY <1>1, AlwaysDeskInv, PTL
=============================================================================
