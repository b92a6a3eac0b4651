# Execution Layer Terminal in TLA+

A verification development for the repository under `src/`: a paper-trading
terminal in C++ fed with market data by a Python feedhandler. The modules here
are translated from the code, TLC checks them on small instances, and TLAPS
proves what matters most for every instance.

## Inventory

| Component | State | Operations | Module |
|---|---|---|---|
| Order pipeline: `oms.cpp`, `risk.cpp`, `matching.cpp`, `portfolio.hpp`, `types.hpp` | cash, positions, closed rows, kill flag, orders, fills | submit, flatten, on_fill, kill | `Portfolio`, `RiskManager`, `OrderManager` |
| Feed link: `publisher.py`, buffers of `base.py`, `feed_server.cpp`, writers of `market_store.cpp` | caches, buffers, socket, kernel connections, store | emit, flush, connect, resync, poll, serve, restart | `FeedLink` |
| Control plane and Coinbase stream: `base.py`, `coinbase.py`, request queues of `market_store.cpp` | `_subscribed`, `_ws`, requested symbols, history requests | add symbol, poll, subscribe, reconnect, backfill | `ControlPlane` |
| Trading engine: `engine.cpp` | command queue, quotes, watch lists, focus, chart, view | post, drain, process, refresh, publish; start, stop | `Engine`; `Lifecycle` |
| GUI: `terminal_gui.cpp` | the frame's copy of the view | draw, every control that posts a command | `Terminal` |
| Stock feed: `stock_feed.cpp`, `alpaca_client.cpp` | watch list, deadline, quotes, charts, errors | watch, poll, back off, backfill, stop | `StockFeed` |
| Lifecycle: `feed_process.cpp`, `engine.cpp`, `__main__.py` | window, threads, socket, child process | start, stop, reap, crash, orphan exit | `Lifecycle` |
| Binance, mock, config, tests, build, `run.sh` | | | not modelled |

How they interact. The GUI posts commands to the engine's queue; the engine's
thread drains them into the order pipeline, reads quotes from `MarketStore` and
`StockFeed` (each with its own thread and mutexes) and publishes a view. The
feedhandler is one asyncio thread: the exchange stream, the flush loop (10/s)
and the control loop (every 2 s) interleave at their awaits and share the
publisher and its socket. The socket is the only link to the terminal: it
carries data one way, and the answer to a poll the other way.

What is hard:

- *Order pipeline.* No concurrency, but long histories: two gates, four paths
  through a position, one-sided books, a tolerance on quantities, and three
  places that price the same order. Correct means: money is conserved, nothing
  is oversold or bought on credit, limits and the kill switch hold on every
  path, and order, fill log, portfolio and closed rows agree.
- *Feed link.* Two processes that start, stop and lose each other at any moment
  between two writes. Correct means: whoever attaches is brought up to date,
  nothing is reordered, no buffer grows, no connection leaks, the feed outlives
  the terminal.
- *Control plane.* State sampled before an await and used after it; requests
  drained before their answer arrives.
- *Engine and GUI.* Three clocks: the frame shows the last view, the command
  runs a cycle later, the market moves in between. Correct means: KILL is the last
  word, fills are at prices that were shown, row, focus and chart belong together.
- *Stock feed.* Deadlines, backoff, and a symbol list that changes during a poll.
  Correct means: no burst of polls, charts run forward, every stock that Alpaca
  knows gets its quote.
- *Lifecycle.* Four threads and a child process that end in any order, one of
  them by a crash. Correct means: stop() ends and leaves nothing behind.

`PROJECT.json` lists the hazards line by line, with the property that covers
each, or the reason why none does.

## Modules

### Order pipeline

- `Market` has the vocabulary of `types.hpp`: sides, order types and statuses,
  quotes with `Touch` and `DoubleMid` (twice the midpoint, to stay in integers),
  signals and fills. `Symbols` and `Books` are its parameters.
- `Portfolio` is `portfolio.hpp` and `Position::apply`. A position keeps its
  *basis* (`net * avg_price`) rather than its average price; a partial exit
  takes a proportional share of it.
- `RiskManager` is `risk.cpp`: `Check` is gate 2, `Trip` the kill switch.
- `OrderManager` extends both and adds orders, fills, gate 1, the match and the
  operations. `Submit` and `Flatten` are one action each, since a call runs to
  completion on the engine's thread. Inside it the order of the code is kept:
  the order is stored, then matched, and `OnFill` looks up the order the fill
  names among those stored, changes it in place, and drops a fill it finds no
  order for. The quote is any book, because nothing obliges the market to be
  anywhere in particular when a call is made.
- `PaperAccount` is the abstract account: cash, a net quantity per symbol and a
  halt. A trade moves one quantity by some amount and cash by its price, within
  the limits; after the halt nothing moves. `OrderManager!ImplementsPaperAccount`
  is the refinement mapping (`net` is the positions' quantity, `halted` is
  `killed`, and orders, fills and rows are hidden).
- `MCOrderManager` is the instance for TLC, `OrderManagerProofs` the proofs;
  `AccountProofs` those about sums of money, over the lemmas of `SumLemmas`.

Abstractions. Doubles are integers: money in units of 1/3600 of a price tick, so
that averages over the quantities of the instance divide without remainder;
`Eps` stands for the 1e-12 of the code and is 1, large enough to matter. Rounding
of doubles is not modelled. Reject reasons, strategy names and timestamps are
left out. Signals have a price only when they are limits; the terminal itself
only sends market orders, the tests and the interface also limits.

### Feed link

`FeedLink` is the whole path from `emit_quote` to `MarketStore`. The feedhandler
is one thread, so `pc` says what it does next and the exchange waits while a
call runs; the terminal and its kernel do not wait, so a call is one step per
socket operation. `todo` holds the lines the call still has to write: the resync
first, when the call has just connected. `link` is `_sock` seen from outside:
`none`, `up`, `broken` (the terminal has gone, the next write is still accepted)
or `reset`. `conns` holds the kernel's connections with their unread lines; the
server reads the head. A `StopTerminal` loses them all, and the next terminal
starts with an empty store.

`caller` says whose call it is, because it decides what an exception does: in
the flush loop or the control loop's poll (`loop`) nothing catches it and it ends
the process; in the Coinbase reader and its catalog, and around the control loop's
subscribe and backfill (`guarded`, `base.py:126`, `130-134`), it is logged and the
task goes on.

The exchange answers every subscribe with the last trade there was, which the
handler emits like any other (`coinbase.py:208`): `EmitLastMatch` sends the newest
trade again, so a chart may have it twice in a row. The subscribes themselves are
in `ControlPlane`; here it may happen at any time, up to `MaxRepeats`.

A chart point is the time it belongs to: trade `k` is at `2k` and the candle of its
minute at `2k - 1`. `PublishHistory` is the end of `_backfill`: the candles were
fetched when any number of the trades had happened, and the trades after that may
still be in the feedhandler's buffer. `Backfill` is what the store makes of them.
`FeedLinkProofs` and `FeedStoreProofs` have the proofs.

Abstractions. Quotes are numbered by tick; a batch of quotes
is the newest row of each symbol, applied as one step (in the code each row is
applied under its own lock). There is one chart; that of each symbol is kept alike. Products, names and universe are cached and resent
alike; `universe` stands for the three. A live socket always takes a line.
The final flush of a dying process is left out: it finds the retry interval of
the failed connect still running and sends nothing.
Nothing restarts a dead feed: in the packaged terminal the child is started once
(`Lifecycle`).

### Control plane

`ControlPlane` follows a request from `TradingEngine::symbols_` through the
store's queue, the draft of an answer, the answer, and the control loop to
`_subscribed` and to the open stream; and a chart request to its backfill. The
control loop and the Coinbase loop are tasks of one asyncio thread, so `ctl` and
`run` name the await each is suspended at, and what runs between two awaits is
one step. A poll is a blocking call: while `ctl` is `polling` nothing else in the
feedhandler moves (`Blocked`). The server drains its two queues under two locks,
hence `TakeRequested` and `Answer`. `ControlPlaneProofs` has the proofs. `ws` is `_ws` as the code keeps it (still set
during the reconnect delay), `alive` and `onStream` are the exchange's truth.
`lost` and `settled` are history variables: requests and charts that were dropped
or done with.

It meets `FeedLink` at the poll and the universe. What `FeedLink` shows in detail
is one step here: an answer arrives, or it does not (`PollTimesOut`, with the poll
read later, or lost); the newest universe arrives at some time (`UniverseArrives`,
which is `StoreCatchesUp`). A poll without a terminal changes nothing. The
terminal does not restart.

### Engine and terminal

`Engine` extends `OrderManager` with `TradingEngine`: the queue `cmds`, the
thread's `pending` batch, its own quotes, watch lists, focus, chart and view.
`Drain` takes the queue, `Process` is `process()` of one command, `Refresh` is the
rest of the cycle up to the published view. Between two of them the GUI may post
and the sources may move, which is all another thread can do to this one; the
caches of `MarketStore` and `StockFeed` change by `SourcesMove`. A chart is the
symbol it belongs to and the source it was read from; the two timers of the cycle
(chart, catalog) are a choice to read or not to.

`Terminal` is the GUI thread over it: `DrawFrame` copies the view, and each click
posts what the copy allows. Text boxes are any amount. A row that is drawn in two
places posts the same command from both; positions and closed rows name symbols
that have a row, because watch lists never shrink. The ticket is for `v.focus`.
`late` marks the commands posted after a KILL and is history.

`TerminalSpec` implements `OrderManager!Spec` without a mapping: the variables are
the same. `MCTerminal` is the instance, `TerminalProofs` the proofs.

### Stock poller and lifecycle

`StockFeed` is the poller's thread. Time is whole seconds and relative: `wait` is
the deadline less now, clamped at `-Backoff` below, where no later comparison can
tell the difference; `age` is how long the request has run, up to the timeout of
curl. Time passes while the thread sleeps or waits for an answer (`Tick`). It sleeps
in steps of 50 ms and the system wakes it when it likes, so it may stay asleep any
time past its deadline; between two requests its steps take no time. `since` and
`before` are ghosts: how long ago the last poll began, and the one before. Whether Alpaca can be reached, `online`,
decides what a request returns at the moment it returns. Watch lists are sets: the
order in which symbols are prepared is any. A chart is the sequence of its points'
origins, bars or samples.

`Lifecycle` composes it with the life of the desk: the main thread's `window` goes
through `TradingEngine::stop` one join or signal at a time, the engine's thread
opens the server, starts the child and loops, the child lives, becomes a zombie or
is reaped, and the terminal may crash anywhere, which leaves an orphan. The
server's and the engine's data are in the other modules. `LifecycleProofs` has the
proofs.

## Runs

| Run | Shows | Bounds |
|---|---|---|
| `account` | 11 properties of the order pipeline, refinement included | 2 symbols, 5 books, 9 signals plus flatten, 4 orders |
| `feed_link` | 4 invariants of the link, `BackfillGoesInFront`, `EventuallyCurrent` | 2 symbols, 3 messages in all (of 3 ticks, 2 trades, 1 of them sent again, 1 universe, 1 backfill), 1 stop, 1 timeout, 2 connections, buffer and tape of 2 |
| `control_plane` | 4 invariants and 2 liveness properties of requests and charts | 2 symbols (1 at boot, delisted; 1 added), backfill of 1 product a poll, 1 late answer, 1 drop or failed connect |
| `subscribe_race`, `request_lost` | two statements of the code's documents that requests do not keep | the same, both symbols listed; no failure; one drop |
| `terminal` | GUI, engine and order pipeline composed: 5 invariants, 4 action properties with the refinement, and KILL reaching the screen | 2 symbols, 2 books (one with no ask), 3 commands, 2 changes of the sources, 1 ticket in dollars, 1 in units |
| `desk` | stock poller and lifecycle: 4 invariants, `NoBurstOfPolls`, 2 liveness properties | 2 stocks (1 unknown to Alpaca), interval 1, backoff 2, timeout 3, up to 2 bars, chart of 3, 1 look at the child |
| `notional_limit`, `limit_price`, `flatten_whole`, `closed_pnl`, `feed_survives` | five statements of the comments that the code does not keep | as above |

Why the bounds are enough. Four orders are the longest story one position has
(enter, add, partly exit, close or over-sell), and any shorter one can be told
with another symbol held; the books are two-sided, one-sided on either side
and empty, and the signals meet each limit from both sides. Position size 5
exceeds order size 3, so that a position can outgrow an order. In the link, two
ticks on two symbols separate "newest of all" from "newest of each"; one
stop and one timeout let three connections follow one another, the first two
cut off in different ways; a buffer of 2 and 3 ticks let a buffer overfill; two
trades and a backfill of up to two candles overfill the tape, and the backfill can
come before, between and after the trades; a trade sent again can follow itself or
be cut off from itself by a reconnect. The messages share one bound
(`MaxMessages`): every mix of three is explored.

In the terminal, three commands are the shortest story that has a KILL in the middle
(buy, kill, sell), and let a symbol be typed, listed as a stock and focused; two
changes of the sources let the price move between the frame, the fill and the
refresh, or the universe arrive first. In the desk, a timeout longer than the
backoff lets a failure outlast its own pause, and three polls in a row show a burst if
there is one; an unknown stock never gets bars or
quotes, and the chart cap of 3 is exceeded by bars, samples and both.

In the control plane, one added symbol can be at any stage while the boot symbol is
in another, and one drop lets the stream be connected twice, before and after it.

Deadlock. `ControlPlane` polls for ever. In `OrderManager`, `Kill` stays possible for ever, and so does every
flatten until the bound. `FeedLink` may stop: a feed process that has died does
nothing more; so may `Lifecycle`, once the terminal has closed or crashed. Their
configurations turn the check off. In `Terminal` the GUI always draws again.

Fairness (`FeedLink!Fairness`). Weak fairness of the steps of a call, of the
retry timer and of the server's thread: threads run. Strong fairness of the
flush timer and of the poll: each is enabled only between calls of the other,
and asyncio's ready queue is first in, first out, so neither starves the other.
Nothing is assumed of the exchange, of the user or of lost polls.
`ControlPlane!Fairness` is weak fairness of the server's two steps and of each
step of the control loop: threads run and each await ends, with success or an
error (both HTTP requests and sends on a dead socket do). The Coinbase loop is
given none, so what holds of requests holds whether or not the stream is ever up.
`EventuallyCurrent` assumes in its own formula that the terminal stays up.
`TerminalSpec`: weak fairness of the engine's step and of drawing, two loops
without a condition to wait for; nothing of clicks and of the market.
`Lifecycle!LifeFairness`: the threads run, time passes, SIGKILL ends a process and
an orphan's event loop comes round. SIGTERM need not do anything, Alpaca need not
answer; `WatchedGetsQuoted` assumes in its formula that from some time on it does.

## What the code does not keep

1. `notional_limit`: the notional check prices an order at the midpoint, which
   on a one-sided book is half the price it is filled at (`risk.cpp:29`).
2. `limit_price`: with no ask, a limit buy of any price is marketable and fills
   at the bid (`matching.cpp:18`). It is also the only way cash can go
   negative, which is what `CashCoversPurchases` states and `NeverOverdrawn` proves.
3. `flatten_whole`: flatten obeys the order limits. A position bought within all of
   them is worth more than `max_order_notional` after a rise of the bid, and its
   flatten is rejected (`oms.cpp:98`).
4. `closed_pnl`: partial exits appear in no closed row (`portfolio.hpp:66`).
5. `feed_survives`: a terminal that goes away during the resync ends the feed
   process with an `AttributeError` (`publisher.py:91`).
6. `subscribe_race`: a symbol requested while the stream connects is marked
   subscribed and is on no socket until the next reconnect (`coinbase.py:96`).
7. `request_lost`: a request that meets the reconnect delay, in which `_ws` is a
   closed socket, is dropped for good (`coinbase.py:112`); with a late answer in
   the bounds TLC finds that way too (`feed_server.cpp:213`).

Six more were met and have no run:

- `terminal_gui.cpp:241-246` says that every clickable row, Ticker Search included,
  posts SetFocus. The catalog posts only AddSymbol (`:553`), and adding a symbol
  that is watched already changes nothing (`engine.cpp:145`), so the ticket does not
  follow (`Engine!AlreadyWatched`).
- `terminal_gui.cpp:257-263` calls the prefilled quantity a precise exit. It is a
  float: it may exceed the holding by more than the 1e-12 of the sell gate, or leave
  a rest.
- `stock_feed.hpp:58-60` promises the first quote within an interval, which the
  backoff and a slow backfill do not keep.
- `stock_feed.cpp:12-14` says to wait 5 s after a failed poll. The backoff counts from
  the deadline, so after a request of 10 s the next poll comes at once
  (`stock_feed.cpp:90`). `NoBurstOfPolls` states what does hold.
- `market_store.hpp:46-52` says that stale candles never get into live tape. A backfill
  overtakes the trades that wait in the feedhandler's buffer (`coinbase.py:154`). Candles
  that arrive on an empty tape are all kept, and trades older than they are follow them.
  `BackfillGoesInFront` says only that a series in order stays so, `TapeInOrder` only
  that the trades do.
- `engine.cpp:200` marks positions at `mid()`, half the price on a one-sided quote.

## Proofs

`OrderManagerProofs` proves for all symbols, books, signals, limits and any
`Eps`, from the named assumptions of `Market`, `Portfolio`, `RiskManager` and
`OrderManager` only:

- `TypeCorrect`, by induction: `TypeOK` is inductive. Every other proof starts
  from it.
- `LongOnly`, `NeverOverdrawn`, `OrdersAndFillsAgree`: each invariant is
  inductive together with `TypeOK`. `AdmittedTrade` says what the two gates leave
  a fill able to do; `TradeEffect` what a fill does to cash and one position,
  whichever of the four paths `PositionApply` takes; `StepCases` splits a step
  into a trade, a recorded order and the halt, so that later proofs have three cases.
- `MoneyIsConserved`, `KillIsFinal`: action properties, from the same case split.
  The run has no `NothingTradesAfterKill`: the refinement says it too.
- `FillsReachOrders`: the order a fill finds among those stored is the last one
  (`FillFindsNewest`) and the fill fills it (`FillReachesOrder`), so an order that is
  left Sent had none.
- `RefinesPaperAccount`: initial states map to initial states, and each step to
  a step of the account or a stutter.

`TerminalProofs`, for any symbols, books, sizes and any number of clicks and ticks:

- `DeskIsPipeline`: a step of the terminal is a step of the order pipeline or leaves
  the account alone, given `Wellformed` (the types of the queue, and that an order
  worth making is a signal, which `EngineAssumption` says). `DeskImplementsOrderManager`
  is the same as the property of the run, which states `[Next]_vars` as
  `UNCHANGED vars \/ Next`: TLC then finds the stutter without trying every order.
  `DeskLongOnly` carries `LongOnly` over.
- `KillIsTheLastWord`: by `KillAhead`, every late command has a Kill ahead of it, in
  the batch, in the queue or already done; the batch is taken in order, so when a late
  command comes to run the switch is on, and `RiskManager!Check` refuses it.
- `FilledAsShown`: by `QuotesPublished`, the engine's quotes are those of the
  published view except before the first publication, when there are none.
- `DollarsSpentAsAsked`: the fill of a ticket is at the price its size was divided by,
  so what is left over is the rest of that division.

`LifecycleProofs`, for any stocks, intervals, caps and numbers of looks: `LifeTypeCorrect`,
`ClosedMeansGone`, `FeedHasItsServer`, `ChartsInOrder`, `PollsComeInNoBurst`, all
from one inductive invariant, `LifeInv`:

- `StockInv`: the types; `Prepared` (a stock is asked a quote of only after its
  backfill, which keeps samples behind bars); `OnSchedule` (a deadline is never before
  the end of the poll that set it, so never before the begin of that poll, and it is a
  gap behind the deadline before it; so from one begin to the next but one there is a
  gap at least); `StopCounted` (how long
  stop() has waited, by the request that runs).
- `Supervised`: what each stage of stop() has already ended, and that a child implies
  `pid`, a server and an engine that has started it. `FreshStocks`: the poller has
  not run before START DESK.

`TrimmedSuffix`, `BarsPrepended` and `SampleAppended` are the facts about the capped
series that the charts need.

`ControlPlaneProofs`, for any symbols, catalog, backfill limit and numbers of late
answers and drops: `ControlPlaneTypeCorrect`, `PollsAnsweredInTurn`,
`NothingHandedOutTwice`, `AnnouncedStaysSubscribed`, from `ControlInv`:

- `Waiting`: the feed waits for the last unanswered poll or for an answer that is on
  its way, never both; a draft is for a poll. So an answer given to a poll that was
  given up finds nobody.
- `Streaming`: what is announced, sampled or on the stream counts as subscribed, and
  before the catalog arrives there is none of the three, so what the catalog drops has
  not been announced.
- `OnItsWay`: a request on its way is for a watched symbol, so that it is not made a
  second time, and nothing is being subscribed between two subscribes.

`FeedLinkProofs` and `FeedStoreProofs`, for any symbols, buffers, backlog and numbers of
messages, stops and timeouts:

- `NoConnectionLeaks`. `LinkInv` adds to `OnlyLiveConnectionOpen` that a server that
  serves has a connection. The four operations on the list of connections (attach,
  use, close the newest, drop the oldest) are lemmas of their own.
- `FeedTypesHold`, from `TypeInv`, with one lemma per group of variables. The bound
  of the buffers is the part that is not obvious (`BuffersOK`): a stop of the
  terminal may leave one quote too many behind, but only once, when its reset is
  noticed; so the buffered quotes, and the reset still to be noticed, stay below
  the capacity plus the stops so far.
- `TerminalCatchesUp`. The lines on the newest connection, and those the current
  call has still to write, are one stream; `Tells` says that reading it leaves the
  terminal with what the publisher has cached, of each symbol's quote and of the
  universe alike. Where older connections are still to be read, whose lines may say
  anything older, the stream must say so by itself: that is what the resync is for,
  and why `StoreInv` is stronger than `StoreCatchesUp`.
- `ChartInOrder`. A trade waits in one of four places: the buffer, the messages to be
  written, one of the connections, the tape. `Staged` says that each place holds
  no trade older than any in the places it goes to, and `TapeInv` that no place has
  trades out of order; a step moves trades one place on, loses them, or adds the newest
  once more at the near end.
- `BackfillKeepsTape`, from the same invariant: `backfill_history` keeps a selection
  of points older than the tape, in their order, and no more than fit.

`AccountProofs`, with `SumLemmas`, for any finite set of symbols and any number of
orders:

- `FillsExplain`, `PnlIsConsistent`: each sum over the log or over the symbols moves
  by one term in a trade, and `TradeEffect` says what the term is. `PnlAddsUp` follows
  from `Balanced`, in which the marks, which are in both sums, no longer occur.
- `ClosedRowsCorrect`: a trade appends one fill to the log and leaves every earlier
  partial sum alone, so a fill stays flattening if it was; the new one is, just when
  the portfolio appends a row.
- `ExitsKeepTheAverage`: what `AverageUnmovedByExit` says, for every instance, up to
  the remainder of the model's integer division, which is less than one money unit.

`SumLemmas` has what a sum over a finite set is: `SumFunctionOnSet` takes the elements
out in an order it chooses, and the lemmas say that the order does not matter. The
library's induction theorems cannot be instantiated by the provers. `AllNumbers`
states induction for a set of numbers, proved from the existence of minimal elements
in a well-founded order; each proof defines the set it needs. `KeptIs` and `AdoptedIs`
(the loops of `backfill_history` and of the adoption of the universe) are proved the
same way.

The last part of `TerminalProofs` proves the four invariants of the desk:
`DeskTypesHold`, `ListedOnce`, `EveryRowHasASource`, `ChartShowsFocus`. They need
each other: `DeskInv` says that lists only grow, so that a symbol clicked in an old
frame is still listed when its command runs (`NamesListed`), so that the focus is
always listed (`FocusOK`), so that the view published next has a row for it
(`DrawnOK`). The chart is none or that of the focus under its class, because
everything that changes either drops it.

The assumptions are the named ones of the modules. Two are about the program's start:
`SymbolsAssumption` (finitely many symbols) and, in `EngineAssumption`, that the
boot list has no symbol twice (`terminal_gui.cpp:198`).

Only model-checked: `AverageUnmovedByExit` itself, which is exact in the integers of
the instance only, and liveness (`EventuallyCurrent`, `EveryRequestSettled`,
`EveryChartSettled`, `KillReachesTheScreen`, `EverythingEnds`, `WatchedGetsQuoted`),
which the installed provers do not reach. Every other property of a passing run is a
theorem.

## Not modelled

- `run.sh` and the Makefile: `run.sh` starts the two programs in a development tree and
  kills the feedhandler at the end, with no state of its own.
- A subscribe that fails after its send: `set_universe` may raise once it has cached the
  universe, if the terminal goes away during the call, and `_subscribed` is then not
  updated (`coinbase.py:119`, `base.py:124`). `ControlPlane`'s terminal stays;
  `FeedLink` has the error. A universe that is sent again unchanged at a reconnect has
  the effect of any other send and is left out.
- A relaunch of the terminal after a crash (`FeedLink` has terminals that follow one
  another; `Lifecycle` ends with the first).
- The other venues: Binance and mock use the same `BaseFeedHandler` and publisher.
- HTTP, JSON and WebSocket parsing, and rows of the wrong type: the publisher writes
  none.
- A socket whose buffer is full: `sendall` then blocks the feedhandler until the
  terminal reads again, by design.
- Drawing, the event log, the PnL series, the display names.
- Rounding of doubles, and threads of one process reading a row half written: every
  shared cache is copied under its mutex.
