----------------------------- MODULE StockFeed -----------------------------
(***************************************************************************)
(* The stock poller: StockFeed's thread over the AlpacaClient              *)
(* (src/cpp/src/stock_feed.cpp, alpaca_client.cpp).  It polls on deadlines,*)
(* backs off after a failure, and before a symbol's first quote backfills  *)
(* its chart and asks for its name, once.                                  *)
(*                                                                         *)
(* Time passes in whole seconds by Tick and is relative: wait is next_poll *)
(* minus now, age the time the running request has taken.  The thread may  *)
(* wake from its sleep any time after its deadline; between two requests   *)
(* its steps take no time.  Symbols are sets: nothing depends on the order *)
(* of the watch list.  A chart is the sequence of its points' origins.     *)
(***************************************************************************)
EXTENDS Integers, Sequences

CONSTANTS
    Stocks,       \* the symbols the user may watch
    Unknown,      \* those Alpaca has no bars, no name and no quote of
    Interval,     \* kQuoteInterval
    Backoff,      \* kErrorBackoff
    HttpTimeout,  \* CURLOPT_TIMEOUT: the time a request may take
    MaxBars,      \* bound: bars in an answer, kBackfillMinutes
    ChartCap,     \* kHistoryCap
    ErrorCap      \* the errors kept until the engine reads them

ASSUME StockFeedAssumption ==
    /\ Unknown \subseteq Stocks
    /\ {Interval, Backoff, HttpTimeout, MaxBars, ChartCap, ErrorCap}
          \subseteq Nat \ {0}
    /\ Interval <= Backoff

VARIABLES
    online,      \* Alpaca can be reached, and answers
    running,     \* running_
    poller,      \* what the thread does next, or the request it waits for
    watched,     \* symbols_
    syms, todo,  \* run()'s copy of it, and what of it is still to be prepared
    asked,       \* the symbols of the running request
    wait, age,
    backfilled, named,  \* backfilled_, the keys of names_
    quoted,      \* the keys of quotes_
    chart,       \* history_
    errors,      \* how many errors_ there are
    \* only for the properties
    since,       \* the time since the last poll began, as far as Backoff
    before,      \* the time since the one before it began, as far as Backoff
    failed,      \* the last poll failed
    stopping     \* how long stop() has been waiting for answers

requestVars == <<poller, asked, syms, todo, wait, age>>
cacheVars   == <<backfilled, named, quoted, chart>>
ghostVars   == <<since, before, failed, stopping>>

stockVars == <<online, running, watched, requestVars, cacheVars, errors, ghostVars>>

Requests == {"bars", "name", "quotes"}

Origins == {"bar", "sample"}

-----------------------------------------------------------------------------

\* The newest points of a chart, as many as are kept.
Trimmed(points) ==
    SubSeq(points, 1 + IF Len(points) > ChartCap THEN Len(points) - ChartCap ELSE 0,
           Len(points))

\* The schedule without the std::max: deadlines missed are made up for.
ScheduledFromDeadline(interval) == wait + interval

\* run()'s schedule_next: from the deadline, but never into the past.
Scheduled(interval) == IF wait + interval > 0 THEN wait + interval ELSE 0

\* note_error: the newest are kept.
NoteError == errors' = IF errors < ErrorCap THEN errors + 1 ELSE errors

\* StockFeed::start.
StartStocks ==
    /\ running' = TRUE /\ poller' = "idle"
    /\ UNCHANGED <<online, watched, asked, syms, todo, wait, age, cacheVars,
                   errors, ghostVars>>

\* The first half of StockFeed::stop; the second joins the thread.
StopStocks ==
    /\ running' = FALSE
    /\ UNCHANGED <<online, watched, requestVars, cacheVars, errors, ghostVars>>

\* StockFeed::watch of a symbol that is not watched yet; any other is a stutter.
Watch(s) ==
    /\ s \notin watched
    /\ watched' = watched \cup {s}
    /\ UNCHANGED <<online, running, requestVars, cacheVars, errors, ghostVars>>

\* StockFeed::errors, which the engine calls in every cycle.
DrainErrors ==
    /\ errors > 0
    /\ errors' = 0
    /\ UNCHANGED <<online, running, watched, requestVars, cacheVars, ghostVars>>

-----------------------------------------------------------------------------
(* The thread, run().                                                      *)

\* The deadline has come and nothing is watched.
SkipPoll ==
    /\ poller = "idle" /\ running /\ wait <= 0 /\ watched = {}
    /\ wait' = Scheduled(Interval)
    /\ UNCHANGED <<online, running, watched, poller, asked, syms, todo, age,
                   cacheVars, errors, ghostVars>>

\* The deadline has come: the watch list is copied.
BeginPoll ==
    /\ poller = "idle" /\ running /\ wait <= 0 /\ watched # {}
    /\ poller' = "symbols"
    /\ syms' = watched /\ todo' = watched \ (backfilled \cap named)
    /\ since' = 0 /\ before' = since
    /\ UNCHANGED <<online, running, watched, asked, wait, age, cacheVars, errors,
                   failed, stopping>>

\* The next symbol, without a look at running_.
PrepareRegardless(s) ==
    /\ poller = "symbols" /\ s \in todo
    /\ poller' = IF s \in backfilled THEN "name" ELSE "bars"
    /\ asked' = {s} /\ age' = 0
    /\ UNCHANGED <<online, running, watched, syms, todo, wait, cacheVars, errors,
                   ghostVars>>

\* The next symbol that needs something; what it needs is requested.
Prepare(s) ==
    /\ poller = "symbols" /\ running /\ s \in todo
    /\ poller' = IF s \in backfilled THEN "name" ELSE "bars"
    /\ asked' = {s} /\ age' = 0
    /\ UNCHANGED <<online, running, watched, syms, todo, wait, cacheVars, errors,
                   ghostVars>>

\* A symbol Alpaca has no bars of is asked for again, at once.
ReceiveBarsOrAskAgain(s) ==
    /\ poller = "bars" /\ asked = {s}
    /\ \/ /\ online /\ s \notin Unknown
          /\ \E n \in 1 .. MaxBars :
                chart' = [chart EXCEPT ![s] =
                            Trimmed([k \in 1 .. n |-> "bar"] \o @)]
          /\ backfilled' = backfilled \cup {s}
          /\ poller' = "name"
          /\ UNCHANGED errors
       \/ /\ ~online \/ s \in Unknown
          /\ NoteError
          /\ UNCHANGED <<poller, chart, backfilled>>
    /\ age' = 0
    /\ UNCHANGED <<online, running, watched, asked, syms, todo, wait, named, quoted,
                   ghostVars>>

\* recent_minute_bars returns, with no bars if it failed; the name is next,
\* whether or not stop() has been called meanwhile.
ReceiveBars(s) ==
    /\ poller = "bars" /\ asked = {s}
    /\ \/ /\ online /\ s \notin Unknown
          /\ \E n \in 1 .. MaxBars :
                chart' = [chart EXCEPT ![s] =
                            Trimmed([k \in 1 .. n |-> "bar"] \o @)]
          /\ UNCHANGED errors
       \/ /\ ~online \/ s \in Unknown
          /\ NoteError
          /\ UNCHANGED chart
    /\ backfilled' = backfilled \cup {s}
    /\ poller' = "name" /\ age' = 0
    /\ UNCHANGED <<online, running, watched, asked, syms, todo, wait, named, quoted,
                   ghostVars>>

\* asset_name returns, with an empty name if it failed.
ReceiveName(s) ==
    /\ poller = "name" /\ asked = {s}
    /\ named' = named \cup {s}
    /\ todo' = todo \ {s}
    /\ poller' = "symbols" /\ asked' = {} /\ age' = 0
    /\ UNCHANGED <<online, running, watched, syms, wait, backfilled, quoted, chart,
                   errors, ghostVars>>

\* The list as it is by now, not as it was when the poll began.
AskQuotesOfAllWatched ==
    /\ poller = "symbols" /\ running /\ todo = {}
    /\ poller' = "quotes"
    /\ asked' = watched /\ age' = 0
    /\ UNCHANGED <<online, running, watched, syms, todo, wait, cacheVars, errors,
                   ghostVars>>

\* latest_quotes of the copy, in one request.
AskQuotes ==
    /\ poller = "symbols" /\ running /\ todo = {}
    /\ poller' = "quotes"
    /\ asked' = syms /\ age' = 0
    /\ UNCHANGED <<online, running, watched, syms, todo, wait, cacheVars, errors,
                   ghostVars>>

EndPoll(interval) ==
    /\ wait' = Scheduled(interval)
    /\ poller' = "idle"
    /\ syms' = {} /\ asked' = {} /\ age' = 0

\* Quotes came: each is stored, and a sample of each that has a price on either
\* side goes on its chart.
ReceiveQuotes ==
    /\ poller = "quotes" /\ online
    /\ LET fresh == asked \ Unknown IN
       /\ fresh # {}
       /\ quoted' = quoted \cup fresh
       /\ \E priced \in SUBSET fresh :
             chart' = [s \in Stocks |-> IF s \in priced
                                        THEN Trimmed(Append(chart[s], "sample"))
                                        ELSE chart[s]]
    /\ EndPoll(Interval)
    /\ failed' = FALSE
    /\ UNCHANGED <<online, running, watched, todo, backfilled, named, errors, since,
                   before, stopping>>

\* No quotes came: a failure, or an answer without any.
QuotesFail ==
    /\ poller = "quotes" /\ (~online \/ asked \subseteq Unknown)
    /\ NoteError
    /\ EndPoll(Backoff)
    /\ failed' = TRUE
    /\ UNCHANGED <<online, running, watched, todo, cacheVars, since, before, stopping>>

\* The thread sees that it has been stopped, between two requests.
LeaveStocks ==
    /\ poller \in {"idle", "symbols"} /\ ~running
    /\ poller' = "ended"
    /\ UNCHANGED <<online, running, watched, asked, syms, todo, wait, age, cacheVars,
                   errors, ghostVars>>

-----------------------------------------------------------------------------
(* Time and the network.                                                   *)

NetworkChanges ==
    /\ online' = ~online
    /\ UNCHANGED <<running, watched, requestVars, cacheVars, errors, ghostVars>>

Down(n) == IF n > -Backoff THEN n - 1 ELSE n

Up(n, cap) == IF n < cap THEN n + 1 ELSE n

\* A second passes while the thread sleeps, even past its deadline, or waits for
\* an answer.  A deadline missed by Backoff is as good as one missed by more.
Tick ==
    /\ \/ poller = "idle"
       \/ poller \in Requests /\ age < HttpTimeout
    /\ wait' = Down(wait)
    /\ age' = IF poller \in Requests THEN age + 1 ELSE age
    /\ since' = Up(since, Backoff) /\ before' = Up(before, Backoff)
    /\ stopping' = IF running \/ poller = "idle" THEN stopping ELSE stopping + 1
    /\ UNCHANGED <<online, running, watched, poller, asked, syms, todo, cacheVars,
                   errors, failed>>

-----------------------------------------------------------------------------

\* A StockFeed that has not been started.
NoStocks ==
    /\ online \in BOOLEAN /\ running = FALSE /\ poller = "none" /\ watched = {}
    /\ asked = {} /\ syms = {} /\ todo = {}
    /\ wait = 0 /\ age = 0
    /\ backfilled = {} /\ named = {} /\ quoted = {}
    /\ chart = [s \in Stocks |-> <<>>]
    /\ errors = 0
    /\ since = Backoff /\ before = Backoff /\ failed = FALSE /\ stopping = 0

\* What the thread does by itself.
PollerStep ==
    \/ SkipPoll \/ BeginPoll \/ AskQuotes \/ ReceiveQuotes \/ QuotesFail
    \/ LeaveStocks
    \/ \E s \in Stocks : Prepare(s) \/ ReceiveBars(s) \/ ReceiveName(s)

StockTypeOK ==
    /\ online \in BOOLEAN /\ running \in BOOLEAN /\ failed \in BOOLEAN
    /\ poller \in {"none", "idle", "symbols", "ended"} \cup Requests
    /\ watched \subseteq Stocks /\ asked \subseteq Stocks
    /\ syms \subseteq Stocks /\ todo \subseteq Stocks
    /\ backfilled \subseteq Stocks /\ named \subseteq Stocks
    /\ quoted \subseteq Stocks
    /\ wait \in -Backoff .. Backoff /\ age \in 0 .. HttpTimeout
    /\ chart \in [Stocks -> Seq(Origins)]
    /\ \A s \in Stocks : Len(chart[s]) <= ChartCap
    /\ errors \in 0 .. ErrorCap
    /\ since \in 0 .. Backoff /\ before \in 0 .. Backoff /\ stopping \in Nat

\* stop() waits for two requests at most: the one that runs, and a name asked for
\* after bars (stock_feed.cpp:16-18, 114, 141).
StopsInTime == stopping <= 2 * HttpTimeout

BarsInFront(points) ==
    \A i, j \in DOMAIN points : points[i] = "sample" /\ points[j] = "bar" => j < i

HasSample(points) == \E i \in DOMAIN points : points[i] = "sample"

\* A chart has the minute bars up to the moment its symbol was added in front and
\* one sample per poll behind them (stock_feed.hpp:65-68): no sample is older
\* than the bars, because no symbol is quoted before its backfill, even one that
\* is watched in the middle of a poll (stock_feed.cpp:102, 113-143).
SamplesFollowBars ==
    \A s \in Stocks :
        /\ BarsInFront(chart[s])
        /\ HasSample(chart[s]) => s \in backfilled

\* However late the thread wakes and however slow a poll is, the polls it is
\* behind with are not made up for in a burst: of three polls in a row the last
\* begins an interval after the first or more, and the backoff if the second one
\* failed.  Two may follow each other at once, when the first is late or slow
\* (stock_feed.cpp:82-91).
NoBurstOfPolls ==
    [][poller = "idle" /\ poller' = "symbols"
         => before >= IF failed THEN Backoff ELSE Interval]_stockVars
=============================================================================
