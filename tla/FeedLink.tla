------------------------------ MODULE FeedLink ------------------------------
(***************************************************************************)
(* The link between the Python feedhandler and the C++ terminal: the       *)
(* publisher with its caches and reconnects (src/feedhandler/publisher.py, *)
(* the buffers of base.py), the localhost TCP connection, and the server   *)
(* that applies each line to the MarketStore (src/cpp/src/feed_server.cpp, *)
(* market_store.cpp).                                                      *)
(*                                                                         *)
(* The feedhandler is one thread: while a call of the publisher runs,      *)
(* nothing else in that process does, but the terminal and the network go  *)
(* on between two writes.  So a call is one step per socket operation, and *)
(* pc says which one is next.                                              *)
(*                                                                         *)
(* A quote is the number of the tick it came with, 0 meaning none.  A chart *)
(* point is the time it belongs to: trade k happens at 2k, in a minute of  *)
(* its own, whose candle starts at 2k - 1.  The catalog, the names and the *)
(* streaming universe are cached and resent alike; universe stands for the *)
(* three.                                                                  *)
(***************************************************************************)
EXTENDS Naturals, Sequences, SequencesExt

CONSTANTS
    Symbols,        \* the symbols the exchange streams
    MaxBuffer,      \* Config.max_buffer: a full buffer is flushed at once
    MaxConns,       \* connections the kernel holds: one served, the backlog
    MaxTape,        \* kHistoryCap: the points a chart keeps
    MaxMessages,    \* bound: quotes, trades, universes and backfills in all
    MaxTicks,       \* bound: quotes the exchange sends
    MaxTrades,      \* bound: trades the exchange sends
    MaxRepeats,     \* bound: trades it sends again after a subscribe
    MaxUniverses,   \* bound: times the streaming universe changes
    MaxBackfills,   \* bound: chart backfills
    MaxStops,       \* bound: times the terminal is stopped
    MaxTimeouts     \* bound: polls that are not answered in time

ASSUME FeedLinkAssumption ==
    /\ MaxBuffer \in Nat \ {0}
    /\ MaxConns \in Nat \ {0}
    /\ MaxTape \in Nat \ {0}
    /\ {MaxMessages, MaxTicks, MaxTrades, MaxRepeats, MaxUniverses, MaxBackfills,
        MaxStops, MaxTimeouts} \subseteq Nat

VARIABLES
    \* the exchange
    latest,         \* the newest quote of each symbol
    ticks, prints,  \* quotes and trades sent so far
    repeats,        \* trades sent again so far
    backfills,      \* charts backfilled so far
    \* the feedhandler
    pc,             \* what its thread does next
    todo,           \* the messages the running call still writes
    then,           \* pc once they are written
    caller,         \* what an error meets: a "loop" task, which it ends, or
                    \* an `except Exception` on the way ("guarded")
    quotes, trades, \* BaseFeedHandler._quotes, _trades
    lastQuotes,     \* FeedPublisher._last_quotes
    lastUniverse,   \* FeedPublisher._last_universe; 0 is empty
    link,           \* FeedPublisher._sock, and how its connection fares
    cooldown,       \* not yet _next_retry
    \* the connections, oldest first: unread lines, and has the feed closed?
    conns,
    \* the terminal
    listening,      \* FeedServer has its listening socket
    serving,        \* FeedServer serves Head(conns); MarketStore::connected()
    storeQuotes, storeUniverse, tape,   \* MarketStore; tape is history_
    stops, timeouts

exchangeVars == <<latest, ticks, prints, repeats, backfills>>
callVars     == <<pc, todo, then, caller>>
bufferVars   == <<quotes, trades>>
cacheVars    == <<lastQuotes, lastUniverse>>
socketVars   == <<link, cooldown>>
serverVars   == <<listening, serving>>
storeVars    == <<storeQuotes, storeUniverse, tape>>
boundVars    == <<stops, timeouts>>

dataVars     == <<bufferVars, cacheVars>>
terminalSide == <<serverVars, storeVars, boundVars>>

vars == <<exchangeVars, callVars, dataVars, socketVars, conns, terminalSide>>

-----------------------------------------------------------------------------
(* Messages.                                                               *)

NoQuotes == [s \in Symbols |-> 0]

QuotesMsg(rows) == [m |-> "quotes", rows |-> rows]
TradesMsg(list) == [m |-> "trades", list |-> list]
HistoryMsg(list) == [m |-> "history", list |-> list]
UniverseMsg(v)  == [m |-> "universe", version |-> v]
PollMsg         == [m |-> "poll"]

\* What rows say of each symbol, put over what was known: the last row wins.
Overlay(known, rows) ==
    [s \in Symbols |-> IF rows[s] # 0 THEN rows[s] ELSE known[s]]

\* A buffer of quotes as rows by symbol.
RowsOf(buffer) ==
    [s \in Symbols |->
        LET mine == {i \in DOMAIN buffer : buffer[i].symbol = s}
        IN  IF mine = {} THEN 0 ELSE buffer[Max(mine)].tick]

-----------------------------------------------------------------------------
(* The publisher's socket.                                                 *)

\* A resync that sends the catalog and leaves the quotes to the next ticks.
ResyncCatalogOnly(rows, universe) ==
    IF universe # 0 THEN <<UniverseMsg(universe)>> ELSE <<>>

\* FeedPublisher._resync: what a freshly attached terminal is told.
Resync(rows, universe) ==
    (IF universe # 0 THEN <<UniverseMsg(universe)>> ELSE <<>>)
    \o (IF rows # NoQuotes THEN <<QuotesMsg(rows)>> ELSE <<>>)

\* A connection to the terminal is accepted by its kernel.
Reachable == listening /\ Len(conns) < MaxConns

\* FeedPublisher._send: attach if need be, then write.  A message that finds no
\* terminal is dropped.  The cache is passed as it is by the time of the call.
Send(msg, rows, universe, cont) ==
    \/ /\ link # "none"
       /\ todo' = <<msg>>
       /\ pc' = "write" /\ then' = cont
       /\ UNCHANGED <<socketVars, conns>>
    \/ /\ link = "none" /\ ~cooldown /\ Reachable
       /\ link' = "up" /\ cooldown' = TRUE
       /\ conns' = Append(conns, [lines |-> <<>>, eof |-> FALSE, reply |-> FALSE])
       /\ todo' = Append(Resync(rows, universe), msg)
       /\ pc' = "write" /\ then' = cont
    \/ /\ link = "none"
       /\ cooldown \/ ~Reachable
       /\ cooldown' = TRUE
       /\ pc' = IF cont = "reply" THEN "idle" ELSE cont
       /\ UNCHANGED <<link, conns, todo, then>>

Written ==
    /\ todo' = Tail(todo)
    /\ pc' = IF Len(todo) = 1 THEN then ELSE "write"

\* FeedPublisher._write on a connection the terminal still holds.
WriteDelivered ==
    /\ pc = "write" /\ link = "up"
    /\ conns' = [conns EXCEPT ![Len(conns)].lines = Append(@, Head(todo))]
    /\ Written
    /\ UNCHANGED <<then, caller, exchangeVars, dataVars, socketVars,
                   terminalSide>>

\* The terminal has gone and its kernel has not said so yet: the write
\* succeeds and the line is lost.
WriteLost ==
    /\ pc = "write" /\ link = "broken"
    /\ link' = "reset"
    /\ Written
    /\ UNCHANGED <<then, caller, cooldown, exchangeVars, dataVars, conns,
                   terminalSide>>

\* The write fails and drops the socket.  If that was the message itself the
\* call is over.  If it was one of the resync, connect() returns True all the
\* same and the message is written to a socket that is None: an error no caller
\* in the publisher handles, which ends a loop task and with it the process, or
\* is caught: by the exchange reader, which takes it for a stream error, or by
\* the control loop, around a backfill.
WriteFails ==
    /\ pc = "write" /\ link \in {"broken", "reset"}
    /\ link' = "none"
    /\ todo' = <<>>
    /\ pc' = IF Len(todo) = 1 THEN (IF then = "reply" THEN "idle" ELSE then)
             ELSE IF caller = "loop" THEN "dead" ELSE "idle"
    /\ UNCHANGED <<then, caller, cooldown, exchangeVars, dataVars, conns,
                   terminalSide>>

\* FeedPublisher._next_retry comes due.
RetryDue ==
    /\ cooldown
    /\ cooldown' = FALSE
    /\ UNCHANGED <<exchangeVars, callVars, dataVars, link, conns,
                   terminalSide>>

-----------------------------------------------------------------------------
(* The feedhandler.                                                        *)

MoreMessages == ticks + prints + repeats + lastUniverse + backfills < MaxMessages

TradeTime(k) == 2 * k

CandleTime(k) == 2 * k - 1

\* A full buffer waits for the timer like any other.
EmitQuoteNeverFull(s) ==
    /\ pc = "idle" /\ MoreMessages /\ ticks < MaxTicks
    /\ ticks' = ticks + 1
    /\ latest' = [latest EXCEPT ![s] = ticks + 1]
    /\ quotes' = Append(quotes, [symbol |-> s, tick |-> ticks + 1])
    /\ UNCHANGED <<prints, repeats, backfills, callVars, trades, cacheVars, socketVars, conns,
                   terminalSide>>

\* BaseFeedHandler.emit_quote, called by the exchange stream.
EmitQuote(s) ==
    /\ pc = "idle" /\ MoreMessages /\ ticks < MaxTicks
    /\ ticks' = ticks + 1
    /\ latest' = [latest EXCEPT ![s] = ticks + 1]
    /\ quotes' = Append(quotes, [symbol |-> s, tick |-> ticks + 1])
    /\ pc' = IF Len(quotes') >= MaxBuffer THEN "trades" ELSE "idle"
    /\ caller' = "guarded"
    /\ UNCHANGED <<prints, repeats, backfills, todo, then, trades, cacheVars,
                   socketVars, conns, terminalSide>>

\* BaseFeedHandler.emit_trade.
EmitTrade ==
    /\ pc = "idle" /\ MoreMessages /\ prints < MaxTrades
    /\ prints' = prints + 1
    /\ trades' = Append(trades, TradeTime(prints + 1))
    /\ pc' = IF Len(trades') >= MaxBuffer THEN "trades" ELSE "idle"
    /\ caller' = "guarded"
    /\ UNCHANGED <<latest, ticks, repeats, backfills, todo, then, quotes, cacheVars,
                   socketVars, conns, terminalSide>>

\* The exchange answers a subscribe with last_match, the newest trade there is:
\* when the stream has reconnected, one it may have sent before.
EmitLastMatch ==
    /\ pc = "idle" /\ MoreMessages /\ prints > 0 /\ repeats < MaxRepeats
    /\ repeats' = repeats + 1
    /\ trades' = Append(trades, TradeTime(prints))
    /\ pc' = IF Len(trades') >= MaxBuffer THEN "trades" ELSE "idle"
    /\ caller' = "guarded"
    /\ UNCHANGED <<latest, ticks, prints, backfills, todo, then, quotes, cacheVars,
                   socketVars, conns, terminalSide>>

\* _flush_loop wakes up.
FlushTimer ==
    /\ pc = "idle" /\ (quotes # <<>> \/ trades # <<>>)
    /\ pc' = "trades" /\ caller' = "loop"
    /\ UNCHANGED <<todo, then, exchangeVars, dataVars, socketVars, conns,
                   terminalSide>>

\* First half of _flush: the trades are swapped out and published.
FlushTrades ==
    /\ pc = "trades"
    /\ \/ /\ trades = <<>>
          /\ pc' = "quotes"
          /\ UNCHANGED <<todo, then, socketVars, conns>>
       \/ /\ trades # <<>>
          /\ Send(TradesMsg(trades), lastQuotes, lastUniverse, "quotes")
    /\ trades' = <<>>
    /\ UNCHANGED <<caller, exchangeVars, quotes, cacheVars, terminalSide>>

\* Second half: publish_quotes caches the newest row of each symbol, then sends.
FlushQuotes ==
    /\ pc = "quotes"
    /\ lastQuotes' = Overlay(lastQuotes, RowsOf(quotes))
    /\ \/ /\ quotes = <<>>
          /\ pc' = "idle"
          /\ UNCHANGED <<todo, then, socketVars, conns>>
       \/ /\ quotes # <<>>
          /\ Send(QuotesMsg(RowsOf(quotes)), lastQuotes', lastUniverse, "idle")
    /\ quotes' = <<>>
    /\ UNCHANGED <<caller, lastUniverse, exchangeVars, trades, terminalSide>>

\* set_universe (set_products, set_names), from the exchange stream.
SetUniverse ==
    /\ pc = "idle" /\ MoreMessages /\ lastUniverse < MaxUniverses
    /\ lastUniverse' = lastUniverse + 1
    /\ caller' = "guarded"
    /\ Send(UniverseMsg(lastUniverse'), lastQuotes, lastUniverse', "idle")
    /\ UNCHANGED <<exchangeVars, bufferVars, lastQuotes, terminalSide>>

\* _backfill, for a chart the terminal asked about (ControlPlane): the candles
\* the exchange had when they were fetched, past the buffered trades.
PublishHistory ==
    /\ pc = "idle" /\ MoreMessages /\ backfills < MaxBackfills
    /\ backfills' = backfills + 1
    /\ caller' = "guarded"
    /\ \E fetched \in 1 .. prints :
          Send(HistoryMsg([k \in 1 .. fetched |-> CandleTime(k)]),
               lastQuotes, lastUniverse, "idle")
    /\ UNCHANGED <<latest, ticks, prints, repeats, dataVars, terminalSide>>

\* The control loop polls only a terminal it is attached to.
PollIfAttached ==
    /\ pc = "idle" /\ link # "none"
    /\ caller' = "loop"
    /\ Send(PollMsg, lastQuotes, lastUniverse, "reply")
    /\ UNCHANGED <<exchangeVars, dataVars, terminalSide>>

\* _control_loop wakes up: query_requested sends a poll and blocks for the
\* answer.
Poll ==
    /\ pc = "idle"
    /\ caller' = "loop"
    /\ Send(PollMsg, lastQuotes, lastUniverse, "reply")
    /\ UNCHANGED <<exchangeVars, dataVars, terminalSide>>

\* The answer is read.  One that was sent before the terminal stopped may or
\* may not have arrived.
ReadReply ==
    /\ pc = "reply"
    /\ \/ /\ link = "up" /\ Last(conns).reply
          /\ conns' = [conns EXCEPT ![Len(conns)].reply = FALSE]
       \/ /\ link = "broken"
          /\ UNCHANGED conns
    /\ pc' = "idle"
    /\ UNCHANGED <<todo, then, caller, exchangeVars, dataVars, socketVars,
                   terminalSide>>

\* recv() reports that the terminal has gone: the socket is dropped.
ReplyFails ==
    /\ pc = "reply" /\ link \in {"broken", "reset"}
    /\ pc' = "idle" /\ link' = "none"
    /\ UNCHANGED <<todo, then, caller, cooldown, exchangeVars, dataVars, conns,
                   terminalSide>>

\* The socket is forgotten and never closed.
ReplyTimesOutLeaks ==
    /\ pc = "reply" /\ link = "up" /\ timeouts < MaxTimeouts
    /\ timeouts' = timeouts + 1
    /\ pc' = "idle" /\ link' = "none"
    /\ UNCHANGED <<todo, then, caller, cooldown, exchangeVars, dataVars, conns,
                   serverVars, storeVars, stops>>

\* No answer within two seconds: the socket is dropped, alive as it is, and
\* closing it may discard lines the terminal has not read.
ReplyTimesOut ==
    /\ pc = "reply" /\ link = "up" /\ timeouts < MaxTimeouts
    /\ timeouts' = timeouts + 1
    /\ pc' = "idle" /\ link' = "none"
    /\ \E kept \in 0 .. Len(Last(conns).lines) :
          conns' = [conns EXCEPT ![Len(conns)].lines = SubSeq(@, 1, kept),
                                 ![Len(conns)].eof = TRUE]
    /\ UNCHANGED <<todo, then, caller, cooldown, exchangeVars, dataVars,
                   serverVars, storeVars, stops>>

-----------------------------------------------------------------------------
(* The terminal.                                                           *)

\* FeedServer::start in a terminal that has just been started: empty store.
StartTerminal ==
    /\ ~listening
    /\ listening' = TRUE
    /\ storeQuotes' = NoQuotes /\ storeUniverse' = 0 /\ tape' = <<>>
    /\ UNCHANGED <<serving, exchangeVars, callVars, dataVars, socketVars,
                   conns, boundVars>>

\* FeedServer::stop, or the end of the process: every connection is reset.
StopTerminal ==
    /\ listening /\ stops < MaxStops
    /\ stops' = stops + 1
    /\ listening' = FALSE /\ serving' = FALSE
    /\ conns' = <<>>
    /\ link' = IF link = "up" THEN "broken" ELSE link
    /\ UNCHANGED <<cooldown, timeouts, exchangeVars, callVars, dataVars,
                   storeVars>>

\* FeedServer::run takes the oldest connection.
Accept ==
    /\ listening /\ ~serving /\ conns # <<>>
    /\ serving' = TRUE
    /\ UNCHANGED <<listening, exchangeVars, callVars, dataVars, socketVars,
                   conns, storeVars, boundVars>>

\* The newest points of a series, as many as are kept.
Capped(series) ==
    SubSeq(series, 1 + IF Len(series) > MaxTape THEN Len(series) - MaxTape ELSE 0,
           Len(series))

\* All the candles put in front, those the tape already covers as well.
BackfillWhole(points) == Capped(points \o tape)

\* The loop of backfill_history: the points of a series that are in S.
Kept(series, S) ==
    LET kept[n \in 0 .. Len(series)] ==
            IF n = 0 THEN <<>>
            ELSE IF series[n] \in S THEN Append(kept[n - 1], series[n])
            ELSE kept[n - 1]
    IN  kept[Len(series)]

\* MarketStore::backfill_history: only points older than the tape go in front.
Backfill(points) ==
    Capped(Kept(points, {t \in Range(points) : tape = <<>> \/ t < Head(tape)})
           \o tape)

\* FeedServer::handle_line for the lines that carry market data.
Apply(line) ==
    /\ storeQuotes' = IF line.m = "quotes" THEN Overlay(storeQuotes, line.rows)
                      ELSE storeQuotes
    /\ tape' = CASE line.m = "trades"  -> Capped(tape \o line.list)
                 [] line.m = "history" -> Backfill(line.list)
                 [] OTHER              -> tape
    /\ storeUniverse' = IF line.m = "universe" THEN line.version
                        ELSE storeUniverse

\* A server that serves every connection it holds, in no particular order.
HandleAnyLine ==
    /\ serving
    /\ \E i \in DOMAIN conns :
          /\ conns[i].lines # <<>>
          /\ Apply(Head(conns[i].lines))
          /\ conns' = [conns EXCEPT ![i].lines = Tail(@),
                                    ![i].reply = @ \/ Head(conns[i].lines).m = "poll"]
    /\ UNCHANGED <<exchangeVars, callVars, dataVars, socketVars, serverVars,
                   boundVars>>

\* FeedServer::serve reads the next line; a poll is answered at once.
HandleLine ==
    /\ serving /\ Head(conns).lines # <<>>
    /\ LET line == Head(Head(conns).lines) IN
       /\ Apply(line)
       /\ conns' = [conns EXCEPT ![1].lines = Tail(@),
                                 ![1].reply = @ \/ line.m = "poll"]
    /\ UNCHANGED <<exchangeVars, callVars, dataVars, socketVars, serverVars,
                   boundVars>>

\* recv() returns 0: serve() ends and run() goes back to accept().
PeerClosed ==
    /\ serving /\ Head(conns).lines = <<>> /\ Head(conns).eof
    /\ serving' = FALSE
    /\ conns' = Tail(conns)
    /\ UNCHANGED <<listening, exchangeVars, callVars, dataVars, socketVars,
                   storeVars, boundVars>>

-----------------------------------------------------------------------------
(* The feedhandler starts with nothing cached, before or after the terminal. *)

Init ==
    /\ latest = NoQuotes /\ ticks = 0 /\ prints = 0 /\ repeats = 0 /\ backfills = 0
    /\ pc = "idle" /\ todo = <<>> /\ then = "idle" /\ caller = "loop"
    /\ quotes = <<>> /\ trades = <<>>
    /\ lastQuotes = NoQuotes /\ lastUniverse = 0
    /\ link = "none" /\ cooldown = FALSE
    /\ conns = <<>>
    /\ listening \in BOOLEAN /\ serving = FALSE
    /\ storeQuotes = NoQuotes /\ storeUniverse = 0 /\ tape = <<>>
    /\ stops = 0 /\ timeouts = 0

Writing == WriteDelivered \/ WriteLost \/ WriteFails

Replying == ReadReply \/ ReplyFails

Serving == Accept \/ HandleLine \/ PeerClosed

Next ==
    \/ \E s \in Symbols : EmitQuote(s)
    \/ EmitTrade \/ EmitLastMatch \/ SetUniverse \/ PublishHistory
    \/ FlushTimer \/ FlushTrades \/ FlushQuotes \/ Poll
    \/ WriteDelivered \/ WriteLost \/ WriteFails \/ RetryDue
    \/ ReadReply \/ ReplyFails \/ ReplyTimesOut
    \/ StartTerminal \/ StopTerminal
    \/ Accept \/ HandleLine \/ PeerClosed

\* The feedhandler's thread runs on and asyncio gets round to each sleeping task
\* whose time has come, however often the others run; the server's thread reads
\* what there is.  Nothing obliges the exchange to send, the user to start or
\* stop the terminal, or a reply to be late.
Fairness ==
    /\ SF_vars(FlushTimer) /\ SF_vars(Poll)
    /\ WF_vars(FlushTrades) /\ WF_vars(FlushQuotes)
    /\ WF_vars(Writing) /\ WF_vars(Replying)
    /\ WF_vars(RetryDue) /\ WF_vars(Serving)

Spec == Init /\ [][Next]_vars /\ Fairness

-----------------------------------------------------------------------------
(* Properties.                                                             *)

Rows == [Symbols -> 0 .. MaxTicks]

Times == 1 .. TradeTime(MaxTrades)

Message ==
    [m : {"quotes"}, rows : Rows] \cup [m : {"trades", "history"}, list : Seq(Times)]
    \cup [m : {"universe"}, version : 1 .. MaxUniverses] \cup [m : {"poll"}]

Connection == [lines : Seq(Message), eof : BOOLEAN, reply : BOOLEAN]

\* The values the state ranges over.  The buffers stay within max_buffer whether
\* or not a terminal is there to take them, but for one more quote each time a
\* terminal stops (an exception between the two halves of _flush leaves the
\* quotes where they are).
TypeOK ==
    /\ latest \in Rows /\ lastQuotes \in Rows /\ storeQuotes \in Rows
    /\ ticks \in 0 .. MaxTicks /\ prints \in 0 .. MaxTrades
    /\ pc \in {"idle", "trades", "quotes", "write", "reply", "dead"}
    /\ then \in {"idle", "quotes", "reply"} /\ caller \in {"loop", "guarded"}
    /\ todo \in Seq(Message) /\ (pc = "write" <=> todo # <<>>)
    /\ quotes \in Seq([symbol : Symbols, tick : 1 .. MaxTicks])
    /\ Len(quotes) <= MaxBuffer + stops
    /\ trades \in Seq(Times) /\ Len(trades) <= MaxBuffer
    /\ {lastUniverse, storeUniverse} \subseteq 0 .. MaxUniverses
    /\ link \in {"none", "up", "broken", "reset"} /\ cooldown \in BOOLEAN
    /\ conns \in Seq(Connection) /\ Len(conns) <= MaxConns
    /\ {listening, serving} \subseteq BOOLEAN
    /\ tape \in Seq(Times) /\ Len(tape) <= MaxTape
    /\ repeats \in 0 .. MaxRepeats /\ backfills \in 0 .. MaxBackfills
    /\ stops \in 0 .. MaxStops /\ timeouts \in 0 .. MaxTimeouts

\* The terminal has read everything the feed wrote.
AllRead == serving /\ Len(conns) = 1 /\ Head(conns).lines = <<>>

\* A terminal that is attached and has nothing left to read knows the newest
\* quote of every symbol and the universe, whatever was sent, dropped or lost
\* before it attached (publisher.py:49-67, feed_server.cpp:105-106).
StoreCatchesUp ==
    (pc = "idle" /\ link = "up" /\ AllRead) =>
        /\ storeQuotes = lastQuotes
        /\ storeUniverse = lastUniverse

InOrder(series) == \A i, j \in DOMAIN series : i < j => series[i] <= series[j]

IsTrade(t) == t % 2 = 0

\* A chart shows the trades in the order they happened, across reconnects of the
\* feed to either side: a trade may be lost, and after a new subscribe the last
\* one may stand there twice in a row (coinbase.py:208), but none is overtaken
\* and no older one comes again (the store appends what comes,
\* market_store.cpp:14-20).
TapeInOrder ==
    \A i, j \in DOMAIN tape :
        (i < j /\ IsTrade(tape[i]) /\ IsTrade(tape[j])) => tape[i] <= tape[j]

\* A backfill only puts older points in front of the tape: whatever candles it
\* brings, however late, and however full the chart is, every point that was
\* there stays, and a series in time order stays so (market_store.cpp:27-38,
\* market_store.hpp:46-51).
BackfillGoesInFront ==
    [][serving /\ Head(conns).lines # <<>> /\ Head(Head(conns).lines).m = "history"
       => /\ IsSuffix(tape, tape')
          /\ InOrder(tape) => InOrder(tape')]_vars

\* The server takes one client at a time and stays with it until it closes, so a
\* connection the feed no longer uses must have been closed: only the newest
\* can be open, and it is open just as long as the feed holds it.
OnlyLiveConnectionOpen ==
    /\ \A i \in DOMAIN conns : i # Len(conns) => conns[i].eof
    /\ link = "up" <=> (conns # <<>> /\ ~Last(conns).eof)

\* The terminal shows what the exchange sent last.
Current == storeQuotes = latest /\ storeUniverse = lastUniverse

\* A terminal that is up from some time on ends up with the newest quotes of
\* everything and the universe, with no tick after it attached needed to tell
\* it so; unless the feed process has died, which FeedSurvives is about.
EventuallyCurrent ==
    <>[]listening => <>[](pc = "dead" \/ Current)

\* Losing the terminal never ends the feed: "terminal disconnected; will
\* reconnect" (publisher.py:107).
FeedSurvives == pc # "dead"
=============================================================================
