---------------------------- MODULE ControlPlane ----------------------------
(***************************************************************************)
(* The control plane: how a symbol the user asks for comes to be streamed  *)
(* and charted.  The engine (src/cpp/src/engine.cpp) leaves requests in    *)
(* the MarketStore; the feedhandler's control loop (src/feedhandler/base.py)*)
(* polls for them, subscribes and backfills; its Coinbase loop             *)
(* (src/feedhandler/coinbase.py) connects, subscribes to everything and    *)
(* reconnects.                                                             *)
(*                                                                         *)
(* The two loops are tasks of one thread: a task runs alone from one await *)
(* to the next, and a poll blocks both, so their pcs are the awaits.  The  *)
(* connection that carries polls, answers and universes is FeedLink's;     *)
(* here an answer arrives, or is late or lost.                             *)
(***************************************************************************)
EXTENDS Naturals, Sequences, SequencesExt

CONSTANTS
    Symbols,
    Boot,           \* Config.symbols
    Catalog,        \* the products Coinbase lists
    MaxBackfill,    \* _MAX_BACKFILL_PRODUCTS
    MaxTimeouts,    \* bound: polls not answered in time
    MaxDrops        \* bound: connections to Coinbase that fail or drop

ASSUME ControlPlaneAssumption ==
    /\ Boot \subseteq Symbols /\ Catalog \subseteq Symbols
    /\ MaxBackfill \in Nat /\ MaxTimeouts \in Nat /\ MaxDrops \in Nat

VARIABLES
    \* the terminal
    watched,        \* TradingEngine::symbols_
    charted,        \* TradingEngine::hist_requested_
    requested,      \* MarketStore::requested_
    histRequests,   \* MarketStore::history_requests_
    storeUniverse,  \* MarketStore::universe_
    polls,          \* polls the server has yet to answer: awaited, or given up
    drawn,          \* the symbols drained for the answer being made, if any
    answer,         \* the answer on its way to the feed, if any
    \* the feedhandler
    subscribed,     \* BaseFeedHandler._subscribed
    universe,       \* the universe last published
    ctl,            \* the await of the control loop
    new, via,       \* what it is subscribing, on which socket
    hist,           \* what it has yet to backfill
    run,            \* the await of CoinbaseFeedHandler._run
    prods,          \* the products it connects for
    ws,             \* _ws: the number of the socket, 0 for None
    \* the exchange
    conns,          \* sockets opened so far; the last is the current one
    alive,          \* the current one is open
    onStream,       \* what has been subscribed on it
    \* history variables: requests dropped on the way, charts settled
    lost, settled,
    timeouts, drops

terminalVars == <<watched, charted, requested, histRequests, storeUniverse>>
serverVars   == <<polls, drawn, answer>>
feedVars     == <<subscribed, universe>>
ctlVars      == <<ctl, new, via, hist>>
runVars      == <<run, prods, ws>>
exchangeVars == <<conns, alive, onStream>>
ghostVars    == <<lost, settled>>
boundVars    == <<timeouts, drops>>

terminalSide == <<terminalVars, serverVars>>
feedSide     == <<feedVars, ctlVars, runVars>>
outside      == <<exchangeVars, ghostVars, boundVars>>

vars == <<terminalSide, feedSide, outside>>

\* No set of symbols, where one is optional.
None == <<>>

-----------------------------------------------------------------------------
(* The terminal.                                                           *)

\* Command::AddSymbol: a symbol not yet watched is requested from the feed.
AddSymbol(s) ==
    /\ s \notin watched
    /\ watched' = watched \cup {s}
    /\ requested' = requested \cup {s}
    /\ UNCHANGED <<charted, histRequests, storeUniverse, serverVars, feedSide,
                   outside>>

\* The run loop with the focus on s: its history is asked for once.
Chart(s) ==
    /\ s \in watched \ charted
    /\ charted' = charted \cup {s}
    /\ histRequests' = Append(histRequests, s)
    /\ UNCHANGED <<watched, requested, storeUniverse, serverVars, feedSide,
                   outside>>

\* The published universe reaches the store.
UniverseArrives ==
    /\ storeUniverse # universe
    /\ storeUniverse' = universe
    /\ UNCHANGED <<watched, charted, requested, histRequests, serverVars,
                   feedSide, outside>>

\* The run loop adds what is streamed to the watch list.
AdoptUniverse ==
    /\ ~ storeUniverse \subseteq watched
    /\ watched' = watched \cup storeUniverse
    /\ UNCHANGED <<charted, requested, histRequests, storeUniverse, serverVars,
                   feedSide, outside>>

\* take_requested that copies the list instead of draining it.
TakeRequestedKeeps ==
    /\ polls # <<>> /\ drawn = None
    /\ drawn' = <<requested>>
    /\ UNCHANGED <<terminalVars, polls, answer, feedSide, outside>>

\* handle_line on a poll, first half: take_requested.
TakeRequested ==
    /\ polls # <<>> /\ drawn = None
    /\ drawn' = <<requested>>
    /\ requested' = {}
    /\ UNCHANGED <<watched, charted, histRequests, storeUniverse, polls,
                   answer, feedSide, outside>>

\* Second half: take_history_requests, and the answer is sent.  If the feed has
\* given up on the poll, what was drained goes nowhere.
Answer ==
    /\ drawn # None
    /\ IF Head(polls) = "awaited"
       THEN /\ answer' = <<[syms |-> drawn[1], hist |-> histRequests]>>
            /\ UNCHANGED ghostVars
       ELSE /\ lost' = lost \cup drawn[1]
            /\ settled' = settled \cup ToSet(histRequests)
            /\ UNCHANGED answer
    /\ drawn' = None
    /\ polls' = Tail(polls)
    /\ histRequests' = <<>>
    /\ UNCHANGED <<watched, charted, requested, storeUniverse, feedSide,
                   exchangeVars, boundVars>>

-----------------------------------------------------------------------------
(* The control loop.  While it waits for an answer nothing else in the     *)
(* feedhandler runs.                                                       *)

Blocked == ctl = "polling"

\* query_requested sends a poll.  Without a terminal it returns at once with
\* nothing, which changes nothing here.
Poll ==
    /\ ctl = "asleep"
    /\ ctl' = "polling"
    /\ polls' = Append(polls, "awaited")
    /\ UNCHANGED <<terminalVars, drawn, answer, feedVars, new, via, hist,
                   runVars, outside>>

\* Giving up on the answer and keeping the socket it will come on.
PollTimesOutKeepsSocket ==
    /\ ctl = "polling" /\ timeouts < MaxTimeouts
    /\ timeouts' = timeouts + 1
    /\ ctl' = "asleep"
    /\ UNCHANGED <<terminalSide, feedVars, new, via, hist, runVars,
                   exchangeVars, ghostVars, drops>>

\* query_requested gives up: the answer is late, or the terminal has gone.  An
\* answer under way is lost with the socket; a poll the terminal has not read
\* may be lost too, or be answered to nobody.
PollTimesOut ==
    /\ ctl = "polling" /\ timeouts < MaxTimeouts
    /\ timeouts' = timeouts + 1
    /\ ctl' = "asleep"
    /\ IF answer # None
       THEN /\ lost' = lost \cup answer[1].syms
            /\ settled' = settled \cup ToSet(answer[1].hist)
            /\ answer' = None
            /\ UNCHANGED polls
       ELSE /\ \/ polls' = [polls EXCEPT ![Len(polls)] = "given up"]
               \/ /\ drawn = None \/ Len(polls) > 1
                  /\ polls' = Front(polls)
            /\ UNCHANGED <<answer, ghostVars>>
    /\ UNCHANGED <<terminalVars, drawn, feedVars, new, via, hist, runVars,
                   exchangeVars, drops>>

\* What the loop does after a subscribe: backfill if asked to.
Proceed(list) ==
    ctl' = IF list = <<>> THEN "asleep" ELSE "backfilling"

\* _backfill takes the first products of the list and forgets the others.
TakeHist(list) ==
    LET kept == SubSeq(list, 1, IF Len(list) < MaxBackfill THEN Len(list)
                                ELSE MaxBackfill)
    IN  /\ hist' = kept
        /\ settled' = settled \cup (ToSet(list) \ ToSet(kept))

\* With no socket a new symbol is left for the next poll to bring again.
ReceiveNeedsSocket ==
    /\ ctl = "polling" /\ answer # None
    /\ answer' = None
    /\ TakeHist(answer[1].hist)
    /\ LET fresh == answer[1].syms \ subscribed IN
       IF fresh # {} /\ ws # 0
       THEN ctl' = "subscribing" /\ new' = fresh /\ via' = ws
       ELSE Proceed(hist') /\ UNCHANGED <<new, via>>
    /\ UNCHANGED <<terminalVars, polls, drawn, feedVars, runVars, exchangeVars,
                   lost, boundVars>>

\* The answer arrives.  New symbols go to _subscribe_new, which sends them on
\* the socket _ws refers to; with none it does nothing, and they count as
\* subscribed at once.
Receive ==
    /\ ctl = "polling" /\ answer # None
    /\ answer' = None
    /\ TakeHist(answer[1].hist)
    /\ LET fresh == answer[1].syms \ subscribed IN
       IF fresh # {} /\ ws # 0
       THEN /\ ctl' = "subscribing"
            /\ new' = fresh /\ via' = ws
            /\ UNCHANGED subscribed
       ELSE /\ subscribed' = subscribed \cup fresh
            /\ Proceed(hist')
            /\ UNCHANGED <<new, via>>
    /\ UNCHANGED <<terminalVars, polls, drawn, universe, runVars, exchangeVars,
                   lost, boundVars>>

\* The socket is still the open one.
Usable == alive /\ via = conns

\* The subscribe message is sent.  On a socket that has dropped without the
\* library having noticed, it goes nowhere.
Subscribe ==
    /\ ctl = "subscribing" /\ via = ws
    /\ run # "resting"
    /\ onStream' = IF Usable THEN onStream \cup new ELSE onStream
    /\ universe' = subscribed \cup new
    /\ subscribed' = subscribed \cup new
    /\ new' = {} /\ via' = 0
    /\ Proceed(hist)
    /\ UNCHANGED <<terminalSide, hist, runVars, conns, alive, ghostVars,
                   boundVars>>

\* A universe announced before the subscribe is known to have been sent.
SubscribeFailsAnnounced ==
    /\ ctl = "subscribing" /\ ~Usable
    /\ universe' = subscribed \cup new
    /\ lost' = lost \cup new
    /\ new' = {} /\ via' = 0
    /\ Proceed(hist)
    /\ UNCHANGED <<terminalSide, subscribed, hist, runVars, exchangeVars,
                   settled, boundVars>>

\* The error ends this pass of the loop.
SubscribeFailsEndsPass ==
    /\ ctl = "subscribing" /\ ~Usable
    /\ lost' = lost \cup new
    /\ new' = {} /\ via' = 0
    /\ ctl' = "asleep"
    /\ UNCHANGED <<terminalSide, feedVars, hist, runVars, exchangeVars,
                   settled, boundVars>>

\* Sending on a closed socket raises; the loop logs it and goes on.
SubscribeFails ==
    /\ ctl = "subscribing" /\ ~Usable
    /\ lost' = lost \cup new
    /\ new' = {} /\ via' = 0
    /\ Proceed(hist)
    /\ UNCHANGED <<terminalSide, feedVars, hist, runVars, exchangeVars,
                   settled, boundVars>>

\* The candles of the next product arrive and are published, or the request
\* fails; either way the loop is done with it.
Backfill ==
    /\ ctl = "backfilling"
    /\ settled' = settled \cup {Head(hist)}
    /\ hist' = Tail(hist)
    /\ Proceed(hist')
    /\ UNCHANGED <<terminalSide, feedVars, new, via, runVars, exchangeVars,
                   lost, boundVars>>

-----------------------------------------------------------------------------
(* The Coinbase loop.                                                      *)

\* The catalog arrives: symbols it does not list are dropped.
CatalogArrives ==
    /\ run = "catalog" /\ ~Blocked
    /\ subscribed' = subscribed \cap Catalog
    /\ lost' = lost \cup (subscribed \ Catalog)
    /\ run' = "top"
    /\ UNCHANGED <<terminalSide, universe, ctlVars, prods, ws, exchangeVars,
                   settled, boundVars>>

CatalogFails ==
    /\ run = "catalog" /\ ~Blocked
    /\ run' = "top"
    /\ UNCHANGED <<terminalSide, feedVars, ctlVars, prods, ws, outside>>

\* The products are sampled and the connection is begun.
Connect ==
    /\ run = "top" /\ ~Blocked
    /\ prods' = subscribed
    /\ run' = "connecting"
    /\ UNCHANGED <<terminalSide, feedVars, ctlVars, ws, outside>>

Connected ==
    /\ run = "connecting" /\ ~Blocked
    /\ conns' = conns + 1 /\ alive' = TRUE /\ onStream' = {}
    /\ ws' = conns'
    /\ run' = "subscribing"
    /\ UNCHANGED <<terminalSide, feedVars, ctlVars, prods, ghostVars,
                   boundVars>>

ConnectFails ==
    /\ run = "connecting" /\ ~Blocked /\ drops < MaxDrops
    /\ drops' = drops + 1
    /\ run' = "resting"
    /\ UNCHANGED <<terminalSide, feedVars, ctlVars, prods, ws, exchangeVars,
                   ghostVars, timeouts>>

\* The subscribe message for the sample has been sent; the universe follows.
SubscribeAll ==
    /\ run = "subscribing" /\ ~Blocked
    /\ onStream' = IF alive THEN onStream \cup prods ELSE onStream
    /\ universe' = prods
    /\ run' = "streaming"
    /\ UNCHANGED <<terminalSide, subscribed, ctlVars, prods, ws, conns, alive,
                   ghostVars, boundVars>>

\* Coinbase, or the network, drops the connection.
Drop ==
    /\ alive /\ drops < MaxDrops
    /\ drops' = drops + 1
    /\ alive' = FALSE /\ onStream' = {}
    /\ UNCHANGED <<terminalSide, feedSide, conns, ghostVars, timeouts>>

\* The loop notices and sleeps out the reconnect delay, _ws still in place.
StreamFails ==
    /\ run \in {"subscribing", "streaming"} /\ ~alive /\ ~Blocked
    /\ run' = "resting"
    /\ UNCHANGED <<terminalSide, feedVars, ctlVars, prods, ws, outside>>

\* A socket that is not cleared: the next connect overwrites it.
RestedKeepsSocket ==
    /\ run = "resting" /\ ~Blocked
    /\ run' = "top"
    /\ UNCHANGED <<terminalSide, feedVars, ctlVars, prods, ws, outside>>

\* The delay is over; only now does finally clear _ws.
Rested ==
    /\ run = "resting" /\ ~Blocked
    /\ ws' = 0
    /\ run' = "top"
    /\ UNCHANGED <<terminalSide, feedVars, ctlVars, prods, outside>>

-----------------------------------------------------------------------------

Init ==
    /\ watched = {} /\ charted = {} /\ requested = {} /\ histRequests = <<>>
    /\ storeUniverse = {}
    /\ polls = <<>> /\ drawn = None /\ answer = None
    /\ subscribed = Boot /\ universe = {}
    /\ ctl = "asleep" /\ new = {} /\ via = 0 /\ hist = <<>>
    /\ run = "catalog" /\ prods = {} /\ ws = 0
    /\ conns = 0 /\ alive = FALSE /\ onStream = {}
    /\ lost = {} /\ settled = {}
    /\ timeouts = 0 /\ drops = 0

Subscribing == Subscribe \/ SubscribeFails

Next ==
    \/ \E s \in Symbols : AddSymbol(s) \/ Chart(s)
    \/ UniverseArrives \/ AdoptUniverse
    \/ TakeRequested \/ Answer
    \/ Poll \/ PollTimesOut \/ Receive \/ Subscribe \/ SubscribeFails \/ Backfill
    \/ CatalogArrives \/ CatalogFails
    \/ Connect \/ Connected \/ ConnectFails \/ SubscribeAll
    \/ Drop \/ StreamFails \/ Rested

\* The server's thread and the control loop run on; each await of the loop ends,
\* one way or the other.  Nothing is assumed of the user or of Coinbase.
Fairness ==
    /\ WF_vars(TakeRequested) /\ WF_vars(Answer)
    /\ WF_vars(Poll) /\ WF_vars(Receive) /\ WF_vars(Subscribing)
    /\ WF_vars(Backfill)

Spec == Init /\ [][Next]_vars /\ Fairness

-----------------------------------------------------------------------------
(* Properties.                                                             *)

Optional(S) == {None} \cup {<<x>> : x \in S}

\* Sets of symbols, and the symbols in queues and on the way.
SetsOK ==
    /\ watched \subseteq Symbols /\ charted \subseteq Symbols
    /\ requested \subseteq Symbols /\ storeUniverse \subseteq Symbols
    /\ subscribed \subseteq Symbols /\ universe \subseteq Symbols
    /\ new \subseteq Symbols /\ prods \subseteq Symbols /\ onStream \subseteq Symbols
    /\ lost \subseteq Symbols /\ settled \subseteq Symbols

QueuesOK ==
    /\ histRequests \in Seq(Symbols) /\ hist \in Seq(Symbols)
    /\ polls \in Seq({"awaited", "given up"})
    /\ drawn \in Optional(SUBSET Symbols)
    /\ answer = None \/ answer[1] \in [syms : SUBSET Symbols, hist : Seq(Symbols)]

\* _ws refers to the current socket from the connect to the end of the reconnect
\* delay, and to none outside; a backfill has a product to fetch.
LoopsOK ==
    /\ ctl \in {"asleep", "polling", "subscribing", "backfilling"}
    /\ ctl = "backfilling" => hist # <<>>
    /\ run \in {"catalog", "top", "connecting", "subscribing", "streaming",
                "resting"}
    /\ conns \in Nat /\ alive \in BOOLEAN
    /\ via \in 0 .. conns /\ ws \in 0 .. conns
    /\ run \in {"catalog", "top", "connecting"} => ws = 0
    /\ run \in {"subscribing", "streaming"} => ws = conns
    /\ timeouts \in 0 .. MaxTimeouts /\ drops \in 0 .. MaxDrops

\* The values the state ranges over.
TypeOK == SetsOK /\ QueuesOK /\ LoopsOK

InAnswer == IF answer = None THEN {} ELSE answer[1].syms

InDraft == IF drawn = None THEN {} ELSE drawn[1]

\* "a symbol is never handed out twice" (architecture.md:86-87): a request is in
\* one place at a time, and one that has been dealt with is nowhere else, so no
\* product is subscribed a second time on a socket.
HandedOutOnce ==
    /\ requested \cap (InDraft \cup InAnswer \cup new) = {}
    /\ InDraft \cap (InAnswer \cup new) = {}
    /\ InAnswer \cap new = {}
    /\ new \cap (subscribed \cup onStream) = {}

\* The universe only ever names symbols the feed will subscribe again whenever
\* it reconnects: what the terminal adopts into its watch list is not forgotten
\* by the feed (publisher.py:219-224, coinbase.py:103, 119).
AnnouncedIsSubscribed == universe \subseteq subscribed

\* A poll is answered for the feed that waits for it: an answer to a poll that
\* was given up is never taken for the answer to the next one, and at most one
\* poll is waited for.
OnePollAtATime ==
    /\ \A i \in DOMAIN polls : polls[i] = "awaited" => (i = Len(polls) /\ Blocked)
    /\ answer # None => (Blocked /\ \A i \in DOMAIN polls : polls[i] # "awaited")

\* Whoever asks gets an end to it: a watched symbol becomes subscribed, or is
\* dropped on one of the ways NoRequestLost is about; it never stays in a queue.
EveryRequestSettled ==
    \A s \in Symbols : (s \in watched) ~> (s \in subscribed \cup lost)

\* Likewise every chart asked for is backfilled, or given up.
EveryChartSettled ==
    \A s \in Symbols : (s \in charted) ~> (s \in settled)

-----------------------------------------------------------------------------
(* What the repository says and the code does not keep.                    *)

\* "(re)subscribe to everything we currently want on (re)connect"
\* (coinbase.py:101): between two passes of the control loop, what counts as
\* subscribed is on the open stream.
SubscribesEverythingWanted ==
    (run = "streaming" /\ alive /\ ctl = "asleep") => subscribed \subseteq onStream

\* "The terminal posts a new ticker; the feedhandler polls for it and
\* live-subscribes to that product" (architecture.md:84-86): no request for a
\* product that Coinbase lists is dropped.
NoRequestLost == lost \cap Catalog = {}
=============================================================================
