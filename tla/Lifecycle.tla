----------------------------- MODULE Lifecycle -----------------------------
(***************************************************************************)
(* The threads and the processes of the terminal, from START DESK to the   *)
(* end: TradingEngine::start and stop (src/cpp/src/engine.cpp), the engine *)
(* thread, FeedServer's socket (feed_server.cpp), the bundled feedhandler  *)
(* as a child process (feed_process.cpp), its watch on its parent          *)
(* (feedhandler/__main__.py), and the stock poller (StockFeed).            *)
(*                                                                         *)
(* window is the terminal's main thread.  The terminal may crash at any    *)
(* time, and the feedhandler may end by itself.                            *)
(***************************************************************************)
EXTENDS StockFeed

CONSTANTS
    MaxReaps      \* the times stop() looks whether the child has ended

ASSUME LifecycleAssumption == MaxReaps \in Nat

VARIABLES
    window,      \* what the main thread does, or waits for
    engine,      \* what TradingEngine's thread does next
    listening,   \* FeedServer has its socket
    pid,         \* FeedProcess::pid_ is set
    child,       \* the process it stands for
    signalled,   \* SIGTERM or SIGKILL sent to it
    reaps,       \* times stop() has looked for its end
    orphan       \* the feedhandler of a terminal that has crashed runs

processVars == <<child, signalled>>

deskVars == <<window, engine, listening, pid, processVars, reaps, orphan>>

lifeVars == <<stockVars, deskVars>>

\* TradingEngine::stop has been called and has not returned.
Closing == {"join_engine", "end_feed", "reap", "kill", "end_server", "end_stocks",
            "join_stocks"}

-----------------------------------------------------------------------------
(* Starting.                                                               *)

\* START DESK: a TradingEngine is made and started, the stock poller first.
StartDesk ==
    /\ window = "dialog"
    /\ window' = "desk" /\ engine' = "server"
    /\ StartStocks
    /\ UNCHANGED <<listening, pid, processVars, reaps, orphan>>

\* run() opens the feed socket, or logs why it could not; it never tries again.
OpenServer ==
    /\ engine = "server"
    /\ \E bound \in BOOLEAN :
          /\ listening' = bound
          /\ engine' = IF bound THEN "feed" ELSE "loop"
    /\ UNCHANGED <<stockVars, window, pid, processVars, reaps, orphan>>

\* FeedProcess::start: there may be no bundled feed, or it does not start.
StartFeed ==
    /\ engine = "feed"
    /\ \/ pid' = TRUE /\ child' = "alive" /\ signalled' = "no"
       \/ UNCHANGED <<pid, processVars>>
    /\ engine' = "loop"
    /\ UNCHANGED <<stockVars, window, listening, reaps, orphan>>

\* A cycle of run() watches a stock the user has added.
AddStock(s) ==
    /\ engine = "loop" /\ window = "desk"
    /\ Watch(s)
    /\ UNCHANGED deskVars

\* A cycle of run() reads the poller's errors.
ReadErrors ==
    /\ engine = "loop"
    /\ DrainErrors
    /\ UNCHANGED deskVars

\* run() sees running_ and returns.
LeaveEngine ==
    /\ engine = "loop" /\ window \in Closing
    /\ engine' = "ended"
    /\ UNCHANGED <<stockVars, window, listening, pid, processVars, reaps, orphan>>

-----------------------------------------------------------------------------
(* TradingEngine::stop, in the main thread.                                *)

\* The window is closed: running_ is cleared.
CloseWindow ==
    /\ window \in {"dialog", "desk"}
    /\ window' = IF window = "desk" THEN "join_engine" ELSE "closed"
    /\ UNCHANGED <<stockVars, engine, listening, pid, processVars, reaps, orphan>>

\* The engine thread is left to end when it likes.
JoinNoEngine ==
    /\ window = "join_engine"
    /\ window' = "end_feed"
    /\ UNCHANGED <<stockVars, engine, listening, pid, processVars, reaps, orphan>>

JoinEngine ==
    /\ window = "join_engine" /\ engine = "ended"
    /\ window' = "end_feed"
    /\ UNCHANGED <<stockVars, engine, listening, pid, processVars, reaps, orphan>>

\* FeedProcess::stop asks the child to end.  A signal to a zombie does nothing.
EndFeed ==
    /\ window = "end_feed"
    /\ window' = IF pid THEN "reap" ELSE "end_server"
    /\ signalled' = IF pid THEN "TERM" ELSE signalled
    /\ UNCHANGED <<stockVars, engine, listening, pid, child, reaps, orphan>>

\* waitpid finds the child ended.
Reaped ==
    /\ window \in {"reap", "kill"} /\ child = "zombie"
    /\ window' = "end_server"
    /\ pid' = FALSE /\ child' = "none"
    /\ UNCHANGED <<stockVars, engine, listening, signalled, reaps, orphan>>

\* The child has had its time: it is forgotten.
GiveUp ==
    /\ window = "reap" /\ child = "alive"
    /\ IF reaps < MaxReaps
       THEN /\ reaps' = reaps + 1
            /\ UNCHANGED <<window, pid, signalled>>
       ELSE /\ window' = "end_server" /\ pid' = FALSE
            /\ UNCHANGED <<signalled, reaps>>
    /\ UNCHANGED <<stockVars, engine, listening, child, orphan>>

\* It still runs: stop() looks again, however long that takes.
KeepLooking ==
    /\ window = "reap" /\ child = "alive"
    /\ reaps' = IF reaps < MaxReaps THEN reaps + 1 ELSE 0
    /\ UNCHANGED <<stockVars, window, engine, listening, pid, processVars, orphan>>

\* It still runs: stop() looks again, and after MaxReaps times insists.
Insist ==
    /\ window = "reap" /\ child = "alive"
    /\ IF reaps < MaxReaps
       THEN /\ reaps' = reaps + 1
            /\ UNCHANGED <<window, signalled>>
       ELSE /\ window' = "kill" /\ signalled' = "KILL"
            /\ UNCHANGED reaps
    /\ UNCHANGED <<stockVars, engine, listening, pid, child, orphan>>

\* FeedServer::stop: its thread sees running_ within a poll of 200 ms.
EndServer ==
    /\ window = "end_server"
    /\ window' = "end_stocks" /\ listening' = FALSE
    /\ UNCHANGED <<stockVars, engine, pid, processVars, reaps, orphan>>

\* StockFeed::stop, and its join.
EndStocks ==
    /\ window = "end_stocks"
    /\ window' = "join_stocks"
    /\ StopStocks
    /\ UNCHANGED <<engine, listening, pid, processVars, reaps, orphan>>

JoinStocks ==
    /\ window = "join_stocks" /\ poller = "ended"
    /\ window' = "closed"
    /\ UNCHANGED <<stockVars, engine, listening, pid, processVars, reaps, orphan>>

-----------------------------------------------------------------------------
(* Processes.                                                              *)

\* The terminal dies: its threads and its sockets go, a living child is an orphan
\* and a dead one is reaped by the system.
Crash ==
    /\ window \in {"dialog", "desk"} \cup Closing
    /\ window' = "crashed"
    /\ orphan' = (child = "alive")
    /\ engine' = "none" /\ listening' = FALSE /\ pid' = FALSE /\ child' = "none"
    /\ poller' = "none" /\ running' = FALSE
    /\ UNCHANGED <<online, watched, asked, syms, todo, wait, age, cacheVars, errors,
                   ghostVars, signalled, reaps>>

\* The feedhandler ends by itself.
FeedEnds ==
    /\ child = "alive"
    /\ child' = "zombie"
    /\ UNCHANGED <<stockVars, window, engine, listening, pid, signalled, reaps,
                   orphan>>

\* SIGKILL cannot be put off.
FeedKilled == signalled = "KILL" /\ FeedEnds

\* _watch_parent finds the parent gone and _run cancels the feed.
OrphanLeaves ==
    /\ orphan
    /\ orphan' = FALSE
    /\ UNCHANGED <<stockVars, window, engine, listening, pid, processVars, reaps>>

-----------------------------------------------------------------------------

LifeInit ==
    /\ window = "dialog" /\ engine = "none" /\ listening = FALSE
    /\ pid = FALSE /\ child = "none" /\ signalled = "no" /\ reaps = 0
    /\ orphan = FALSE
    /\ NoStocks

EngineStep == OpenServer \/ StartFeed \/ LeaveEngine

StopStep ==
    JoinEngine \/ EndFeed \/ Reaped \/ Insist \/ EndServer \/ EndStocks \/ JoinStocks

PollerRuns == PollerStep /\ UNCHANGED deskVars

TimePasses == Tick /\ UNCHANGED deskVars

LifeNext ==
    \/ StartDesk \/ OpenServer \/ StartFeed \/ ReadErrors \/ LeaveEngine
    \/ \E s \in Stocks : AddStock(s)
    \/ CloseWindow \/ JoinEngine \/ EndFeed \/ Reaped \/ Insist
    \/ EndServer \/ EndStocks \/ JoinStocks
    \/ Crash \/ FeedEnds \/ OrphanLeaves
    \/ PollerRuns \/ TimePasses
    \/ NetworkChanges /\ UNCHANGED deskVars

\* Every thread runs on, time passes, SIGKILL works and an orphan's event loop
\* comes round.  Nothing obliges the user, the network, or a child to which
\* SIGTERM has been sent.
LifeFairness ==
    /\ WF_lifeVars(EngineStep) /\ WF_lifeVars(StopStep)
    /\ WF_lifeVars(PollerRuns) /\ WF_lifeVars(TimePasses)
    /\ WF_lifeVars(FeedKilled) /\ WF_lifeVars(OrphanLeaves)

LifeSpec == LifeInit /\ [][LifeNext]_lifeVars /\ LifeFairness

-----------------------------------------------------------------------------
(* Properties.                                                             *)

\* The values the state ranges over; stop() waits for two requests at most, the
\* one that runs and a name asked for after bars (stock_feed.cpp:16-18, 114, 141).
LifeTypeOK ==
    /\ StockTypeOK /\ StopsInTime
    /\ window \in {"dialog", "desk", "closed", "crashed"} \cup Closing
    /\ engine \in {"none", "server", "feed", "loop", "ended"}
    /\ listening \in BOOLEAN /\ pid \in BOOLEAN /\ orphan \in BOOLEAN
    /\ child \in {"none", "alive", "zombie"}
    /\ signalled \in {"no", "TERM", "KILL"}
    /\ reaps \in 0 .. MaxReaps

\* Once the window has closed no feedhandler is left, running or a zombie, and no
\* thread: however early stop() came, whatever became of the child
\* (feed_process.cpp:62-64, engine.cpp:29-35).
NothingLeftBehind ==
    window = "closed" =>
        /\ child = "none" /\ ~listening
        /\ engine \in {"none", "ended"} /\ poller \in {"none", "ended"}

\* The feedhandler never outlives the socket it feeds: it is started behind the
\* server and ended before it (engine.cpp:66-72, 32).
ListensWhileFeedRuns == child # "none" => listening

\* Closing the window ends in it being closed, unless the terminal crashes first,
\* and a feedhandler whose terminal has crashed ends too
\* (feed_process.cpp:40-42, 62-73, __main__.py:44-52).
EverythingEnds ==
    /\ window \in Closing ~> window \in {"closed", "crashed"}
    /\ []<>~orphan

\* Once Alpaca stays within reach every stock it knows that is watched gets its
\* quote, while the desk is open: backoffs end, a stock it does not know holds
\* nobody up, and one added in the middle of a poll has its turn
\* (stock_feed.cpp:109-112, stock_feed.hpp:58-60).
WatchedGetsQuoted ==
    <>[](online /\ window = "desk") => <>[](watched \ Unknown \subseteq quoted)
=============================================================================
