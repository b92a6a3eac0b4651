-------------------------- MODULE LifecycleProofs --------------------------
(***************************************************************************)
(* Proofs about Lifecycle for every value of its constants: the types and  *)
(* the time a stop takes, what a closed window leaves behind, the schedule *)
(* of the polls and the order of a chart's points.                         *)
(***************************************************************************)
EXTENDS Lifecycle, TLAPS

-----------------------------------------------------------------------------
(* Charts.                                                                 *)

\* Trimming keeps a suffix, as long as it may be.
LEMMA TrimmedSuffix ==
    ASSUME NEW points \in Seq(Origins)
    PROVE  /\ Trimmed(points) \in Seq(Origins)
           /\ Len(Trimmed(points)) <= ChartCap
           /\ BarsInFront(points) => BarsInFront(Trimmed(points))
           /\ HasSample(Trimmed(points)) => HasSample(points)
<1> DEFINE first == 1 + IF Len(points) > ChartCap THEN Len(points) - ChartCap ELSE 0
<1> DEFINE kept == Trimmed(points)
<1>1. Len(points) \in Nat /\ ChartCap \in Nat \ {0}
  BY StockFeedAssumption
<1>2. first \in 1 .. Len(points) + 1 /\ Len(points) - first + 1 <= ChartCap
  BY <1>1
<1>3. kept = SubSeq(points, first, Len(points))
  BY DEF Trimmed
<1> HIDE DEF first
<1>4. /\ kept \in Seq(Origins)
      /\ Len(kept) = Len(points) - first + 1
      /\ \A i \in 1 .. Len(kept) : kept[i] = points[first + i - 1]
                                     /\ first + i - 1 \in 1 .. Len(points)
  BY <1>1, <1>2, <1>3
<1> HIDE DEF kept
<1>5. Len(kept) <= ChartCap
  BY <1>2, <1>4
<1>6. ASSUME BarsInFront(points)
      PROVE  BarsInFront(kept)
  <2> SUFFICES ASSUME NEW i \in DOMAIN kept, NEW j \in DOMAIN kept,
                      kept[i] = "sample", kept[j] = "bar"
               PROVE  j < i
    BY DEF BarsInFront
  <2>1. DOMAIN kept = 1 .. Len(kept) /\ DOMAIN points = 1 .. Len(points)
    BY <1>4
  <2>2. points[first + i - 1] = "sample" /\ points[first + j - 1] = "bar"
    BY <1>4, <2>1
  <2>3. first + j - 1 < first + i - 1
    BY <1>4, <1>6, <2>1, <2>2 DEF BarsInFront
  <2> QED  BY <1>2, <1>1, <2>1, <2>3, <1>4
<1>7. ASSUME HasSample(kept)
      PROVE  HasSample(points)
  <2>1. DOMAIN kept = 1 .. Len(kept) /\ DOMAIN points = 1 .. Len(points)
    BY <1>4
  <2>2. PICK i \in 1 .. Len(kept) : kept[i] = "sample"
    BY <1>7, <2>1 DEF HasSample
  <2>3. first + i - 1 \in DOMAIN points /\ points[first + i - 1] = "sample"
    BY <1>4, <2>1, <2>2
  <2> QED  BY <2>3 DEF HasSample
<1> QED  BY <1>4, <1>5, <1>6, <1>7 DEF kept

\* Bars put in front of a chart stay in front, and are no samples.
LEMMA BarsPrepended ==
    ASSUME NEW points \in Seq(Origins), NEW n \in Nat
    PROVE  LET bars == [k \in 1 .. n |-> "bar"] IN
           /\ bars \o points \in Seq(Origins)
           /\ BarsInFront(points) => BarsInFront(bars \o points)
           /\ HasSample(bars \o points) => HasSample(points)
<1> DEFINE bars == [k \in 1 .. n |-> "bar"]
<1> DEFINE both == bars \o points
<1>1. bars \in Seq(Origins) /\ Len(bars) = n /\ \A i \in 1 .. n : bars[i] = "bar"
  <2>1. "bar" \in Origins
    BY DEF Origins
  <2> QED  BY <2>1
<1> HIDE DEF bars
<1>2. /\ both \in Seq(Origins)
      /\ Len(both) = n + Len(points)
      /\ \A i \in 1 .. Len(both) : both[i] = IF i <= n THEN bars[i] ELSE points[i - n]
  BY <1>1
<1> HIDE DEF both
<1>3. Len(points) \in Nat /\ DOMAIN points = 1 .. Len(points)
         /\ DOMAIN both = 1 .. Len(both)
  BY <1>2
<1>4. \A i \in DOMAIN both : both[i] = "sample"
         => i > n /\ i - n \in DOMAIN points /\ points[i - n] = "sample"
  BY <1>1, <1>2, <1>3
<1>5. ASSUME BarsInFront(points)
      PROVE  BarsInFront(both)
  <2> SUFFICES ASSUME NEW i \in DOMAIN both, NEW j \in DOMAIN both,
                      both[i] = "sample", both[j] = "bar"
               PROVE  j < i
    BY DEF BarsInFront
  <2>1. i > n /\ i - n \in DOMAIN points /\ points[i - n] = "sample"
    BY <1>4
  <2>2. CASE j <= n
    BY <1>2, <1>3, <2>1, <2>2
  <2>3. CASE j > n
    <3>1. j - n \in DOMAIN points /\ points[j - n] = "bar"
      BY <1>2, <1>3, <2>3
    <3>2. j - n < i - n
      BY <1>5, <2>1, <3>1 DEF BarsInFront
    <3> QED  BY <3>2, <1>2, <1>3
  <2> QED  BY <2>2, <2>3, <1>2, <1>3
<1>6. ASSUME HasSample(both)
      PROVE  HasSample(points)
  BY <1>4, <1>6 DEF HasSample
<1> QED  BY <1>2, <1>5, <1>6 DEF bars, both

\* A sample put behind a chart leaves the bars in front.
LEMMA SampleAppended ==
    ASSUME NEW points \in Seq(Origins)
    PROVE  /\ Append(points, "sample") \in Seq(Origins)
           /\ BarsInFront(points) => BarsInFront(Append(points, "sample"))
<1> DEFINE longer == Append(points, "sample")
<1>1. "sample" \in Origins /\ Len(points) \in Nat
  BY DEF Origins
<1>2. /\ longer \in Seq(Origins)
      /\ DOMAIN longer = 1 .. Len(points) + 1 /\ DOMAIN points = 1 .. Len(points)
      /\ longer[Len(points) + 1] = "sample"
      /\ \A i \in 1 .. Len(points) : longer[i] = points[i]
  BY <1>1
<1> HIDE DEF longer
<1>3. ASSUME BarsInFront(points)
      PROVE  BarsInFront(longer)
  <2> SUFFICES ASSUME NEW i \in DOMAIN longer, NEW j \in DOMAIN longer,
                      longer[i] = "sample", longer[j] = "bar"
               PROVE  j < i
    BY DEF BarsInFront
  <2>1. j \in DOMAIN points /\ points[j] = "bar"
    BY <1>1, <1>2
  <2>2. CASE i = Len(points) + 1
    BY <1>1, <1>2, <2>1, <2>2
  <2>3. CASE i \in 1 .. Len(points)
    BY <1>2, <1>3, <2>1, <2>3 DEF BarsInFront
  <2> QED  BY <1>1, <1>2, <2>2, <2>3
<1> QED  BY <1>2, <1>3 DEF longer

-----------------------------------------------------------------------------
(* The stock poller.                                                       *)

Polling == {"symbols"} \cup Requests

\* What the poll has passed is backfilled, and so is all it asks quotes of.
Prepared ==
    /\ poller \in {"symbols", "bars", "name"} => syms \ todo \subseteq backfilled
    /\ poller \in {"name", "quotes"} => asked \subseteq backfilled

Gap == IF failed THEN Backoff ELSE Interval

\* A deadline is never before the end of the poll that set it, so never before
\* the begin of that poll; and it is a gap behind the deadline before it.
OnSchedule ==
    /\ poller \in Polling => wait <= 0 /\ wait + before >= 0
    /\ poller = "idle" =>
          /\ wait + since >= 0
          /\ before >= Gap \/ wait + before >= Gap

\* What stop() has waited for, by what it waits for now.
StopCounted ==
    /\ StopsInTime
    /\ running => stopping = 0
    /\ poller \in {"bars", "quotes"} => stopping <= age
    /\ poller = "name" => stopping <= age + HttpTimeout

StockInv ==
    /\ StockTypeOK
    /\ SamplesFollowBars
    /\ Prepared
    /\ OnSchedule
    /\ StopCounted

\* The assumptions on the constants, one by one.
LEMMA Constants ==
    /\ Interval \in Nat /\ Interval > 0 /\ Interval <= Backoff
    /\ Backoff \in Nat /\ HttpTimeout \in Nat /\ ErrorCap \in Nat /\ ErrorCap > 0
BY StockFeedAssumption

USE Constants DEF Requests, Polling, Gap

LEMMA StockStutters == StockInv /\ UNCHANGED stockVars => StockInv'
BY DEF StockInv, StockTypeOK, SamplesFollowBars, Prepared, OnSchedule, StopCounted,
       StopsInTime, stockVars, requestVars, cacheVars, ghostVars

\* Steps that leave the caches alone keep what the charts say.
LEMMA ChartsKept == SamplesFollowBars /\ UNCHANGED cacheVars => SamplesFollowBars'
BY DEF SamplesFollowBars, cacheVars

LEMMA PollBegins ==
    StockInv /\ (SkipPoll \/ BeginPoll \/ AskQuotes \/ LeaveStocks) => StockInv'
<1> SUFFICES ASSUME StockInv, SkipPoll \/ BeginPoll \/ AskQuotes \/ LeaveStocks
             PROVE  StockInv'
  OBVIOUS
<1>1. SamplesFollowBars'
  BY ChartsKept DEF StockInv, SkipPoll, BeginPoll, AskQuotes, LeaveStocks
<1>2. CASE SkipPoll
  BY <1>1, <1>2 DEF StockInv, StockTypeOK, Prepared, OnSchedule, StopCounted,
                    StopsInTime, cacheVars, ghostVars, SkipPoll, Scheduled
<1>3. CASE BeginPoll
  BY <1>1, <1>3 DEF StockInv, StockTypeOK, Prepared, OnSchedule, StopCounted,
                    StopsInTime, cacheVars, ghostVars, BeginPoll
<1>4. CASE AskQuotes
  BY <1>1, <1>4 DEF StockInv, StockTypeOK, Prepared, OnSchedule, StopCounted,
                    StopsInTime, cacheVars, ghostVars, AskQuotes
<1>5. CASE LeaveStocks
  BY <1>1, <1>5 DEF StockInv, StockTypeOK, Prepared, OnSchedule, StopCounted,
                    StopsInTime, cacheVars, ghostVars, LeaveStocks
<1> QED  BY <1>2, <1>3, <1>4, <1>5

LEMMA SymbolPrepared ==
    ASSUME NEW s \in Stocks, StockInv, Prepare(s) \/ ReceiveName(s)
    PROVE  StockInv'
<1>1. SamplesFollowBars'
  BY DEF StockInv, SamplesFollowBars, Prepare, ReceiveName, cacheVars
<1>2. CASE Prepare(s)
  BY <1>1, <1>2 DEF StockInv, StockTypeOK, Prepared, OnSchedule, StopCounted,
                    StopsInTime, cacheVars, ghostVars, Prepare
<1>3. CASE ReceiveName(s)
  BY <1>1, <1>3 DEF StockInv, StockTypeOK, Prepared, OnSchedule, StopCounted,
                    StopsInTime, cacheVars, ghostVars, ReceiveName
<1> QED  BY <1>2, <1>3

LEMMA BarsReceived ==
    ASSUME NEW s \in Stocks, StockInv, ReceiveBars(s)
    PROVE  StockInv'
<1>1. /\ chart' \in [Stocks -> Seq(Origins)]
      /\ \A t \in Stocks : Len(chart'[t]) <= ChartCap
      /\ \A t \in Stocks : BarsInFront(chart'[t])
      /\ \A t \in Stocks : HasSample(chart'[t]) => HasSample(chart[t])
  <2>1. CASE UNCHANGED chart
    BY <2>1 DEF StockInv, StockTypeOK, SamplesFollowBars
  <2>2. ASSUME NEW n \in 1 .. MaxBars,
               chart' = [chart EXCEPT ![s] = Trimmed([k \in 1 .. n |-> "bar"] \o @)]
        PROVE  /\ chart' \in [Stocks -> Seq(Origins)]
               /\ \A t \in Stocks : Len(chart'[t]) <= ChartCap
               /\ \A t \in Stocks : BarsInFront(chart'[t])
               /\ \A t \in Stocks : HasSample(chart'[t]) => HasSample(chart[t])
    <3> DEFINE bars == [k \in 1 .. n |-> "bar"]
    <3>1. chart[s] \in Seq(Origins) /\ BarsInFront(chart[s]) /\ n \in Nat
      BY DEF StockInv, StockTypeOK, SamplesFollowBars
    <3>2. /\ bars \o chart[s] \in Seq(Origins)
          /\ BarsInFront(bars \o chart[s])
          /\ HasSample(bars \o chart[s]) => HasSample(chart[s])
      BY <3>1, BarsPrepended
    <3> HIDE DEF bars
    <3> DEFINE new == Trimmed(bars \o chart[s])
    <3>3. /\ new \in Seq(Origins) /\ Len(new) <= ChartCap
          /\ BarsInFront(new)
          /\ HasSample(new) => HasSample(chart[s])
      BY <3>2, TrimmedSuffix
    <3>4. chart' = [chart EXCEPT ![s] = new]
      BY <2>2 DEF bars
    <3> HIDE DEF new
    <3> QED  BY <3>3, <3>4 DEF StockInv, StockTypeOK, SamplesFollowBars
  <2> QED  BY <2>1, <2>2 DEF ReceiveBars
<1>2. errors' \in 0 .. ErrorCap
  BY DEF StockInv, StockTypeOK, ReceiveBars, NoteError
<1>3. SamplesFollowBars'
  BY <1>1 DEF StockInv, SamplesFollowBars, ReceiveBars
<1>4. StockTypeOK'
  BY <1>1, <1>2 DEF StockInv, StockTypeOK, ghostVars, ReceiveBars
<1>5. Prepared' /\ OnSchedule'
  BY DEF StockInv, Prepared, OnSchedule, ghostVars, ReceiveBars
<1>6. StopCounted'
  BY DEF StockInv, StockTypeOK, StopCounted, StopsInTime, ghostVars, ReceiveBars
<1> QED  BY <1>3, <1>4, <1>5, <1>6 DEF StockInv

LEMMA PollEnds == StockInv /\ (ReceiveQuotes \/ QuotesFail) => StockInv'
<1> SUFFICES ASSUME StockInv, ReceiveQuotes \/ QuotesFail
             PROVE  StockInv'
  OBVIOUS
<1>1. CASE QuotesFail
  <2>1. SamplesFollowBars'
    BY <1>1, ChartsKept DEF StockInv, QuotesFail
  <2>2. wait' \in 0 .. Backoff /\ wait' >= wait + Backoff
    BY <1>1 DEF StockInv, StockTypeOK, OnSchedule, QuotesFail, EndPoll, Scheduled
  <2>3. errors' \in 0 .. ErrorCap
    BY <1>1 DEF StockInv, StockTypeOK, QuotesFail, NoteError
  <2>4. StockTypeOK'
    BY <1>1, <2>2, <2>3 DEF StockInv, StockTypeOK, cacheVars, QuotesFail, EndPoll
  <2>5. OnSchedule'
    BY <1>1, <2>2 DEF StockInv, StockTypeOK, OnSchedule, QuotesFail, EndPoll
  <2>6. Prepared' /\ StopCounted'
    BY <1>1 DEF StockInv, StockTypeOK, Prepared, StopCounted, StopsInTime, QuotesFail,
                EndPoll
  <2> QED  BY <2>1, <2>4, <2>5, <2>6 DEF StockInv
<1>2. CASE ReceiveQuotes
  <2>1. PICK priced \in SUBSET (asked \ Unknown) :
           chart' = [t \in Stocks |-> IF t \in priced
                                      THEN Trimmed(Append(chart[t], "sample"))
                                      ELSE chart[t]]
    BY <1>2 DEF ReceiveQuotes
  <2>2. /\ chart' \in [Stocks -> Seq(Origins)]
        /\ \A t \in Stocks : Len(chart'[t]) <= ChartCap
        /\ \A t \in Stocks : BarsInFront(chart'[t])
    <3>1. ASSUME NEW t \in Stocks
          PROVE  /\ chart'[t] \in Seq(Origins)
                 /\ Len(chart'[t]) <= ChartCap
                 /\ BarsInFront(chart'[t])
      <4>1. chart[t] \in Seq(Origins) /\ Len(chart[t]) <= ChartCap
               /\ BarsInFront(chart[t])
        BY DEF StockInv, StockTypeOK, SamplesFollowBars
      <4>2. CASE t \in priced
        BY <2>1, <4>1, <4>2, SampleAppended, TrimmedSuffix
      <4>3. CASE t \notin priced
        BY <2>1, <4>1, <4>3
      <4> QED  BY <4>2, <4>3
    <3> QED  BY <2>1, <3>1
  <2>3. \A t \in Stocks : HasSample(chart'[t]) => t \in backfilled'
    BY <1>2, <2>1 DEF StockInv, SamplesFollowBars, Prepared, ReceiveQuotes
  <2>4. SamplesFollowBars'
    BY <2>2, <2>3 DEF SamplesFollowBars
  <2>5. wait' \in 0 .. Backoff /\ wait' >= wait + Interval
    BY <1>2 DEF StockInv, StockTypeOK, OnSchedule, ReceiveQuotes, EndPoll, Scheduled
  <2>6. StockTypeOK'
    <3>1. quoted' \subseteq Stocks /\ failed' \in BOOLEAN
      BY <1>2 DEF StockInv, StockTypeOK, ReceiveQuotes
    <3>2. /\ poller' = "idle" /\ syms' = {} /\ asked' = {} /\ age' = 0
          /\ UNCHANGED <<online, running, watched, todo, backfilled, named, errors,
                         since, before, stopping>>
      BY <1>2 DEF ReceiveQuotes, EndPoll
    <3>3. age' \in 0 .. HttpTimeout /\ wait' \in -Backoff .. Backoff
      BY <2>5, <3>2
    <3> QED  BY <2>2, <3>1, <3>2, <3>3 DEF StockInv, StockTypeOK
  <2>7. OnSchedule'
    BY <1>2, <2>5 DEF StockInv, StockTypeOK, OnSchedule, ReceiveQuotes, EndPoll
  <2>8. Prepared' /\ StopCounted'
    BY <1>2 DEF StockInv, StockTypeOK, Prepared, StopCounted, StopsInTime,
                ReceiveQuotes, EndPoll
  <2> QED  BY <2>4, <2>6, <2>7, <2>8 DEF StockInv
<1> QED  BY <1>1, <1>2

LEMMA TimePassed == StockInv /\ Tick => StockInv'
<1> SUFFICES ASSUME StockInv, Tick
             PROVE  StockInv'
  OBVIOUS
<1>1. SamplesFollowBars'
  BY ChartsKept DEF StockInv, Tick
<1>2. /\ wait' \in -Backoff .. Backoff
      /\ since' \in 0 .. Backoff /\ before' \in 0 .. Backoff
      /\ age' \in 0 .. HttpTimeout /\ stopping' \in Nat
  BY DEF StockInv, StockTypeOK, Tick, Down, Up
<1>3. StockTypeOK'
  BY <1>2 DEF StockInv, StockTypeOK, cacheVars, Tick
<1>4. OnSchedule'
  <2>1. CASE poller = "idle"
    BY <2>1 DEF StockInv, StockTypeOK, OnSchedule, Tick, Down, Up
  <2>2. CASE poller \in Requests
    BY <2>2 DEF StockInv, StockTypeOK, OnSchedule, Tick, Down, Up
  <2> QED  BY <2>1, <2>2 DEF Tick
<1>5. StopCounted'
  <2>1. CASE running
    BY <2>1 DEF StockInv, StockTypeOK, StopCounted, StopsInTime, Tick
  <2>2. CASE ~running
    BY <2>2 DEF StockInv, StockTypeOK, StopCounted, StopsInTime, Tick
  <2> QED  BY <2>1, <2>2
<1>6. Prepared'
  BY DEF StockInv, Prepared, cacheVars, Tick
<1> QED  BY <1>1, <1>3, <1>4, <1>5, <1>6 DEF StockInv

LEMMA OthersAct ==
    ASSUME StockInv,
           StopStocks \/ DrainErrors \/ NetworkChanges \/ \E s \in Stocks : Watch(s)
    PROVE  StockInv'
<1>1. SamplesFollowBars'
  BY ChartsKept DEF StockInv, StopStocks, DrainErrors, NetworkChanges, Watch
<1>2. CASE StopStocks
  BY <1>1, <1>2 DEF StockInv, StockTypeOK, Prepared, OnSchedule, StopCounted,
                    StopsInTime, requestVars, cacheVars, ghostVars, StopStocks
<1>3. CASE DrainErrors
  BY <1>1, <1>3 DEF StockInv, StockTypeOK, Prepared, OnSchedule, StopCounted,
                    StopsInTime, requestVars, cacheVars, ghostVars, DrainErrors
<1>4. CASE NetworkChanges
  BY <1>1, <1>4 DEF StockInv, StockTypeOK, Prepared, OnSchedule, StopCounted,
                    StopsInTime, requestVars, cacheVars, ghostVars, NetworkChanges
<1>5. ASSUME NEW s \in Stocks, Watch(s)
      PROVE  StockInv'
  BY <1>1, <1>5 DEF StockInv, StockTypeOK, Prepared, OnSchedule, StopCounted,
                    StopsInTime, requestVars, cacheVars, ghostVars, Watch
<1> QED  BY <1>2, <1>3, <1>4, <1>5

LEMMA PollerKeeps == StockInv /\ PollerStep => StockInv'
BY PollBegins, SymbolPrepared, BarsReceived, PollEnds DEF PollerStep

-----------------------------------------------------------------------------
(* The terminal.                                                           *)

LifeTypes ==
    /\ window \in {"dialog", "desk", "closed", "crashed"} \cup Closing
    /\ engine \in {"none", "server", "feed", "loop", "ended"}
    /\ listening \in BOOLEAN /\ pid \in BOOLEAN /\ orphan \in BOOLEAN
    /\ child \in {"none", "alive", "zombie"}
    /\ signalled \in {"no", "TERM", "KILL"}
    /\ reaps \in 0 .. MaxReaps

\* Only the engine thread starts a feedhandler, behind the server; stop() goes on
\* when that thread has ended and undoes its work in the opposite order.
Supervised ==
    /\ engine = "none" => ~listening
    /\ engine \in {"none", "server", "feed"} => child = "none"
    /\ engine = "feed" => listening
    /\ child # "none" => pid /\ listening
    /\ window \in {"dialog", "crashed"} => engine = "none" /\ poller = "none"
    /\ window \in Closing \ {"join_engine"} => engine = "ended"
    /\ window \in {"end_server", "end_stocks", "join_stocks", "closed"} => child = "none"
    /\ window \in {"end_stocks", "join_stocks", "closed"} => ~listening
    /\ window = "closed" => engine \in {"none", "ended"} /\ poller \in {"none", "ended"}

\* START DESK finds a poller that has not been started.
FreshStocks ==
    window = "dialog" =>
        wait = 0 /\ since = Backoff /\ before = Backoff /\ ~failed /\ stopping = 0

LifeInv ==
    /\ StockInv
    /\ LifeTypes
    /\ Supervised
    /\ FreshStocks

USE DEF Closing

LEMMA LifeInvInit == LifeInit => LifeInv
<1> SUFFICES ASSUME LifeInit
             PROVE  LifeInv
  OBVIOUS
<1>1. \A s \in Stocks : chart[s] = <<>>
  BY DEF LifeInit, NoStocks
<1>2. SamplesFollowBars
  <2>1. \A i : i \notin DOMAIN <<>>
    OBVIOUS
  <2> QED  BY <1>1, <2>1 DEF SamplesFollowBars, BarsInFront, HasSample
<1>3. chart \in [Stocks -> Seq(Origins)] /\ \A s \in Stocks : Len(chart[s]) <= ChartCap
  <2>1. <<>> \in Seq(Origins) /\ Len(<<>>) = 0
    OBVIOUS
  <2>2. ChartCap \in Nat
    BY StockFeedAssumption
  <2> QED  BY <1>1, <2>1, <2>2 DEF LifeInit, NoStocks
<1>4. StockTypeOK
  <2>1. /\ 0 \in -Backoff .. Backoff /\ 0 \in 0 .. HttpTimeout /\ 0 \in 0 .. ErrorCap
        /\ Backoff \in 0 .. Backoff /\ 0 \in Nat
    OBVIOUS
  <2> QED  BY <1>3, <2>1, Zenon DEF LifeInit, NoStocks, StockTypeOK
<1>5. Prepared /\ OnSchedule /\ StopCounted
  BY DEF LifeInit, NoStocks, Prepared, OnSchedule, StopCounted, StopsInTime
<1>6. LifeTypes
  <2>1. 0 \in 0 .. MaxReaps
    BY LifecycleAssumption
  <2> QED  BY <2>1 DEF LifeInit, NoStocks, LifeTypes
<1>7. Supervised /\ FreshStocks
  BY DEF LifeInit, NoStocks, Supervised, FreshStocks
<1> QED  BY <1>2, <1>4, <1>5, <1>6, <1>7 DEF LifeInv, StockInv

\* Steps in which the poller and its StockFeed have no part.
LEMMA TerminalKeeps ==
    ASSUME LifeInv,
           \/ OpenServer \/ StartFeed \/ LeaveEngine \/ CloseWindow \/ JoinEngine
           \/ EndFeed \/ Reaped \/ Insist \/ EndServer \/ JoinStocks \/ FeedEnds
           \/ OrphanLeaves
    PROVE  LifeInv'
<1>1. UNCHANGED stockVars
  BY DEF OpenServer, StartFeed, LeaveEngine, CloseWindow, JoinEngine, EndFeed, Reaped,
         Insist, EndServer, JoinStocks, FeedEnds, OrphanLeaves
<1>2. StockInv'
  BY <1>1, StockStutters DEF LifeInv
<1>3. poller' = poller /\ wait' = wait /\ since' = since /\ before' = before
         /\ failed' = failed /\ stopping' = stopping
  BY <1>1 DEF stockVars, requestVars, ghostVars
<1>4. FreshStocks'
  BY <1>3 DEF LifeInv, FreshStocks, OpenServer, StartFeed, LeaveEngine, CloseWindow,
              JoinEngine, EndFeed, Reaped, Insist, EndServer, JoinStocks, FeedEnds,
              OrphanLeaves
<1>5. LifeTypes'
  <2>1. CASE OpenServer \/ StartFeed \/ LeaveEngine
    BY <2>1 DEF LifeInv, LifeTypes, processVars, OpenServer, StartFeed, LeaveEngine
  <2>2. CASE CloseWindow \/ JoinEngine \/ EndFeed
    BY <2>2 DEF LifeInv, LifeTypes, processVars, CloseWindow, JoinEngine, EndFeed
  <2>3. CASE Insist
    <3>1. reaps' \in 0 .. MaxReaps
      BY <2>3, LifecycleAssumption DEF LifeInv, LifeTypes, Insist
    <3> QED  BY <2>3, <3>1 DEF LifeInv, LifeTypes, Insist
  <2>4. CASE Reaped \/ EndServer \/ JoinStocks \/ FeedEnds \/ OrphanLeaves
    BY <2>4 DEF LifeInv, LifeTypes, processVars, Reaped, EndServer, JoinStocks,
                FeedEnds, OrphanLeaves
  <2> QED  BY <2>1, <2>2, <2>3, <2>4
<1>6. Supervised'
  <2>1. CASE OpenServer \/ StartFeed \/ LeaveEngine
    BY <1>3, <2>1 DEF LifeInv, LifeTypes, Supervised, processVars, OpenServer,
                      StartFeed, LeaveEngine
  <2>2. CASE CloseWindow \/ JoinEngine \/ EndFeed
    BY <1>3, <2>2 DEF LifeInv, LifeTypes, Supervised, processVars, CloseWindow,
                      JoinEngine, EndFeed
  <2>3. CASE Reaped \/ Insist \/ EndServer \/ JoinStocks
    BY <1>3, <2>3 DEF LifeInv, LifeTypes, Supervised, processVars, Reaped, Insist,
                      EndServer, JoinStocks
  <2>4. CASE FeedEnds \/ OrphanLeaves
    BY <1>3, <2>4 DEF LifeInv, LifeTypes, Supervised, processVars, FeedEnds,
                      OrphanLeaves
  <2> QED  BY <2>1, <2>2, <2>3, <2>4
<1> QED  BY <1>2, <1>4, <1>5, <1>6 DEF LifeInv

\* Steps of the StockFeed alone: the poller starts and ends when it should.
LEMMA StocksKeep ==
    ASSUME LifeInv, UNCHANGED deskVars, StockInv', poller = "none" => UNCHANGED poller,
           poller = "ended" => UNCHANGED poller,
           window = "dialog" => UNCHANGED ghostVars /\ UNCHANGED wait
    PROVE  LifeInv'
BY DEF LifeInv, LifeTypes, Supervised, FreshStocks, deskVars, processVars, ghostVars

LEMMA StocksStep ==
    ASSUME LifeInv,
           \/ PollerRuns \/ TimePasses \/ ReadErrors
           \/ NetworkChanges /\ UNCHANGED deskVars
           \/ \E s \in Stocks : AddStock(s)
    PROVE  LifeInv'
<1>1. StockInv
  BY DEF LifeInv
<1>2. window = "dialog" => poller = "none"
  BY DEF LifeInv, Supervised
<1>3. CASE PollerRuns
  <2>1. poller \notin {"none", "ended"}
    BY <1>3 DEF PollerRuns, PollerStep, SkipPoll, BeginPoll, AskQuotes, ReceiveQuotes,
                QuotesFail, LeaveStocks, Prepare, ReceiveBars, ReceiveName
  <2> QED  BY <1>1, <1>2, <1>3, <2>1, PollerKeeps, StocksKeep DEF PollerRuns
<1>4. CASE TimePasses
  <2>1. poller \notin {"none", "ended"}
    BY <1>4 DEF TimePasses, Tick
  <2> QED  BY <1>1, <1>2, <1>4, <2>1, TimePassed, StocksKeep DEF TimePasses
<1>5. CASE ReadErrors
  <2>1. UNCHANGED <<poller, wait, ghostVars>>
    BY <1>5 DEF ReadErrors, DrainErrors, requestVars
  <2> QED  BY <1>1, <1>5, <2>1, OthersAct, StocksKeep DEF ReadErrors
<1>6. CASE NetworkChanges /\ UNCHANGED deskVars
  <2>1. UNCHANGED <<poller, wait, ghostVars>>
    BY <1>6 DEF NetworkChanges, requestVars
  <2> QED  BY <1>1, <1>6, <2>1, OthersAct, StocksKeep
<1>7. ASSUME NEW s \in Stocks, AddStock(s)
      PROVE  LifeInv'
  <2>1. UNCHANGED <<poller, wait, ghostVars>>
    BY <1>7 DEF AddStock, Watch, requestVars
  <2> QED  BY <1>1, <1>7, <2>1, OthersAct, StocksKeep DEF AddStock
<1> QED  BY <1>3, <1>4, <1>5, <1>6, <1>7

\* Steps of both: the poller is started, stopped, or dies with the terminal.
LEMMA DeskStarts == LifeInv /\ StartDesk => LifeInv'
<1> SUFFICES ASSUME LifeInv, StartDesk
             PROVE  LifeInv'
  OBVIOUS
<1>1. SamplesFollowBars'
  BY ChartsKept DEF LifeInv, StockInv, StartDesk, StartStocks
<1>2. StockTypeOK'
  BY DEF LifeInv, StockInv, StockTypeOK, cacheVars, ghostVars, StartDesk, StartStocks
<1>3. Prepared' /\ OnSchedule' /\ StopCounted'
  BY DEF LifeInv, StockInv, StockTypeOK, FreshStocks, Prepared, OnSchedule, StopCounted,
         StopsInTime, ghostVars, StartDesk, StartStocks
<1>4. LifeTypes' /\ Supervised' /\ FreshStocks'
  BY DEF LifeInv, LifeTypes, Supervised, FreshStocks, processVars, StartDesk
<1> QED  BY <1>1, <1>2, <1>3, <1>4 DEF LifeInv, StockInv

LEMMA StocksEnd == LifeInv /\ EndStocks => LifeInv'
<1> SUFFICES ASSUME LifeInv, EndStocks
             PROVE  LifeInv'
  OBVIOUS
<1>1. StockInv'
  BY OthersAct DEF LifeInv, EndStocks
<1>2. LifeTypes' /\ Supervised' /\ FreshStocks'
  BY DEF LifeInv, LifeTypes, Supervised, FreshStocks, processVars, requestVars,
         EndStocks, StopStocks
<1> QED  BY <1>1, <1>2 DEF LifeInv

LEMMA TerminalCrashes == LifeInv /\ Crash => LifeInv'
<1> SUFFICES ASSUME LifeInv, Crash
             PROVE  LifeInv'
  OBVIOUS
<1>1. SamplesFollowBars'
  BY ChartsKept DEF LifeInv, StockInv, Crash
<1>2. StockTypeOK'
  BY DEF LifeInv, StockInv, StockTypeOK, cacheVars, ghostVars, Crash
<1>3. Prepared' /\ OnSchedule' /\ StopCounted'
  BY DEF LifeInv, StockInv, StockTypeOK, Prepared, OnSchedule, StopCounted,
         StopsInTime, ghostVars, Crash
<1>4. LifeTypes' /\ Supervised' /\ FreshStocks'
  BY DEF LifeInv, LifeTypes, Supervised, FreshStocks, Crash
<1> QED  BY <1>1, <1>2, <1>3, <1>4 DEF LifeInv, StockInv

LEMMA LifeInvNext == LifeInv /\ [LifeNext]_lifeVars => LifeInv'
<1> SUFFICES ASSUME LifeInv, [LifeNext]_lifeVars
             PROVE  LifeInv'
  OBVIOUS
<1>1. CASE UNCHANGED lifeVars
  <2>1. UNCHANGED stockVars /\ UNCHANGED deskVars
    BY <1>1 DEF lifeVars
  <2>2. UNCHANGED <<poller, wait, ghostVars>>
    BY <2>1 DEF stockVars, requestVars
  <2> QED  BY <2>1, <2>2, StockStutters, StocksKeep DEF LifeInv
<1>2. CASE LifeNext
  BY <1>2, TerminalKeeps, StocksStep, DeskStarts, StocksEnd, TerminalCrashes
     DEF LifeNext
<1> QED  BY <1>1, <1>2

LEMMA LifeInvAlways == LifeSpec => []LifeInv
BY LifeInvInit, LifeInvNext, PTL DEF LifeSpec

-----------------------------------------------------------------------------
(* Theorems.                                                               *)

\* The types, and the time a stop takes: two requests at most.
THEOREM LifeTypeCorrect == LifeSpec => []LifeTypeOK
<1>1. LifeInv => LifeTypeOK
  BY DEF LifeInv, StockInv, StopCounted, LifeTypes, LifeTypeOK
<1> QED  BY <1>1, LifeInvAlways, PTL

\* Whenever stop() comes, no process and no thread is left when it has returned.
THEOREM ClosedMeansGone == LifeSpec => []NothingLeftBehind
<1>1. LifeInv => NothingLeftBehind
  BY DEF LifeInv, Supervised, NothingLeftBehind
<1> QED  BY <1>1, LifeInvAlways, PTL

\* The feedhandler finds its server listening as long as it runs.
THEOREM FeedHasItsServer == LifeSpec => []ListensWhileFeedRuns
<1>1. LifeInv => ListensWhileFeedRuns
  BY DEF LifeInv, Supervised, ListensWhileFeedRuns
<1> QED  BY <1>1, LifeInvAlways, PTL

\* No chart has a sample older than its bars.
THEOREM ChartsInOrder == LifeSpec => []SamplesFollowBars
<1>1. LifeInv => SamplesFollowBars
  BY DEF LifeInv, StockInv
<1> QED  BY <1>1, LifeInvAlways, PTL

\* Of three polls in a row the last begins an interval after the first or more, a
\* backoff if the second failed, however late the thread wakes and however slow
\* the polls are.
THEOREM PollsComeInNoBurst == LifeSpec => NoBurstOfPolls
<1> DEFINE NoBurst == poller = "idle" /\ poller' = "symbols" => before >= Gap
<1>1. LifeInv /\ [LifeNext]_lifeVars => [NoBurst]_stockVars
  <2> SUFFICES ASSUME LifeInv, [LifeNext]_lifeVars, ~UNCHANGED stockVars,
                      poller = "idle", poller' = "symbols"
               PROVE  before >= Gap
    OBVIOUS
  <2>1. BeginPoll
    BY DEF LifeNext, lifeVars, stockVars, requestVars, PollerRuns, PollerStep,
           TimePasses, Tick, StartDesk, StartStocks, OpenServer, StartFeed, ReadErrors,
           DrainErrors, LeaveEngine, AddStock, Watch, CloseWindow, JoinEngine, EndFeed,
           Reaped, Insist, EndServer, EndStocks, StopStocks, JoinStocks, Crash, FeedEnds,
           OrphanLeaves, NetworkChanges, SkipPoll, AskQuotes, ReceiveQuotes, QuotesFail,
           LeaveStocks, Prepare, ReceiveBars, ReceiveName
  <2>2. wait <= 0 /\ wait \in Int /\ before \in Int
    BY <2>1 DEF BeginPoll, LifeInv, StockInv, StockTypeOK
  <2>3. before >= Gap \/ wait + before >= Gap
    BY DEF LifeInv, StockInv, OnSchedule
  <2> QED  BY <2>2, <2>3
<1> QED  BY <1>1, LifeInvAlways, PTL DEF LifeSpec, NoBurstOfPolls
=============================================================================
