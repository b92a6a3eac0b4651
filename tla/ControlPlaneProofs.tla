------------------------- MODULE ControlPlaneProofs -------------------------
(***************************************************************************)
(* The safety of the control plane, for any symbols, catalog and number of *)
(* late answers and drops.                                                 *)
(*                                                                         *)
(* ControlInv adds to the properties what they rest on: for which poll the *)
(* feed waits, and when (Waiting); what is subscribed at each stage of the *)
(* Coinbase loop (Streaming); and that a request on its way is for a       *)
(* watched symbol, so that none is made twice (OnItsWay).                  *)
(***************************************************************************)
EXTENDS ControlPlane, TLAPS

Polls == {"awaited", "given up"}

OnlyLast(p) == \A i \in DOMAIN p : p[i] = "awaited" => i = Len(p)

NoneAwaited(p) == \A i \in DOMAIN p : p[i] # "awaited"

\* A poll the feed waits for has its answer, or is the last one unanswered; a
\* draft is for a poll.
Waiting ==
    /\ OnlyLast(polls)
    /\ NoneAwaited(polls) \/ (ctl = "polling" /\ answer = None)
    /\ ctl = "polling" \/ answer = None
    /\ ctl = "polling" /\ answer = None
          => polls # <<>> /\ polls[Len(polls)] = "awaited"
    /\ drawn # None => polls # <<>>

\* The catalog comes before the first connection; afterwards what is announced,
\* sampled or on the stream counts as subscribed.
Streaming ==
    /\ run = "catalog" => conns = 0 /\ prods = {} /\ onStream = {} /\ universe = {}
    /\ ctl = "subscribing" => via # 0
    /\ AnnouncedIsSubscribed
    /\ prods \subseteq subscribed /\ onStream \subseteq subscribed

OnItsWay ==
    /\ requested \cup InDraft \cup InAnswer \cup new \subseteq watched
    /\ ctl # "subscribing" => new = {}
    /\ HandedOutOnce

ControlInv == TypeOK /\ Waiting /\ Streaming /\ OnItsWay

LEMMA ControlInit == Init => ControlInv
<1>. SUFFICES ASSUME Init PROVE ControlInv
  OBVIOUS
<1>. USE ControlPlaneAssumption DEF Init
<1>1. TypeOK
  <2>1. SetsOK
    BY DEF SetsOK
  <2>2. QueuesOK
    BY DEF QueuesOK, Optional
  <2>3. LoopsOK
    <3>1. 0 \in 0 .. 0 /\ 0 \in 0 .. MaxTimeouts /\ 0 \in 0 .. MaxDrops
      OBVIOUS
    <3>. QED
      BY <3>1, Zenon DEF LoopsOK
  <2>. QED
    BY <2>1, <2>2, <2>3 DEF TypeOK
<1>2. Waiting
  BY DEF Waiting, OnlyLast, NoneAwaited, None
<1>3. Streaming
  BY DEF Streaming, AnnouncedIsSubscribed
<1>4. OnItsWay
  BY DEF OnItsWay, HandedOutOnce, InDraft, InAnswer, None
<1>. QED
  BY <1>1, <1>2, <1>3, <1>4 DEF ControlInv

-----------------------------------------------------------------------------
(* The polls.                                                              *)

LEMMA TailOfPolls ==
    ASSUME NEW p \in Seq(Polls), p # <<>>, OnlyLast(p)
    PROVE  /\ Tail(p) \in Seq(Polls) /\ OnlyLast(Tail(p))
           /\ NoneAwaited(p) => NoneAwaited(Tail(p))
           /\ Head(p) = "awaited" => Tail(p) = <<>>
           /\ Head(p) # "awaited" /\ p[Len(p)] = "awaited"
                => Tail(p) # <<>> /\ Tail(p)[Len(Tail(p))] = "awaited"
<1>. DEFINE t == Tail(p)
            n == Len(p)
<1>1. t \in Seq(Polls) /\ n \in Nat \ {0} /\ Len(t) = n - 1
  OBVIOUS
<1>2. DOMAIN p = 1 .. n /\ DOMAIN t = 1 .. n - 1
  OBVIOUS
<1>3. \A i \in 1 .. n - 1 : t[i] = p[i + 1]
  OBVIOUS
<1>4. \A i \in 1 .. n : p[i] = "awaited" => i = n
  BY <1>2 DEF OnlyLast
<1>. HIDE DEF t, n
<1>5. OnlyLast(t)
  BY <1>1, <1>2, <1>3, <1>4 DEF OnlyLast
<1>6. NoneAwaited(p) => NoneAwaited(t)
  BY <1>1, <1>2, <1>3 DEF NoneAwaited
<1>7. p[1] = "awaited" => t = <<>>
  BY <1>1, <1>4
<1>8. p[1] # "awaited" /\ p[n] = "awaited" => t # <<>> /\ t[Len(t)] = "awaited"
  BY <1>1, <1>3
<1>. QED
  BY <1>1, <1>5, <1>6, <1>7, <1>8 DEF t, n

LEMMA LastGivenUp ==
    ASSUME NEW p \in Seq(Polls), p # <<>>, OnlyLast(p)
    PROVE  LET q == [p EXCEPT ![Len(p)] = "given up"] IN
           q \in Seq(Polls) /\ q # <<>> /\ NoneAwaited(q)
<1>. DEFINE q == [p EXCEPT ![Len(p)] = "given up"]
            n == Len(p)
<1>1. p \in [1 .. n -> Polls] /\ n \in Nat \ {0}
  OBVIOUS
<1>2. \A i \in 1 .. n : p[i] = "awaited" => i = n
  BY DEF OnlyLast
<1>. HIDE DEF n
<1>3. q \in [1 .. n -> Polls]
  BY <1>1 DEF Polls, n
<1>4. \A i \in 1 .. n : q[i] = IF i = n THEN "given up" ELSE p[i]
  BY <1>1 DEF n
<1>. HIDE DEF q
<1>5. q \in Seq(Polls) /\ Len(q) = n /\ DOMAIN q = 1 .. n
  BY <1>1, <1>3
<1>. QED
  <2>1. NoneAwaited(q)
    BY <1>2, <1>4, <1>5 DEF NoneAwaited
  <2>2. q # <<>>
    BY <1>1, <1>5
  <2>. QED
    BY <1>5, <2>1, <2>2 DEF q

LEMMA LastGone ==
    ASSUME NEW p \in Seq(Polls), p # <<>>, OnlyLast(p)
    PROVE  /\ Front(p) \in Seq(Polls) /\ NoneAwaited(Front(p))
           /\ Len(p) > 1 => Front(p) # <<>>
<1>. DEFINE f == Front(p)
            n == Len(p)
<1>1. f = [i \in 1 .. n - 1 |-> p[i]] /\ n \in Nat \ {0}
  BY DEF Front
<1>2. \A i \in 1 .. n : p[i] = "awaited" => i = n
  BY DEF OnlyLast
<1>3. \A i \in 1 .. n : p[i] \in Polls
  OBVIOUS
<1>. HIDE DEF f, n
<1>4. f \in Seq(Polls) /\ Len(f) = n - 1 /\ DOMAIN f = 1 .. n - 1
  BY <1>1, <1>3
<1>5. NoneAwaited(f)
  BY <1>1, <1>2, <1>4 DEF NoneAwaited
<1>6. n > 1 => f # <<>>
  BY <1>1, <1>4
<1>. QED
  BY <1>4, <1>5, <1>6 DEF f, n
LEMMA PollAnswered == polls \in Seq(Polls) /\ Waiting /\ Answer => Waiting'
<1>. SUFFICES ASSUME polls \in Seq(Polls), Waiting, Answer PROVE Waiting'
  OBVIOUS
<1>1. /\ drawn' = None /\ polls' = Tail(polls) /\ ctl' = ctl /\ polls # <<>>
      /\ Head(polls) = "awaited" => answer' # None
      /\ Head(polls) # "awaited" => answer' = answer
  <2>1. drawn' = None /\ polls' = Tail(polls) /\ drawn # None /\ UNCHANGED ctl
    BY DEF Answer, feedSide, ctlVars
  <2>2. polls # <<>>
    BY <2>1, Zenon DEF Waiting
  <2>3. Head(polls) = "awaited" =>
          answer' = <<[syms |-> drawn[1], hist |-> histRequests]>>
    BY Zenon DEF Answer
  <2>4. Head(polls) # "awaited" => answer' = answer
    BY Zenon DEF Answer
  <2>5. \A x : <<x>> # None
    BY DEF None
  <2>. QED
    BY <2>1, <2>2, <2>3, <2>4, <2>5, Zenon
<1>2. /\ OnlyLast(polls')
      /\ NoneAwaited(polls) => NoneAwaited(polls')
      /\ Head(polls) = "awaited" => NoneAwaited(polls')
      /\ Head(polls) # "awaited" /\ polls[Len(polls)] = "awaited"
           => polls' # <<>> /\ polls'[Len(polls')] = "awaited"
  <2>1. NoneAwaited(<<>>)
    BY DEF NoneAwaited
  <2>2. OnlyLast(polls)
    BY DEF Waiting
  <2>. QED
    BY <1>1, <2>1, <2>2, TailOfPolls, Zenon
<1>3. Head(polls) = "awaited" => ~NoneAwaited(polls)
  BY <1>1 DEF NoneAwaited
<1>. QED
  BY <1>1, <1>2, <1>3, Zenon DEF Waiting

LEMMA PollSent == polls \in Seq(Polls) /\ Waiting /\ Poll => Waiting'
<1>. SUFFICES ASSUME polls \in Seq(Polls), Waiting, Poll PROVE Waiting'
  OBVIOUS
<1>1. /\ polls' = Append(polls, "awaited") /\ ctl = "asleep" /\ ctl' = "polling"
      /\ drawn' = drawn /\ answer' = answer
  BY DEF Poll
<1>2. answer = None /\ NoneAwaited(polls)
  BY <1>1 DEF Waiting
<1>3. OnlyLast(polls') /\ polls' # <<>> /\ polls'[Len(polls')] = "awaited"
  BY <1>1, <1>2 DEF OnlyLast, NoneAwaited
<1>. QED
  BY <1>1, <1>2, <1>3, Zenon DEF Waiting

LEMMA PollGivenUp == polls \in Seq(Polls) /\ Waiting /\ PollTimesOut => Waiting'
<1>. SUFFICES ASSUME polls \in Seq(Polls), Waiting, PollTimesOut PROVE Waiting'
  OBVIOUS
<1>1. ctl = "polling" /\ ctl' = "asleep" /\ drawn' = drawn
  BY Zenon DEF PollTimesOut
<1>2. CASE answer # None
  <2>1. answer' = None /\ polls' = polls
    BY <1>2, Zenon DEF PollTimesOut
  <2>. QED
    BY <1>1, <1>2, <2>1, Zenon DEF Waiting
<1>3. CASE answer = None
  <2>1. polls # <<>> /\ OnlyLast(polls) /\ answer' = None
    BY <1>1, <1>3, Zenon DEF Waiting, PollTimesOut
  <2>2. /\ NoneAwaited(polls')
        /\ drawn # None => polls' # <<>>
    <3>1. CASE polls' = [polls EXCEPT ![Len(polls)] = "given up"]
      BY <2>1, <3>1, LastGivenUp, Zenon
    <3>2. CASE (drawn = None \/ Len(polls) > 1) /\ polls' = Front(polls)
      BY <2>1, <3>2, LastGone, Zenon
    <3>. QED
      BY <1>3, <3>1, <3>2, Zenon DEF PollTimesOut
  <2>3. OnlyLast(polls')
    BY <2>2, Zenon DEF OnlyLast, NoneAwaited
  <2>4. ctl' # "polling"
    BY <1>1
  <2>. QED
    BY <1>1, <2>1, <2>2, <2>3, <2>4, Zenon DEF Waiting
<1>. QED
  BY <1>2, <1>3

LEMMA AnswerReceived == Waiting /\ Receive => Waiting'
<1>. SUFFICES ASSUME Waiting, Receive PROVE Waiting'
  OBVIOUS
<1>1. /\ answer # None /\ answer' = None
      /\ polls' = polls /\ drawn' = drawn /\ ctl' # "polling"
  BY DEF Receive, Proceed
<1>. QED
  BY <1>1, Zenon DEF Waiting

LEMMA WaitingStep == TypeOK /\ Waiting /\ [Next]_vars => Waiting'
<1>. SUFFICES ASSUME TypeOK, Waiting, [Next]_vars PROVE Waiting'
  OBVIOUS
<1>. USE DEF terminalSide, feedSide, serverVars, ctlVars
<1>1. CASE \/ \E s \in Symbols : AddSymbol(s) \/ Chart(s)
           \/ UniverseArrives \/ AdoptUniverse
           \/ CatalogArrives \/ CatalogFails \/ Connect \/ Connected
           \/ ConnectFails \/ SubscribeAll \/ Drop \/ StreamFails \/ Rested
           \/ UNCHANGED vars
  <2>1. UNCHANGED <<polls, drawn, answer, ctl>>
    BY <1>1 DEF AddSymbol, Chart, UniverseArrives, AdoptUniverse, CatalogArrives,
                CatalogFails, Connect, Connected, ConnectFails, SubscribeAll, Drop,
                StreamFails, Rested, vars
  <2>. QED
    BY <2>1, Zenon DEF Waiting
<1>2. CASE TakeRequested
  <2>1. UNCHANGED <<polls, answer, ctl>> /\ polls # <<>>
    BY <1>2 DEF TakeRequested
  <2>. QED
    BY <2>1, Zenon DEF Waiting
<1>3. CASE Subscribe \/ SubscribeFails \/ Backfill
  <2>1. UNCHANGED serverVars /\ ctl # "polling" /\ ctl' # "polling"
    BY <1>3 DEF Subscribe, SubscribeFails, Backfill, Proceed
  <2>. QED
    BY <2>1, Zenon DEF Waiting
<1>4. polls \in Seq(Polls)
  BY DEF TypeOK, QueuesOK, Polls
<1>. QED
  BY <1>1, <1>2, <1>3, <1>4, PollAnswered, PollSent, PollGivenUp, AnswerReceived
  DEF Next
-----------------------------------------------------------------------------
(* What is subscribed.                                                     *)

LEMMA StreamingStep == LoopsOK /\ Streaming /\ [Next]_vars => Streaming'
<1>. SUFFICES ASSUME LoopsOK, Streaming, [Next]_vars PROVE Streaming'
  OBVIOUS
<1>. USE DEF feedSide, feedVars, ctlVars, runVars, outside, exchangeVars
<1>1. CASE UNCHANGED <<run, conns, prods, onStream, universe, subscribed, via, ctl>>
  BY <1>1 DEF Streaming, AnnouncedIsSubscribed
<1>2. CASE UNCHANGED <<run, conns, prods, onStream, universe, subscribed>>
             /\ ctl' # "subscribing"
  BY <1>2 DEF Streaming, AnnouncedIsSubscribed
<1>3. CASE (\E s \in Symbols : AddSymbol(s) \/ Chart(s))
             \/ UniverseArrives \/ AdoptUniverse \/ TakeRequested \/ Answer
             \/ UNCHANGED vars
  <2>1. UNCHANGED feedSide /\ UNCHANGED exchangeVars
    BY <1>3 DEF AddSymbol, Chart, UniverseArrives, AdoptUniverse, TakeRequested,
                Answer, vars
  <2>. QED
    BY <1>1, <2>1
<1>4. CASE Poll \/ PollTimesOut \/ SubscribeFails \/ Backfill
  <2>1. /\ UNCHANGED <<run, conns, prods, onStream, universe, subscribed>>
        /\ ctl' # "subscribing"
    BY <1>4 DEF Poll, PollTimesOut, SubscribeFails, Backfill, Proceed
  <2>. QED
    BY <1>2, <2>1
<1>5. CASE Receive
  <2>1. /\ UNCHANGED <<run, conns, prods, onStream, universe>>
        /\ subscribed \subseteq subscribed'
        /\ ctl' = "subscribing" => via' # 0
    BY <1>5 DEF Receive, Proceed
  <2>. QED
    BY <2>1 DEF Streaming, AnnouncedIsSubscribed
<1>6. CASE Subscribe
  <2>1. /\ UNCHANGED <<run, conns, prods>> /\ ctl' # "subscribing"
        /\ subscribed' = subscribed \cup new /\ universe' = subscribed'
        /\ onStream' \subseteq onStream \cup new
    BY <1>6 DEF Subscribe, Proceed
  <2>2. run # "catalog"
    BY <1>6 DEF Subscribe, Streaming, LoopsOK
  <2>. QED
    BY <2>1, <2>2 DEF Streaming, AnnouncedIsSubscribed
<1>7. CASE CatalogArrives
  BY <1>7 DEF CatalogArrives, Streaming, AnnouncedIsSubscribed
<1>8. CASE CatalogFails \/ Connect \/ Connected \/ ConnectFails \/ SubscribeAll
             \/ Drop \/ StreamFails \/ Rested
  <2>1. UNCHANGED <<subscribed, ctl, via>> /\ (run' = "catalog" => run = "catalog")
    BY <1>8 DEF CatalogFails, Connect, Connected, ConnectFails, SubscribeAll,
                Drop, StreamFails, Rested
  <2>2. /\ prods' \in {prods, subscribed} /\ universe' \in {universe, prods}
        /\ onStream' \subseteq onStream \cup prods
    BY <1>8 DEF CatalogFails, Connect, Connected, ConnectFails, SubscribeAll,
                Drop, StreamFails, Rested
  <2>3. run' = "catalog" => UNCHANGED <<conns, prods, universe>> /\ onStream' = {}
    BY <1>8 DEF CatalogFails, Connect, Connected, ConnectFails, SubscribeAll,
                Drop, StreamFails, Rested, Streaming
  <2>. QED
    BY <2>1, <2>2, <2>3 DEF Streaming, AnnouncedIsSubscribed
<1>. QED
  BY <1>3, <1>4, <1>5, <1>6, <1>7, <1>8 DEF Next

-----------------------------------------------------------------------------
(* The requests on their way.                                              *)

LEMMA OnItsWayStep ==
    Waiting /\ Streaming /\ OnItsWay /\ [Next]_vars => OnItsWay'
<1>. SUFFICES ASSUME Waiting, Streaming, OnItsWay, [Next]_vars PROVE OnItsWay'
  OBVIOUS
<1>. USE DEF terminalSide, terminalVars, serverVars, feedSide, feedVars, ctlVars,
             outside, exchangeVars
\* The way gets no longer, and nothing on it is subscribed.
<1>1. ASSUME requested' \subseteq requested, UNCHANGED drawn,
             InAnswer' \subseteq InAnswer, watched \subseteq watched',
             new' \subseteq new, ctl' # "subscribing" => new' = {},
             new' \cap (subscribed' \cup onStream') = {}
      PROVE  OnItsWay'
  BY <1>1 DEF OnItsWay, HandedOutOnce, InDraft
<1>2. CASE \E s \in Symbols : AddSymbol(s)
  <2>1. PICK s \in Symbols : AddSymbol(s)
    BY <1>2
  <2>2. /\ s \notin watched /\ watched' = watched \cup {s}
        /\ requested' = requested \cup {s}
        /\ UNCHANGED <<drawn, answer, new, ctl, subscribed, onStream>>
    BY <2>1 DEF AddSymbol
  <2>. QED
    BY <2>2 DEF OnItsWay, HandedOutOnce, InDraft, InAnswer
<1>3. CASE (\E s \in Symbols : Chart(s)) \/ UniverseArrives \/ AdoptUniverse
             \/ UNCHANGED vars \/ Poll \/ Backfill
  <2>1. /\ UNCHANGED <<requested, drawn, answer, new, subscribed, onStream>>
        /\ watched \subseteq watched'
    BY <1>3 DEF Chart, UniverseArrives, AdoptUniverse, Poll, Backfill, vars
  <2>2. ctl' # "subscribing" => new = {}
    BY <1>3 DEF Chart, UniverseArrives, AdoptUniverse, Poll, Backfill, vars, OnItsWay
  <2>. QED
    BY <1>1, <2>1, <2>2 DEF OnItsWay, HandedOutOnce, InAnswer
<1>4. CASE TakeRequested
  <2>1. /\ drawn = None /\ drawn' = <<requested>> /\ requested' = {}
        /\ UNCHANGED <<watched, answer, new, ctl, subscribed, onStream>>
    BY <1>4 DEF TakeRequested
  <2>2. InDraft' = requested /\ InAnswer' = InAnswer
    BY <2>1 DEF InDraft, InAnswer, None
  <2>. QED
    BY <2>1, <2>2 DEF OnItsWay, HandedOutOnce
<1>5. CASE Answer
  <2>1. /\ drawn # None /\ drawn' = None
        /\ UNCHANGED <<watched, requested, new, ctl, subscribed, onStream>>
    BY <1>5 DEF Answer
  <2>2. InDraft = drawn[1] /\ InDraft' = {}
    BY <2>1 DEF InDraft
  <2>3. InAnswer' \subseteq InAnswer \cup InDraft
    <3>1. answer' = answer \/ answer' = <<[syms |-> drawn[1], hist |-> histRequests]>>
      BY <1>5 DEF Answer
    <3>. QED
      BY <2>2, <3>1 DEF InAnswer
  <2>. QED
    BY <2>1, <2>2, <2>3 DEF OnItsWay, HandedOutOnce
<1>6. CASE PollTimesOut
  <2>1. /\ UNCHANGED <<watched, requested, drawn, new, subscribed, onStream>>
        /\ answer' \in {answer, None} /\ ctl = "polling"
    BY <1>6 DEF PollTimesOut
  <2>2. InAnswer' \subseteq InAnswer /\ new = {}
    BY <2>1 DEF InAnswer, OnItsWay
  <2>. QED
    BY <1>1, <2>1, <2>2
<1>7. CASE Receive
  <2>. DEFINE fresh == answer[1].syms \ subscribed
  <2>1. /\ UNCHANGED <<watched, requested, drawn, onStream>>
        /\ answer # None /\ answer' = None /\ ctl = "polling"
    BY <1>7 DEF Receive
  <2>2. InAnswer = answer[1].syms /\ InAnswer' = {} /\ new = {}
    BY <2>1 DEF InAnswer, OnItsWay
  <2>3. \/ new' = fresh /\ UNCHANGED subscribed /\ ctl' = "subscribing"
        \/ new' = new
    BY <1>7 DEF Receive
  <2>4. onStream \subseteq subscribed
    BY DEF Streaming
  <2>5. CASE new' = new
    BY <1>1, <2>1, <2>2, <2>5
  <2>6. CASE new' = fresh /\ UNCHANGED subscribed /\ ctl' = "subscribing"
    <3>1. new' \subseteq InAnswer /\ new' \cap (subscribed \cup onStream) = {}
      BY <2>2, <2>4, <2>6
    <3>2. InDraft' = InDraft
      BY <2>1 DEF InDraft
    <3>. HIDE DEF fresh
    <3>. QED
      BY <2>1, <2>2, <2>6, <3>1, <3>2 DEF OnItsWay, HandedOutOnce
  <2>. QED
    BY <2>3, <2>5, <2>6
<1>8. CASE Subscribe \/ SubscribeFails
  <2>1. UNCHANGED <<watched, requested, drawn, answer>> /\ new' = {}
    BY <1>8 DEF Subscribe, SubscribeFails
  <2>. QED
    BY <1>1, <2>1 DEF InAnswer
<1>9. CASE CatalogArrives \/ CatalogFails \/ Connect \/ Connected \/ ConnectFails
             \/ SubscribeAll \/ Drop \/ StreamFails \/ Rested
  <2>1. /\ UNCHANGED <<watched, requested, drawn, answer, new, ctl>>
        /\ subscribed' \subseteq subscribed
    BY <1>9 DEF CatalogArrives, CatalogFails, Connect, Connected, ConnectFails,
                SubscribeAll, Drop, StreamFails, Rested
  <2>2. onStream' \subseteq onStream \cup prods
    BY <1>9 DEF CatalogArrives, CatalogFails, Connect, Connected, ConnectFails,
                SubscribeAll, Drop, StreamFails, Rested
  <2>3. onStream' \subseteq subscribed
    BY <2>2 DEF Streaming
  <2>4. new' \cap (subscribed' \cup onStream') = {}
    BY <2>1, <2>3 DEF OnItsWay, HandedOutOnce
  <2>. QED
    BY <1>1, <2>1, <2>4 DEF InAnswer, OnItsWay
<1>. QED
  BY <1>2, <1>3, <1>4, <1>5, <1>6, <1>7, <1>8, <1>9 DEF Next

-----------------------------------------------------------------------------
(* The types.                                                              *)

LEMMA SymbolsOf ==
    ASSUME NEW list \in Seq(Symbols)
    PROVE  ToSet(list) \subseteq Symbols
BY DEF ToSet

LEMMA TakesHist ==
    ASSUME NEW list \in Seq(Symbols), TakeHist(list)
    PROVE  hist' \in Seq(Symbols) /\ settled' \subseteq settled \cup Symbols
<1>. DEFINE n == IF Len(list) < MaxBackfill THEN Len(list) ELSE MaxBackfill
            kept == SubSeq(list, 1, n)
<1>1. n \in Nat /\ n <= Len(list)
  BY ControlPlaneAssumption
<1>2. kept \in Seq(Symbols)
  BY <1>1
<1>3. hist' = kept /\ settled' = settled \cup (ToSet(list) \ ToSet(kept))
  BY Zenon DEF TakeHist
<1>. QED
  BY <1>2, <1>3, SymbolsOf

LEMMA AnswerOK ==
    ASSUME TypeOK, answer # None
    PROVE  answer[1].syms \subseteq Symbols /\ answer[1].hist \in Seq(Symbols)
BY DEF TypeOK, QueuesOK

LEMMA DrawnOK ==
    ASSUME TypeOK, drawn # None
    PROVE  drawn[1] \subseteq Symbols
<1>1. PICK S \in SUBSET Symbols : drawn = <<S>>
  BY Zenon DEF TypeOK, QueuesOK, Optional
<1>. QED
  BY <1>1

LEMMA SetsStep == TypeOK /\ [Next]_vars => SetsOK'
<1>. SUFFICES ASSUME TypeOK, [Next]_vars PROVE SetsOK'
  OBVIOUS
<1>. USE DEF terminalSide, terminalVars, feedSide, feedVars, ctlVars, runVars,
             outside, exchangeVars, ghostVars
<1>1. SetsOK
  BY DEF TypeOK
<1>2. CASE \/ \E s \in Symbols : AddSymbol(s) \/ Chart(s)
           \/ UniverseArrives \/ AdoptUniverse \/ TakeRequested \/ UNCHANGED vars
  BY <1>1, <1>2 DEF SetsOK, AddSymbol, Chart, UniverseArrives, AdoptUniverse,
                    TakeRequested, vars
<1>3. CASE Answer
  <2>1. /\ UNCHANGED <<watched, charted, requested, storeUniverse, feedSide,
                       exchangeVars>>
        /\ lost' \subseteq lost \cup drawn[1]
        /\ settled' \subseteq settled \cup ToSet(histRequests)
    BY <1>3 DEF Answer
  <2>2. drawn[1] \subseteq Symbols
    BY <1>3, DrawnOK DEF Answer
  <2>3. ToSet(histRequests) \subseteq Symbols
    BY SymbolsOf DEF TypeOK, QueuesOK
  <2>. QED
    BY <1>1, <2>1, <2>2, <2>3 DEF SetsOK
<1>4. CASE PollTimesOut
  <2>1. UNCHANGED <<terminalVars, feedVars, new, runVars, exchangeVars>>
    BY <1>4 DEF PollTimesOut
  <2>2. lost' \subseteq lost \cup Symbols /\ settled' \subseteq settled \cup Symbols
    <3>1. CASE answer # None
      <4>1. /\ lost' = lost \cup answer[1].syms
            /\ settled' = settled \cup ToSet(answer[1].hist)
        BY <1>4, <3>1 DEF PollTimesOut
      <4>. QED
        BY <3>1, <4>1, AnswerOK, SymbolsOf
    <3>2. CASE answer = None
      BY <1>4, <3>2 DEF PollTimesOut
    <3>. QED
      BY <3>1, <3>2
  <2>. QED
    BY <1>1, <2>1, <2>2 DEF SetsOK
<1>5. CASE Receive
  <2>1. /\ UNCHANGED <<terminalVars, universe, runVars, exchangeVars, lost>>
        /\ subscribed' \subseteq subscribed \cup answer[1].syms
        /\ new' \subseteq new \cup answer[1].syms
        /\ answer # None /\ TakeHist(answer[1].hist)
    BY <1>5 DEF Receive
  <2>2. /\ answer[1].syms \subseteq Symbols
        /\ settled' \subseteq settled \cup Symbols
    BY <2>1, AnswerOK, TakesHist
  <2>. QED
    BY <1>1, <2>1, <2>2 DEF SetsOK
<1>6. CASE Poll \/ Subscribe \/ SubscribeFails
  BY <1>1, <1>6 DEF SetsOK, Poll, Subscribe, SubscribeFails
<1>7. CASE Backfill
  <2>1. /\ UNCHANGED <<terminalVars, feedVars, new, runVars, exchangeVars, lost>>
        /\ settled' = settled \cup {Head(hist)}
    BY <1>7 DEF Backfill
  <2>2. Head(hist) \in Symbols
    <3>1. hist \in Seq(Symbols) /\ hist # <<>>
      BY <1>7, Zenon DEF Backfill, TypeOK, QueuesOK, LoopsOK
    <3>. QED
      BY <3>1
  <2>. QED
    BY <1>1, <2>1, <2>2 DEF SetsOK
<1>8. CASE CatalogArrives \/ CatalogFails \/ Connect \/ Connected \/ ConnectFails
             \/ SubscribeAll \/ Drop \/ StreamFails \/ Rested
  BY <1>1, <1>8 DEF SetsOK, CatalogArrives, CatalogFails, Connect, Connected,
                    ConnectFails, SubscribeAll, Drop, StreamFails, Rested
<1>. QED
  BY <1>2, <1>3, <1>4, <1>5, <1>6, <1>7, <1>8 DEF Next

LEMMA QueuesStep == TypeOK /\ Waiting /\ [Next]_vars => QueuesOK'
<1>. SUFFICES ASSUME TypeOK, Waiting, [Next]_vars PROVE QueuesOK'
  OBVIOUS
<1>. USE DEF terminalSide, terminalVars, serverVars, feedSide, ctlVars
<1>1. QueuesOK /\ SetsOK /\ LoopsOK
  BY DEF TypeOK
<1>2. CASE UNCHANGED <<histRequests, hist, polls, drawn, answer>>
  BY <1>1, <1>2 DEF QueuesOK
<1>3. CASE (\E s \in Symbols : AddSymbol(s)) \/ UniverseArrives \/ AdoptUniverse
             \/ Subscribe \/ SubscribeFails \/ CatalogArrives \/ CatalogFails
             \/ Connect \/ Connected \/ ConnectFails \/ SubscribeAll
             \/ Drop \/ StreamFails \/ Rested \/ UNCHANGED vars
  BY <1>2, <1>3 DEF AddSymbol, UniverseArrives, AdoptUniverse, Subscribe,
                    SubscribeFails, CatalogArrives, CatalogFails, Connect, Connected,
                    ConnectFails, SubscribeAll, Drop, StreamFails, Rested, vars
<1>4. CASE \E s \in Symbols : Chart(s)
  <2>1. PICK s \in Symbols : histRequests' = Append(histRequests, s)
                               /\ UNCHANGED <<hist, polls, drawn, answer>>
    BY <1>4 DEF Chart
  <2>2. histRequests \in Seq(Symbols)
    BY <1>1, Zenon DEF QueuesOK
  <2>3. histRequests' \in Seq(Symbols)
    BY <2>1, <2>2
  <2>. QED
    BY <1>1, <2>1, <2>3, Zenon DEF QueuesOK
<1>5. CASE TakeRequested
  <2>1. drawn' = <<requested>> /\ UNCHANGED <<histRequests, hist, polls, answer>>
    BY <1>5 DEF TakeRequested
  <2>2. requested \in SUBSET Symbols
    BY <1>1 DEF SetsOK
  <2>3. drawn' \in Optional(SUBSET Symbols)
    BY <2>1, <2>2, Zenon DEF Optional
  <2>. QED
    BY <1>1, <2>1, <2>3, Zenon DEF QueuesOK
<1>6. CASE Answer
  <2>1. /\ drawn' = None /\ polls' = Tail(polls) /\ histRequests' = <<>>
        /\ UNCHANGED hist /\ drawn # None
        /\ \/ answer' = answer
           \/ answer' = <<[syms |-> drawn[1], hist |-> histRequests]>>
    BY <1>6 DEF Answer
  <2>2. polls # <<>>
    BY <2>1, Zenon DEF Waiting
  <2>3. answer' = None \/ answer'[1] \in [syms : SUBSET Symbols, hist : Seq(Symbols)]
    <3>1. CASE answer' = answer
      BY <1>1, <3>1, Zenon DEF QueuesOK
    <3>2. CASE answer' = <<[syms |-> drawn[1], hist |-> histRequests]>>
      <4>1. drawn[1] \in SUBSET Symbols /\ histRequests \in Seq(Symbols)
        BY <1>1, <2>1, DrawnOK DEF QueuesOK
      <4>2. answer'[1] = [syms |-> drawn[1], hist |-> histRequests]
        BY <3>2
      <4>. QED
        BY <4>1, <4>2
    <3>. QED
      BY <2>1, <3>1, <3>2
  <2>4. polls' \in Seq(Polls)
    <3>1. polls \in Seq(Polls)
      BY <1>1 DEF QueuesOK, Polls
    <3>. QED
      BY <2>1, <2>2, <3>1
  <2>5. histRequests' \in Seq(Symbols) /\ drawn' \in Optional(SUBSET Symbols)
    BY <2>1 DEF Optional
  <2>. QED
    BY <1>1, <2>1, <2>3, <2>4, <2>5, Zenon DEF QueuesOK, Polls
<1>7. CASE Poll
  <2>1. /\ UNCHANGED <<histRequests, hist, drawn, answer>>
        /\ polls' = Append(polls, "awaited")
    BY <1>7 DEF Poll
  <2>2. polls \in Seq(Polls) /\ "awaited" \in Polls
    BY <1>1, Zenon DEF QueuesOK, Polls
  <2>3. polls' \in Seq(Polls)
    BY <2>1, <2>2
  <2>. QED
    BY <1>1, <2>1, <2>3, Zenon DEF QueuesOK, Polls
<1>8. CASE PollTimesOut
  <2>1. /\ UNCHANGED <<histRequests, hist, drawn>> /\ answer' \in {answer, None}
        /\ ctl = "polling"
    BY <1>8 DEF PollTimesOut
  <2>2. polls' \in Seq(Polls)
    <3>1. polls \in Seq(Polls)
      BY <1>1 DEF QueuesOK, Polls
    <3>2. CASE answer # None
      BY <1>8, <3>1, <3>2, Zenon DEF PollTimesOut
    <3>3. CASE answer = None
      <4>1. polls # <<>> /\ OnlyLast(polls)
        BY <2>1, <3>3, Zenon DEF Waiting
      <4>2. \/ polls' = [polls EXCEPT ![Len(polls)] = "given up"]
            \/ polls' = Front(polls)
        BY <1>8, <3>3, Zenon DEF PollTimesOut
      <4>. QED
        BY <3>1, <4>1, <4>2, LastGivenUp, LastGone, Zenon
    <3>. QED
      BY <3>2, <3>3
  <2>. QED
    BY <1>1, <2>1, <2>2 DEF QueuesOK, Polls
<1>9. CASE Receive
  <2>1. /\ UNCHANGED <<histRequests, polls, drawn>> /\ answer' = None
        /\ answer # None /\ TakeHist(answer[1].hist)
    BY <1>9 DEF Receive
  <2>2. hist' \in Seq(Symbols)
    BY <2>1, AnswerOK, TakesHist
  <2>. QED
    BY <1>1, <2>1, <2>2 DEF QueuesOK
<1>10. CASE Backfill
  <2>1. UNCHANGED <<histRequests, polls, drawn, answer>> /\ hist' = Tail(hist)
        /\ hist # <<>>
    BY <1>1, <1>10 DEF Backfill, LoopsOK
  <2>2. hist \in Seq(Symbols)
    BY <1>1, Zenon DEF QueuesOK
  <2>3. hist' \in Seq(Symbols)
    BY <2>1, <2>2
  <2>. QED
    BY <1>1, <2>1, <2>3, Zenon DEF QueuesOK
<1>. QED
  BY <1>3, <1>4, <1>5, <1>6, <1>7, <1>8, <1>9, <1>10 DEF Next

LEMMA LoopsStep == TypeOK /\ [Next]_vars => LoopsOK'
<1>. SUFFICES ASSUME TypeOK, [Next]_vars PROVE LoopsOK'
  OBVIOUS
<1>. USE DEF terminalSide, feedSide, ctlVars, runVars, outside, exchangeVars, boundVars
<1>1. LoopsOK
  BY DEF TypeOK
<1>2. /\ MaxTimeouts \in Nat /\ MaxDrops \in Nat
      /\ timeouts < MaxTimeouts => timeouts + 1 \in 0 .. MaxTimeouts
      /\ drops < MaxDrops => drops + 1 \in 0 .. MaxDrops
  BY <1>1, ControlPlaneAssumption DEF LoopsOK
<1>3. CASE (\E s \in Symbols : AddSymbol(s) \/ Chart(s))
             \/ UniverseArrives \/ AdoptUniverse \/ TakeRequested \/ Answer
             \/ UNCHANGED vars
  <2>1. UNCHANGED <<feedSide, exchangeVars, boundVars>>
    BY <1>3 DEF AddSymbol, Chart, UniverseArrives, AdoptUniverse, TakeRequested,
                Answer, vars
  <2>. QED
    BY <1>1, <2>1 DEF LoopsOK
<1>4. CASE Poll \/ Subscribe \/ SubscribeFails \/ Backfill \/ Receive
  <2>1. /\ UNCHANGED <<runVars, conns, alive, boundVars>> /\ via' \in {via, ws, 0}
    BY <1>4 DEF Poll, Subscribe, SubscribeFails, Backfill, Receive
  <2>2. /\ ctl' \in {"asleep", "polling", "subscribing", "backfilling"}
        /\ ctl' = "backfilling" => hist' # <<>>
    BY <1>4 DEF Poll, Subscribe, SubscribeFails, Backfill, Receive, Proceed
  <2>. QED
    BY <1>1, <2>1, <2>2 DEF LoopsOK
<1>5. CASE PollTimesOut
  <2>1. /\ UNCHANGED <<via, runVars, conns, alive, drops>> /\ ctl' = "asleep"
        /\ timeouts < MaxTimeouts /\ timeouts' = timeouts + 1
    BY <1>5 DEF PollTimesOut
  <2>. QED
    BY <1>1, <1>2, <2>1 DEF LoopsOK
<1>6. CASE CatalogArrives \/ CatalogFails \/ Connect \/ SubscribeAll \/ StreamFails
             \/ Rested
  <2>1. /\ UNCHANGED <<ctl, hist, via, conns, alive, boundVars>>
        /\ \/ UNCHANGED ws /\ run = "catalog" /\ run' = "top"
           \/ UNCHANGED ws /\ run = "top" /\ run' = "connecting"
           \/ UNCHANGED ws /\ run = "subscribing" /\ run' = "streaming"
           \/ UNCHANGED ws /\ run' = "resting"
           \/ ws' = 0 /\ run' = "top"
    BY <1>6 DEF CatalogArrives, CatalogFails, Connect, SubscribeAll, StreamFails,
                Rested
  <2>. QED
    BY <1>1, <2>1 DEF LoopsOK
<1>7. CASE Connected
  <2>1. /\ UNCHANGED <<ctl, hist, via, boundVars>> /\ run' = "subscribing"
        /\ conns' = conns + 1 /\ ws' = conns' /\ alive' = TRUE
    BY <1>7 DEF Connected
  <2>. QED
    BY <1>1, <2>1 DEF LoopsOK
<1>8. CASE ConnectFails
  <2>1. /\ UNCHANGED <<ctl, hist, via, ws, conns, alive, timeouts>>
        /\ run' = "resting" /\ drops < MaxDrops /\ drops' = drops + 1
    BY <1>8 DEF ConnectFails
  <2>. QED
    BY <1>1, <1>2, <2>1 DEF LoopsOK
<1>9. CASE Drop
  <2>1. /\ UNCHANGED <<ctl, hist, via, ws, run, conns, timeouts>>
        /\ alive' = FALSE /\ drops < MaxDrops /\ drops' = drops + 1
    BY <1>9 DEF Drop
  <2>. QED
    BY <1>1, <1>2, <2>1 DEF LoopsOK
<1>. QED
  BY <1>3, <1>4, <1>5, <1>6, <1>7, <1>8, <1>9 DEF Next

-----------------------------------------------------------------------------
(* Theorems.                                                               *)

LEMMA ControlInvAlways == Spec => []ControlInv
<1>1. ControlInv /\ [Next]_vars => ControlInv'
  BY WaitingStep, StreamingStep, OnItsWayStep, SetsStep, QueuesStep, LoopsStep
  DEF ControlInv, TypeOK
<1>. QED
  BY <1>1, ControlInit, PTL DEF Spec

\* Every variable keeps its type, however many answers are late and however often
\* Coinbase drops: in particular a backfill is only begun with a product to
\* fetch, and _ws refers to the connection being streamed (base.py, coinbase.py).
THEOREM ControlPlaneTypeCorrect == Spec => []TypeOK
<1>1. ControlInv => TypeOK
  BY DEF ControlInv
<1>. QED
  BY <1>1, ControlInvAlways, PTL

\* The answer a poll is given is its own: one the feed has given up waiting for
\* is never read as the next one's (publisher.py's query_requested closes the
\* socket, and with it the late answer).
THEOREM PollsAnsweredInTurn == Spec => []OnePollAtATime
<1>1. Waiting => OnePollAtATime
  BY Zenon DEF Waiting, OnePollAtATime, OnlyLast, NoneAwaited, Blocked
<1>2. ControlInv => OnePollAtATime
  BY <1>1 DEF ControlInv
<1>. QED
  BY <1>2, ControlInvAlways, PTL

\* A request is handed on, never copied: it is in one place between the store,
\* the answer being made, the answer under way and the subscribe, and what is
\* being subscribed is not subscribed already.
THEOREM NothingHandedOutTwice == Spec => []HandedOutOnce
<1>1. ControlInv => HandedOutOnce
  BY DEF ControlInv, OnItsWay
<1>. QED
  BY <1>1, ControlInvAlways, PTL

\* Whatever the terminal is told is streamed is in the set that the next
\* connection subscribes.
THEOREM AnnouncedStaysSubscribed == Spec => []AnnouncedIsSubscribed
<1>1. ControlInv => AnnouncedIsSubscribed
  BY DEF ControlInv, Streaming
<1>. QED
  BY <1>1, ControlInvAlways, PTL
=============================================================================
