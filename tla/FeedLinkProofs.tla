--------------------------- MODULE FeedLinkProofs ---------------------------
(***************************************************************************)
(* The connections of the feed link, for any symbols, buffers and backlog, *)
(* and any number of stops, timeouts and messages: the feed leaves none    *)
(* open that it does not use, however its calls are cut off.               *)
(*                                                                         *)
(* What the lines say does not matter for that, so nothing is said of      *)
(* them: a connection is a record with the three fields.  The second part  *)
(* proves the values the whole state ranges over, the bound of the buffers *)
(* among them.                                                             *)
(***************************************************************************)
EXTENDS FeedLink, SumLemmas

Fields == {"lines", "eof", "reply"}

Connections(c) == \A i \in 1 .. Len(c) : DOMAIN c[i] = Fields

OldOnesClosed(c) == \A i \in 1 .. Len(c) : i # Len(c) => c[i].eof

NewestOpen(c) == c # <<>> /\ ~c[Len(c)].eof

\* The server serves the oldest connection, so there is one.
LinkInv ==
    /\ \E S : conns \in Seq(S)
    /\ Connections(conns)
    /\ OldOnesClosed(conns)
    /\ link = "up" <=> NewestOpen(conns)
    /\ serving => conns # <<>>

LEMMA LinkInvSays == LinkInv => OnlyLiveConnectionOpen
<1>. SUFFICES ASSUME LinkInv PROVE OnlyLiveConnectionOpen
  OBVIOUS
<1>1. PICK S : conns \in Seq(S)
  BY DEF LinkInv
<1>2. DOMAIN conns = 1 .. Len(conns) /\ Last(conns) = conns[Len(conns)]
  BY <1>1 DEF Last
<1>. QED
  BY <1>2, Zenon DEF LinkInv, OldOnesClosed, NewestOpen, OnlyLiveConnectionOpen

-----------------------------------------------------------------------------
(* What the operations do to a list of connections.                        *)

LEMMA Attached ==
    ASSUME NEW S, NEW c \in Seq(S), Connections(c), OldOnesClosed(c), ~NewestOpen(c),
           NEW r, DOMAIN r = Fields, ~r.eof
    PROVE  LET d == Append(c, r) IN
           /\ d \in Seq(S \cup {r}) /\ Connections(d)
           /\ OldOnesClosed(d) /\ NewestOpen(d)
<1>. DEFINE d == Append(c, r)
            n == Len(c)
<1>1. /\ n \in Nat /\ Len(d) = n + 1 /\ d[n + 1] = r
      /\ \A i \in 1 .. n : d[i] = c[i]
      /\ d \in Seq(S \cup {r}) /\ d # <<>>
  OBVIOUS
<1>2. \A i \in 1 .. n : c[i].eof
  <2>1. c = <<>> => n = 0
    OBVIOUS
  <2>. QED
    BY <1>1, <2>1 DEF OldOnesClosed, NewestOpen
<1>3. \A i \in 1 .. n : DOMAIN c[i] = Fields
  BY DEF Connections
<1>. HIDE DEF d, n
<1>4. Connections(d)
  BY <1>1, <1>3 DEF Connections
<1>5. OldOnesClosed(d)
  BY <1>1, <1>2 DEF OldOnesClosed
<1>6. NewestOpen(d)
  BY <1>1 DEF NewestOpen
<1>. QED
  BY <1>1, <1>4, <1>5, <1>6 DEF d

LEMMA Updated ==
    ASSUME NEW S, NEW c \in Seq(S), Connections(c), OldOnesClosed(c),
           NEW k \in 1 .. Len(c), NEW r, DOMAIN r = Fields,
           r.eof <=> c[k].eof
    PROVE  LET d == [c EXCEPT ![k] = r] IN
           /\ d \in Seq(S \cup {r}) /\ Connections(d) /\ d # <<>>
           /\ OldOnesClosed(d) /\ (NewestOpen(d) <=> NewestOpen(c))
<1>. DEFINE d == [c EXCEPT ![k] = r]
            n == Len(c)
<1>1. n \in Nat /\ k \in 1 .. n /\ DOMAIN c = 1 .. n /\ \A i \in 1 .. n : c[i] \in S
  OBVIOUS
<1>2. c # <<>>
  BY <1>1
<1>3. \A i \in 1 .. n : d[i] = IF i = k THEN r ELSE c[i]
  BY <1>1
<1>4. d \in Seq(S \cup {r}) /\ Len(d) = n
  <2>1. d \in [1 .. n -> S \cup {r}]
    BY <1>1
  <2>. QED
    BY <1>1, <2>1
<1>5. \A i \in 1 .. n : DOMAIN c[i] = Fields
  BY DEF Connections
<1>6. \A i \in 1 .. n : i # n => c[i].eof
  BY DEF OldOnesClosed
<1>. HIDE DEF d, n
<1>7. Connections(d)
  BY <1>3, <1>4, <1>5 DEF Connections
<1>8. OldOnesClosed(d)
  BY <1>3, <1>4, <1>6 DEF OldOnesClosed
<1>9. d # <<>>
  BY <1>1, <1>4
<1>10. NewestOpen(d) <=> NewestOpen(c)
  BY <1>1, <1>2, <1>3, <1>4, <1>9 DEF NewestOpen, n
<1>. QED
  BY <1>4, <1>7, <1>8, <1>9, <1>10 DEF d

LEMMA NewestClosed ==
    ASSUME NEW S, NEW c \in Seq(S), Connections(c), OldOnesClosed(c), c # <<>>,
           NEW r, DOMAIN r = Fields, r.eof
    PROVE  LET d == [c EXCEPT ![Len(c)] = r] IN
           /\ d \in Seq(S \cup {r}) /\ Connections(d) /\ d # <<>>
           /\ OldOnesClosed(d) /\ ~NewestOpen(d)
<1>. DEFINE d == [c EXCEPT ![Len(c)] = r]
            n == Len(c)
<1>1. n \in Nat \ {0} /\ DOMAIN c = 1 .. n /\ \A i \in 1 .. n : c[i] \in S
  OBVIOUS
<1>2. \A i \in 1 .. n : d[i] = IF i = n THEN r ELSE c[i]
  BY <1>1
<1>3. d \in Seq(S \cup {r}) /\ Len(d) = n
  <2>1. d \in [1 .. n -> S \cup {r}]
    BY <1>1
  <2>. QED
    BY <1>1, <2>1
<1>4. \A i \in 1 .. n : DOMAIN c[i] = Fields
  BY DEF Connections
<1>5. \A i \in 1 .. n : i # n => c[i].eof
  BY DEF OldOnesClosed
<1>. HIDE DEF d, n
<1>6. Connections(d)
  BY <1>2, <1>3, <1>4 DEF Connections
<1>7. OldOnesClosed(d)
  BY <1>2, <1>3, <1>5 DEF OldOnesClosed
<1>8. d # <<>> /\ ~NewestOpen(d)
  BY <1>1, <1>2, <1>3 DEF NewestOpen
<1>. QED
  BY <1>3, <1>6, <1>7, <1>8 DEF d

LEMMA OldestDropped ==
    ASSUME NEW S, NEW c \in Seq(S), Connections(c), OldOnesClosed(c), c # <<>>,
           c[1].eof
    PROVE  LET d == Tail(c) IN
           /\ d \in Seq(S) /\ Connections(d)
           /\ OldOnesClosed(d) /\ (NewestOpen(d) <=> NewestOpen(c))
<1>. DEFINE d == Tail(c)
            n == Len(c)
<1>1. /\ n \in Nat \ {0} /\ Len(d) = n - 1 /\ d \in Seq(S)
      /\ \A i \in 1 .. n - 1 : d[i] = c[i + 1]
  OBVIOUS
<1>2. \A i \in 1 .. n : DOMAIN c[i] = Fields
  BY DEF Connections
<1>3. \A i \in 1 .. n : i # n => c[i].eof
  BY DEF OldOnesClosed
<1>. HIDE DEF d, n
<1>4. Connections(d)
  BY <1>1, <1>2 DEF Connections
<1>5. OldOnesClosed(d)
  BY <1>1, <1>3 DEF OldOnesClosed
<1>6. CASE n = 1
  <2>1. d = <<>>
    BY <1>1, <1>6
  <2>. QED
    BY <1>1, <1>4, <1>5, <1>6, <2>1 DEF NewestOpen, d, n
<1>7. CASE n # 1
  <2>1. d # <<>> /\ d[Len(d)] = c[n]
    BY <1>1, <1>7
  <2>. QED
    BY <1>1, <1>4, <1>5, <2>1 DEF NewestOpen, d, n
<1>. QED
  BY <1>6, <1>7

-----------------------------------------------------------------------------
(* The steps.                                                              *)

LEMMA LinkInit == Init => LinkInv
<1>. SUFFICES ASSUME Init PROVE LinkInv
  OBVIOUS
<1>1. conns = <<>> /\ link = "none" /\ serving = FALSE
  BY DEF Init
<1>2. conns \in Seq({})
  BY <1>1
<1>. QED
  BY <1>1, <1>2 DEF LinkInv, Connections, OldOnesClosed, NewestOpen

\* The feed holds a socket with an open connection, or none.
LEMMA SocketKept ==
    ASSUME LinkInv, UNCHANGED <<conns, serving>>, link' = "up" <=> link = "up"
    PROVE  LinkInv'
BY Zenon DEF LinkInv

\* A connection is read, written or answered.
LEMMA ConnectionUsed ==
    ASSUME LinkInv, NEW k \in 1 .. Len(conns), NEW r,
           DOMAIN r = Fields, r.eof <=> conns[k].eof,
           conns' = [conns EXCEPT ![k] = r], link' = link
    PROVE  LinkInv'
<1>1. PICK S : conns \in Seq(S)
  BY DEF LinkInv
<1>2. Connections(conns) /\ OldOnesClosed(conns)
  BY DEF LinkInv
<1>3. /\ conns' \in Seq(S \cup {r}) /\ Connections(conns') /\ conns' # <<>>
      /\ OldOnesClosed(conns') /\ (NewestOpen(conns') <=> NewestOpen(conns))
  BY <1>1, <1>2, Updated
<1>. QED
  BY <1>3, Zenon DEF LinkInv

LEMMA SendStep ==
    ASSUME LinkInv, NEW msg, NEW rows, NEW u, NEW cont, Send(msg, rows, u, cont),
           UNCHANGED serving
    PROVE  LinkInv'
<1>1. CASE UNCHANGED <<link, conns>>
  BY <1>1, SocketKept
<1>2. CASE ~UNCHANGED <<link, conns>>
  <2>. DEFINE r == [lines |-> <<>>, eof |-> FALSE, reply |-> FALSE]
  <2>1. link = "none" /\ link' = "up" /\ conns' = Append(conns, r)
    BY <1>2 DEF Send, socketVars
  <2>2. PICK S : conns \in Seq(S)
    BY DEF LinkInv
  <2>3. DOMAIN r = Fields /\ ~r.eof
    BY DEF Fields
  <2>4. Connections(conns) /\ OldOnesClosed(conns) /\ ~NewestOpen(conns)
    BY <2>1 DEF LinkInv
  <2>. HIDE DEF r
  <2>5. /\ conns' \in Seq(S \cup {r}) /\ Connections(conns')
        /\ OldOnesClosed(conns') /\ NewestOpen(conns')
    BY <2>1, <2>2, <2>3, <2>4, Attached
  <2>. QED
    BY <2>1, <2>5, Zenon DEF LinkInv, NewestOpen
<1>. QED
  BY <1>1, <1>2

LEMMA LinkStep == LinkInv /\ [Next]_vars => LinkInv'
<1>. SUFFICES ASSUME LinkInv, [Next]_vars PROVE LinkInv'
  OBVIOUS
<1>. USE DEF terminalSide, serverVars, socketVars
<1>1. PICK S : conns \in Seq(S)
  BY DEF LinkInv
<1>2. /\ Len(conns) \in Nat /\ (conns # <<>> => Len(conns) # 0)
      /\ \A i \in 1 .. Len(conns) : DOMAIN conns[i] = Fields
  BY <1>1 DEF LinkInv, Connections
<1>3. CASE (\E s \in Symbols : EmitQuote(s)) \/ EmitTrade \/ EmitLastMatch \/ FlushTimer \/ RetryDue
             \/ WriteLost \/ WriteFails \/ ReplyFails \/ StartTerminal
             \/ UNCHANGED vars
  <2>1. UNCHANGED <<conns, serving>> /\ (link' = "up" <=> link = "up")
    BY <1>3 DEF EmitQuote, EmitTrade, EmitLastMatch, FlushTimer, RetryDue, WriteLost, WriteFails,
                ReplyFails, StartTerminal, vars
  <2>. QED
    BY <2>1, SocketKept
<1>4. CASE SetUniverse \/ PublishHistory \/ Poll
  <2>1. UNCHANGED serving
    BY <1>4 DEF SetUniverse, PublishHistory, Poll
  <2>2. \E msg, u, cont : Send(msg, lastQuotes, u, cont)
    BY <1>4, Zenon DEF SetUniverse, PublishHistory, Poll
  <2>. QED
    BY <2>1, <2>2, SendStep
<1>5. CASE FlushTrades
  <2>1. UNCHANGED serving
    BY <1>5 DEF FlushTrades
  <2>2. \/ UNCHANGED <<link, conns>>
        \/ Send(TradesMsg(trades), lastQuotes, lastUniverse, "quotes")
    BY <1>5 DEF FlushTrades
  <2>. QED
    BY <2>1, <2>2, SendStep, SocketKept
<1>6. CASE FlushQuotes
  <2>1. UNCHANGED serving
    BY <1>6 DEF FlushQuotes
  <2>2. \/ UNCHANGED <<link, conns>>
        \/ Send(QuotesMsg(RowsOf(quotes)), lastQuotes', lastUniverse, "idle")
    BY <1>6 DEF FlushQuotes
  <2>. QED
    BY <2>1, <2>2, SendStep, SocketKept
<1>7. CASE WriteDelivered
  <2>. DEFINE k == Len(conns)
              r == [conns[k] EXCEPT !.lines = Append(@, Head(todo))]
  <2>1. link = "up" /\ conns' = [conns EXCEPT ![k] = r] /\ UNCHANGED <<link, serving>>
    BY <1>7 DEF WriteDelivered
  <2>2. k \in 1 .. Len(conns)
    BY <1>2, <2>1 DEF LinkInv, NewestOpen
  <2>3. DOMAIN r = Fields /\ (r.eof <=> conns[k].eof)
    BY <1>2, <2>2 DEF Fields
  <2>. HIDE DEF r, k
  <2>. QED
    BY <2>1, <2>2, <2>3, ConnectionUsed
<1>8. CASE ReadReply
  <2>. DEFINE k == Len(conns)
              r == [conns[k] EXCEPT !.reply = FALSE]
  <2>1. CASE link = "up" /\ conns' = [conns EXCEPT ![k] = r]
    <3>1. k \in 1 .. Len(conns)
      BY <1>2, <2>1 DEF LinkInv, NewestOpen
    <3>2. DOMAIN r = Fields /\ (r.eof <=> conns[k].eof)
      BY <1>2, <3>1 DEF Fields
    <3>3. UNCHANGED <<link, serving>>
      BY <1>8 DEF ReadReply
    <3>. HIDE DEF r, k
    <3>. QED
      BY <2>1, <3>1, <3>2, <3>3, ConnectionUsed
  <2>2. CASE UNCHANGED conns
    <3>1. UNCHANGED <<link, serving>>
      BY <1>8 DEF ReadReply
    <3>. QED
      BY <2>2, <3>1, SocketKept
  <2>. QED
    BY <1>8, <2>1, <2>2 DEF ReadReply
<1>9. CASE ReplyTimesOut
  <2>1. /\ link = "up" /\ link' = "none" /\ UNCHANGED serving
        /\ \E kept \in 0 .. Len(Last(conns).lines) :
              conns' = [conns EXCEPT ![Len(conns)].lines = SubSeq(@, 1, kept),
                                     ![Len(conns)].eof = TRUE]
    BY <1>9 DEF ReplyTimesOut
  <2>2. PICK kept : conns' = [conns EXCEPT ![Len(conns)].lines = SubSeq(@, 1, kept),
                                           ![Len(conns)].eof = TRUE]
    BY <2>1
  <2>. DEFINE k == Len(conns)
              r == [conns[k] EXCEPT !.lines = SubSeq(@, 1, kept), !.eof = TRUE]
  <2>3. conns # <<>> /\ k \in 1 .. Len(conns)
    BY <1>2, <2>1 DEF LinkInv, NewestOpen
  <2>4. conns' = [conns EXCEPT ![k] = r] /\ DOMAIN r = Fields /\ r.eof
    <3>1. conns' = [conns EXCEPT ![k] = r]
      BY <2>2
    <3>2. DOMAIN conns[k] = Fields
      BY <1>2, <2>3
    <3>. QED
      BY <3>1, <3>2 DEF Fields
  <2>. HIDE DEF r
  <2>5. /\ conns' \in Seq(S \cup {r}) /\ Connections(conns') /\ conns' # <<>>
        /\ OldOnesClosed(conns') /\ ~NewestOpen(conns')
    BY <1>1, <2>3, <2>4, NewestClosed DEF LinkInv
  <2>6. link' # "up"
    BY <2>1
  <2>. QED
    BY <2>5, <2>6, Zenon DEF LinkInv
<1>10. CASE StopTerminal
  <2>1. conns' = <<>> /\ link' # "up" /\ serving' = FALSE
    BY <1>10 DEF StopTerminal
  <2>2. conns' \in Seq({})
    BY <2>1
  <2>. QED
    BY <2>1, <2>2 DEF LinkInv, Connections, OldOnesClosed, NewestOpen
<1>11. CASE Accept
  <2>1. UNCHANGED <<link, conns>> /\ conns # <<>>
    BY <1>11 DEF Accept
  <2>. QED
    BY <2>1, Zenon DEF LinkInv
<1>12. CASE HandleLine
  <2>. DEFINE line == Head(Head(conns).lines)
              r == [conns[1] EXCEPT !.lines = Tail(@), !.reply = @ \/ line.m = "poll"]
  <2>1. conns' = [conns EXCEPT ![1] = r] /\ UNCHANGED <<link, serving>> /\ serving
    <3>1. conns' = [conns EXCEPT ![1] = r]
      BY <1>2, <1>12 DEF HandleLine, LinkInv
    <3>. QED
      BY <1>12, <3>1 DEF HandleLine
  <2>2. 1 \in 1 .. Len(conns)
    BY <1>2, <2>1 DEF LinkInv
  <2>3. DOMAIN r = Fields /\ (r.eof <=> conns[1].eof)
    BY <1>2, <2>2 DEF Fields
  <2>. HIDE DEF r
  <2>. QED
    BY <2>1, <2>2, <2>3, ConnectionUsed
<1>13. CASE PeerClosed
  <2>1. /\ serving /\ Head(conns).eof /\ conns' = Tail(conns)
        /\ serving' = FALSE /\ link' = link
    BY <1>13 DEF PeerClosed
  <2>2. conns # <<>> /\ conns[1].eof
    BY <1>1, <2>1 DEF LinkInv
  <2>3. /\ conns' \in Seq(S) /\ Connections(conns')
        /\ OldOnesClosed(conns') /\ (NewestOpen(conns') <=> NewestOpen(conns))
    BY <1>1, <2>1, <2>2, OldestDropped DEF LinkInv
  <2>. QED
    BY <2>1, <2>3, Zenon DEF LinkInv
<1>. QED
  BY <1>3, <1>4, <1>5, <1>6, <1>7, <1>8, <1>9, <1>10, <1>11, <1>12, <1>13 DEF Next

\* However calls are cut off by stops, resets and timeouts, the feed leaves no
\* connection open but the one it uses, so the server, which serves one client
\* until it closes, always gets to the newest (publisher.py:106-113, 189-217).
THEOREM NoConnectionLeaks == Spec => []OnlyLiveConnectionOpen
BY LinkInit, LinkStep, LinkInvSays, PTL DEF Spec

-----------------------------------------------------------------------------
(* The operators on buffers and series.                                    *)

LEMMA LastIndex ==
    ASSUME NEW n \in Nat, NEW S \in SUBSET (1 .. n), S # {}
    PROVE  Max(S) \in S /\ \A i \in S : i <= Max(S)
<1>. DEFINE T == {n - i : i \in S}
<1>1. T \in SUBSET Nat /\ T # {}
  <2>1. \A i \in S : n - i \in Nat
    OBVIOUS
  <2>2. PICK i \in S : TRUE
    OBVIOUS
  <2>3. n - i \in T
    OBVIOUS
  <2>. QED
    BY <2>1, <2>3, Zenon
<1>2. PICK k \in T : \A y \in T : k <= y
  <2>. HIDE DEF T
  <2>. QED
    BY <1>1, LeastNumber
<1>3. PICK i \in S : k = n - i
  OBVIOUS
<1>4. ASSUME NEW j \in S PROVE i >= j
  <2>1. k <= n - j
    BY <1>2
  <2>. QED
    BY <1>3, <2>1
<1>5. Max(S) \in S /\ \A j \in S : Max(S) >= j
  BY <1>3, <1>4 DEF Max
<1>. QED
  BY <1>5

\* A queue of lines without its first.
LEMMA OneLess ==
    ASSUME NEW D, NEW q \in Seq(D), q # <<>>
    PROVE  /\ Head(q) \in D /\ Head(q) = q[1]
           /\ Tail(q) \in Seq(D) /\ Len(q) \in Nat \ {0}
           /\ Len(Tail(q)) = Len(q) - 1 /\ (Tail(q) = <<>> <=> Len(q) = 1)
           /\ \A i \in 1 .. Len(q) - 1 : Tail(q)[i] = q[i + 1]
<1>1. Len(q) \in Nat \ {0} /\ Tail(q) \in Seq(D) /\ Len(Tail(q)) = Len(q) - 1
  OBVIOUS
<1>2. Head(q) \in D /\ Head(q) = q[1]
  OBVIOUS
<1>3. \A i \in 1 .. Len(q) - 1 : Tail(q)[i] = q[i + 1]
  OBVIOUS
<1>4. Tail(q) = <<>> <=> Len(q) = 1
  <2>. DEFINE r == Tail(q)
  <2>1. r \in Seq(D) /\ Len(r) = Len(q) - 1
    BY <1>1
  <2>. HIDE DEF r
  <2>2. r = <<>> <=> Len(r) = 0
    BY <2>1
  <2>. QED
    BY <1>1, <2>1, <2>2 DEF r
<1>. QED
  BY <1>1, <1>2, <1>3, <1>4

\* A function on 1 .. n is a series, and series with the same elements are equal.
LEMMA SeriesOf ==
    ASSUME NEW D, NEW n \in Nat, NEW f \in [1 .. n -> D]
    PROVE  f \in Seq(D) /\ Len(f) = n
OBVIOUS

LEMMA SameSeries ==
    ASSUME NEW D, NEW a \in Seq(D), NEW b \in Seq(D), Len(a) = Len(b),
           \A i \in 1 .. Len(b) : a[i] = b[i]
    PROVE  a = b
OBVIOUS

\* Two series one after the other.
LEMMA Joined ==
    ASSUME NEW D, NEW a \in Seq(D), NEW b \in Seq(D)
    PROVE  /\ a \o b \in Seq(D) /\ Len(a \o b) = Len(a) + Len(b)
           /\ \A i \in 1 .. Len(a) : (a \o b)[i] = a[i]
           /\ \A i \in 1 .. Len(b) : (a \o b)[Len(a) + i] = b[i]
           /\ \A i \in 1 .. Len(a \o b) :
                 i \in 1 .. Len(a) \/ (i - Len(a) \in 1 .. Len(b) /\ i = Len(a) + (i - Len(a)))
OBVIOUS

LEMMA RowsOfType ==
    ASSUME NEW buffer \in Seq([symbol : Symbols, tick : 1 .. MaxTicks]), MaxTicks \in Nat
    PROVE  RowsOf(buffer) \in Rows
<1>. SUFFICES ASSUME NEW s \in Symbols PROVE RowsOf(buffer)[s] \in 0 .. MaxTicks
  BY DEF RowsOf, Rows
<1>. DEFINE mine == {i \in DOMAIN buffer : buffer[i].symbol = s}
<1>1. RowsOf(buffer)[s] = IF mine = {} THEN 0 ELSE buffer[Max(mine)].tick
  BY DEF RowsOf
<1>2. ASSUME mine # {} PROVE buffer[Max(mine)].tick \in 1 .. MaxTicks
  <2>1. Len(buffer) \in Nat /\ mine \in SUBSET (1 .. Len(buffer))
    OBVIOUS
  <2>2. Max(mine) \in mine
    <3>. HIDE DEF mine
    <3>. QED
      BY <1>2, <2>1, LastIndex
  <2>3. Max(mine) \in DOMAIN buffer
    BY <2>2
  <2>4. ASSUME NEW k \in DOMAIN buffer PROVE buffer[k].tick \in 1 .. MaxTicks
    <3>. DEFINE D == [symbol : Symbols, tick : 1 .. MaxTicks]
    <3>1. buffer \in Seq(D) /\ k \in DOMAIN buffer
      BY <2>4
    <3>2. buffer[k] \in D
      <4>. HIDE DEF D, mine
      <4>. QED
        BY <3>1
    <3>. HIDE DEF mine
    <3>. QED
      BY <3>2
  <2>. HIDE DEF mine
  <2>. QED
    BY <2>3, <2>4, Zenon
<1>. QED
  BY <1>1, <1>2

LEMMA OverlayType ==
    ASSUME NEW known \in Rows, NEW rows \in Rows
    PROVE  Overlay(known, rows) \in Rows
BY DEF Overlay, Rows

\* The loop of a backfill keeps points of the series in their order, and all
\* that are wanted.
Taken(list, x, S) == IF x \in S THEN Append(list, x) ELSE list

KeptUpTo(h, series, S, n) ==
    h = [k \in 0 .. n |-> IF k = 0 THEN <<>> ELSE Taken(h[k - 1], series[k], S)]

LEMMA KeptExists ==
    ASSUME NEW series, NEW S, NEW n \in Nat
    PROVE  \E h : KeptUpTo(h, series, S, n)
<1>. DEFINE T == {m \in Nat : \E h : KeptUpTo(h, series, S, m)}
<1>1. 0 \in T
  <2>. DEFINE h == [k \in 0 .. 0 |-> <<>>]
  <2>1. KeptUpTo(h, series, S, 0)
    BY DEF KeptUpTo
  <2>. QED
    BY <2>1
<1>2. ASSUME NEW m \in Nat, m \in T PROVE m + 1 \in T
  <2>1. PICK h : KeptUpTo(h, series, S, m)
    BY <1>2
  <2>. DEFINE g == [k \in 0 .. m + 1 |->
                       IF k = 0 THEN <<>> ELSE Taken(h[k - 1], series[k], S)]
  <2>2. \A k \in 0 .. m : g[k] = h[k]
    BY <2>1 DEF KeptUpTo
  <2>3. \A k \in 0 .. m + 1 : k # 0 => k - 1 \in 0 .. m
    OBVIOUS
  <2>4. g = [k \in 0 .. m + 1 |->
                IF k = 0 THEN <<>> ELSE Taken(g[k - 1], series[k], S)]
    <3>1. g = [k \in 0 .. m + 1 |->
                  IF k = 0 THEN <<>> ELSE Taken(h[k - 1], series[k], S)]
      OBVIOUS
    <3>. HIDE DEF g
    <3>2. \A k \in 0 .. m + 1 : k # 0 => h[k - 1] = g[k - 1]
      BY <2>2, <2>3, Zenon
    <3>. QED
      BY <3>1, <3>2
  <2>. HIDE DEF g
  <2>5. \E h1 : KeptUpTo(h1, series, S, m + 1)
    BY <2>4 DEF KeptUpTo
  <2>. QED
    BY <2>5
<1>. HIDE DEF T
<1>3. n \in T
  BY <1>1, <1>2, AllNumbers
<1>. QED
  BY <1>3 DEF T

Increasing(f) == \A i, j \in DOMAIN f : i < j => f[i] < f[j]

\* A series is a selection of another: its points, in their order, in S.
Selection(sel, series, n, S) ==
    \E f \in [DOMAIN sel -> 1 .. n] :
        /\ Increasing(f)
        /\ \A i \in DOMAIN sel : sel[i] = series[f[i]] /\ sel[i] \in S

LEMMA SelectionGrows ==
    ASSUME NEW D, NEW sel \in Seq(D), NEW series, NEW n \in Nat, NEW S,
           Selection(sel, series, n, S), series[n + 1] \in S \cap D
    PROVE  Append(sel, series[n + 1]) \in Seq(D)
           /\ Selection(Append(sel, series[n + 1]), series, n + 1, S)
<1>. DEFINE x == series[n + 1]
            l == Len(sel)
            r == Append(sel, x)
<1>1. /\ l \in Nat /\ DOMAIN sel = 1 .. l /\ DOMAIN r = 1 .. l + 1
      /\ r \in Seq(D) /\ r[l + 1] = x /\ \A i \in 1 .. l : r[i] = sel[i]
  OBVIOUS
<1>2. PICK f \in [1 .. l -> 1 .. n] :
               /\ Increasing(f)
               /\ \A i \in 1 .. l : sel[i] = series[f[i]] /\ sel[i] \in S
  BY <1>1 DEF Selection
<1>. DEFINE g == [i \in 1 .. l + 1 |-> IF i = l + 1 THEN n + 1 ELSE f[i]]
<1>3. g \in [1 .. l + 1 -> 1 .. n + 1]
  BY <1>1
<1>4. Increasing(g)
  BY <1>1, <1>2 DEF Increasing
<1>5. x \in S
  OBVIOUS
<1>. HIDE DEF l, r
<1>6. ASSUME NEW i \in 1 .. l + 1 PROVE r[i] = series[g[i]] /\ r[i] \in S
  <2>1. CASE i = l + 1
    BY <1>1, <1>5, <2>1
  <2>2. CASE i # l + 1
    <3>1. i \in 1 .. l /\ g[i] = f[i]
      BY <1>1, <2>2
    <3>. QED
      BY <1>1, <1>2, <3>1
  <2>. QED
    BY <2>1, <2>2
<1>. HIDE DEF g
<1>7. Selection(r, series, n + 1, S)
  BY <1>1, <1>3, <1>4, <1>6 DEF Selection
<1>. QED
  BY <1>1, <1>7 DEF r

LEMMA KeptIs ==
    ASSUME NEW D, NEW series \in Seq(D), NEW S
    PROVE  /\ Kept(series, S) \in Seq(D)
           /\ Selection(Kept(series, S), series, Len(series), S)
<1>. DEFINE n == Len(series)
            h == CHOOSE h : KeptUpTo(h, series, S, n)
<1>1. n \in Nat
  OBVIOUS
<1>2. KeptUpTo(h, series, S, n)
  <2>. HIDE DEF n
  <2>. QED
    BY <1>1, KeptExists
<1>3. Kept(series, S) = h[n]
  BY DEF Kept, KeptUpTo, Taken
<1>. HIDE DEF h
<1>. DEFINE T == {m \in Nat : m <= n => /\ h[m] \in Seq(D)
                                        /\ Selection(h[m], series, m, S)}
<1>4. 0 \in T
  <2>1. h[0] = <<>>
    BY <1>1, <1>2 DEF KeptUpTo
  <2>. DEFINE f == [i \in {} |-> 0]
  <2>2. f \in [DOMAIN <<>> -> 1 .. 0] /\ Increasing(f)
    BY DEF Increasing
  <2>3. Selection(<<>>, series, 0, S)
    BY <2>2 DEF Selection
  <2>4. <<>> \in Seq(D)
    OBVIOUS
  <2>. HIDE DEF f
  <2>. QED
    BY <2>1, <2>3, <2>4
<1>5. ASSUME NEW m \in Nat, m \in T PROVE m + 1 \in T
  <2>. SUFFICES ASSUME m + 1 <= n
                PROVE  h[m + 1] \in Seq(D) /\ Selection(h[m + 1], series, m + 1, S)
    OBVIOUS
  <2>1. h[m] \in Seq(D) /\ Selection(h[m], series, m, S)
    BY <1>1, <1>5
  <2>2. m + 1 \in 0 .. n /\ m + 1 # 0 /\ (m + 1) - 1 = m
    BY <1>1
  <2>3. h[m + 1] = IF series[m + 1] \in S THEN Append(h[m], series[m + 1]) ELSE h[m]
    BY <1>2, <2>2 DEF KeptUpTo, Taken
  <2>4. series[m + 1] \in D
    BY <2>2
  <2>5. CASE series[m + 1] \in S
    BY <2>1, <2>3, <2>4, <2>5, SelectionGrows
  <2>6. CASE series[m + 1] \notin S
    <3>1. PICK f \in [DOMAIN h[m] -> 1 .. m] :
                 /\ Increasing(f)
                 /\ \A i \in DOMAIN h[m] : h[m][i] = series[f[i]] /\ h[m][i] \in S
      BY <2>1 DEF Selection
    <3>2. f \in [DOMAIN h[m] -> 1 .. m + 1]
      OBVIOUS
    <3>3. Selection(h[m], series, m + 1, S)
      BY <3>1, <3>2 DEF Selection
    <3>. QED
      BY <2>1, <2>3, <2>6, <3>3
  <2>. QED
    BY <2>5, <2>6
<1>. HIDE DEF T
<1>6. n \in T
  <2>. HIDE DEF n
  <2>. QED
    BY <1>1, <1>4, <1>5, AllNumbers
<1>. QED
  BY <1>1, <1>3, <1>6 DEF T
-----------------------------------------------------------------------------
(* The values the state ranges over, in parts.                             *)

ExchangeOK ==
    /\ latest \in Rows
    /\ ticks \in 0 .. MaxTicks /\ prints \in 0 .. MaxTrades
    /\ repeats \in 0 .. MaxRepeats /\ backfills \in 0 .. MaxBackfills

CacheOK == lastQuotes \in Rows /\ lastUniverse \in 0 .. MaxUniverses

BoundOK == stops \in 0 .. MaxStops /\ timeouts \in 0 .. MaxTimeouts

CallOK ==
    /\ pc \in {"idle", "trades", "quotes", "write", "reply", "dead"}
    /\ then \in {"idle", "quotes", "reply"} /\ caller \in {"loop", "guarded"}
    /\ todo \in Seq(Message) /\ (pc = "write" <=> todo # <<>>)

Flushing == pc \in {"trades", "quotes"} \/ (pc = "write" /\ then = "quotes")

Resets == IF link \in {"broken", "reset"} THEN 1 ELSE 0

\* A buffer is emptied when it is full.  Each stop of the terminal may leave one
\* quote too many behind, and has not done so while its reset is still to be
\* noticed.
BuffersOK ==
    /\ quotes \in Seq([symbol : Symbols, tick : 1 .. MaxTicks])
    /\ trades \in Seq(Times)
    /\ Len(trades) <= MaxBuffer /\ (pc # "trades" => Len(trades) < MaxBuffer)
    /\ Resets <= stops
    /\ Len(quotes) + Resets < MaxBuffer + stops + (IF Flushing THEN 1 ELSE 0)

LinkOK ==
    /\ link \in {"none", "up", "broken", "reset"} /\ cooldown \in BOOLEAN
    /\ conns \in Seq(Connection) /\ Len(conns) <= MaxConns
    /\ listening \in BOOLEAN /\ serving \in BOOLEAN

StoreOK ==
    /\ storeQuotes \in Rows /\ storeUniverse \in 0 .. MaxUniverses
    /\ tape \in Seq(Times) /\ Len(tape) <= MaxTape

TypeInv ==
    /\ ExchangeOK /\ CacheOK /\ BoundOK /\ CallOK
    /\ BuffersOK /\ LinkOK /\ StoreOK /\ LinkInv

LEMMA TypeInvSays == TypeInv => TypeOK
<1>. SUFFICES ASSUME TypeInv PROVE TypeOK
  OBVIOUS
<1>1. Len(quotes) <= MaxBuffer + stops
  <2>1. Len(quotes) + Resets < MaxBuffer + stops + (IF Flushing THEN 1 ELSE 0)
    BY DEF TypeInv, BuffersOK
  <2>2. Len(quotes) \in Nat /\ stops \in Nat /\ MaxBuffer \in Nat /\ MaxStops \in Nat
    BY FeedLinkAssumption DEF TypeInv, BuffersOK, BoundOK
  <2>. QED
    BY <2>1, <2>2 DEF Resets
<1>2. {listening, serving} \subseteq BOOLEAN
  BY Zenon DEF TypeInv, LinkOK
<1>. QED
  BY <1>1, <1>2 DEF TypeInv, TypeOK, ExchangeOK, CacheOK, BoundOK, CallOK, BuffersOK,
              LinkOK, StoreOK

LEMMA TypeInit == Init => TypeInv
<1>. SUFFICES ASSUME Init PROVE TypeInv
  OBVIOUS
<1>. USE FeedLinkAssumption
<1>1. NoQuotes \in Rows
  BY DEF NoQuotes, Rows
<1>2. ExchangeOK /\ CacheOK /\ BoundOK /\ CallOK
  BY <1>1 DEF Init, ExchangeOK, CacheOK, BoundOK, CallOK
<1>3. BuffersOK
  BY DEF Init, BuffersOK, Resets, Flushing
<1>4. StoreOK
  BY <1>1 DEF Init, StoreOK
<1>5. LinkOK
  <2>1. conns \in Seq(Connection) /\ Len(conns) <= MaxConns
    BY DEF Init
  <2>2. cooldown \in BOOLEAN /\ serving \in BOOLEAN /\ listening \in BOOLEAN
    BY Zenon DEF Init
  <2>3. link \in {"none", "up", "broken", "reset"}
    BY DEF Init
  <2>. QED
    BY <2>1, <2>2, <2>3, Zenon DEF LinkOK
<1>. QED
  BY <1>2, <1>3, <1>4, <1>5, LinkInit DEF TypeInv

-----------------------------------------------------------------------------
(* What Send does, apart from its effect on the connections.               *)

LEMMA ResyncType ==
    ASSUME NEW rows \in Rows, NEW u \in 0 .. MaxUniverses, MaxUniverses \in Nat
    PROVE  Resync(rows, u) \in Seq(Message)
<1>1. u # 0 => UniverseMsg(u) \in Message
  BY DEF UniverseMsg, Message
<1>2. QuotesMsg(rows) \in Message
  BY DEF QuotesMsg, Message
<1>. QED
  BY <1>1, <1>2 DEF Resync

LEMMA SendTypes ==
    ASSUME CallOK, pc # "write", NEW msg \in Message, NEW rows \in Rows,
           NEW u \in 0 .. MaxUniverses, MaxUniverses \in Nat,
           NEW cont \in {"idle", "quotes", "reply"},
           Send(msg, rows, u, cont), caller' \in {"loop", "guarded"}
    PROVE  CallOK'
<1>1. todo = <<>>
  BY DEF CallOK
<1>2. <<msg>> \in Seq(Message) /\ <<msg>> # <<>>
  OBVIOUS
<1>3. /\ Append(Resync(rows, u), msg) \in Seq(Message)
      /\ Append(Resync(rows, u), msg) # <<>>
  BY ResyncType
<1>4. \/ todo' = <<msg>> /\ pc' = "write" /\ then' = cont
      \/ todo' = Append(Resync(rows, u), msg) /\ pc' = "write" /\ then' = cont
      \/ /\ todo' = todo /\ then' = then
         /\ pc' = IF cont = "reply" THEN "idle" ELSE cont
  BY DEF Send
<1>. QED
  BY <1>1, <1>2, <1>3, <1>4 DEF CallOK
-----------------------------------------------------------------------------
(* Every step keeps the types, part by part.                               *)

LEMMA ExchangeStep == TypeInv /\ [Next]_vars => ExchangeOK'
<1>. SUFFICES ASSUME TypeInv, [Next]_vars PROVE ExchangeOK'
  OBVIOUS
<1>. USE FeedLinkAssumption DEF TypeInv, ExchangeOK
<1>1. CASE UNCHANGED exchangeVars
  BY <1>1 DEF exchangeVars
<1>2. CASE \E s \in Symbols : EmitQuote(s)
  BY <1>2 DEF EmitQuote, Rows
<1>3. CASE EmitTrade \/ EmitLastMatch
  <2>1. CASE EmitTrade
    BY <2>1 DEF EmitTrade
  <2>2. CASE EmitLastMatch
    <3>1. repeats < MaxRepeats /\ repeats' = repeats + 1
          /\ UNCHANGED <<latest, ticks, prints, backfills>>
      BY <2>2 DEF EmitLastMatch
    <3>. QED
      BY <3>1
  <2>. QED
    BY <1>3, <2>1, <2>2
<1>4. CASE PublishHistory
  <2>1. backfills < MaxBackfills /\ backfills' = backfills + 1
        /\ UNCHANGED <<latest, ticks, prints, repeats>>
    BY <1>4 DEF PublishHistory
  <2>. QED
    BY <2>1
<1>5. CASE ~((\E s \in Symbols : EmitQuote(s)) \/ EmitTrade \/ EmitLastMatch \/ PublishHistory)
  <2>1. UNCHANGED exchangeVars
    BY <1>5 DEF Next, vars, SetUniverse, FlushTimer, FlushTrades, FlushQuotes, Poll,
                WriteDelivered, WriteLost, WriteFails, RetryDue, ReadReply, ReplyFails,
                ReplyTimesOut, StartTerminal, StopTerminal, Accept, HandleLine, PeerClosed
  <2>. QED
    BY <1>1, <2>1
<1>. QED
  BY <1>2, <1>3, <1>4, <1>5

LEMMA CacheStep == TypeInv /\ [Next]_vars => CacheOK'
<1>. SUFFICES ASSUME TypeInv, [Next]_vars PROVE CacheOK'
  OBVIOUS
<1>. USE FeedLinkAssumption DEF TypeInv, CacheOK
<1>1. CASE UNCHANGED cacheVars
  BY <1>1 DEF cacheVars
<1>2. CASE SetUniverse
  <2>1. lastUniverse < MaxUniverses /\ lastUniverse' = lastUniverse + 1
        /\ UNCHANGED lastQuotes
    BY <1>2 DEF SetUniverse
  <2>. QED
    BY <2>1
<1>3. CASE FlushQuotes
  <2>1. lastQuotes' = Overlay(lastQuotes, RowsOf(quotes)) /\ UNCHANGED lastUniverse
    BY <1>3 DEF FlushQuotes
  <2>2. Overlay(lastQuotes, RowsOf(quotes)) \in Rows
    BY RowsOfType, OverlayType DEF BuffersOK
  <2>. QED
    BY <2>1, <2>2
<1>4. CASE ~(SetUniverse \/ FlushQuotes)
  <2>1. UNCHANGED cacheVars
    BY <1>4 DEF Next, vars, dataVars, cacheVars, EmitQuote, EmitTrade, EmitLastMatch, PublishHistory,
                FlushTimer, FlushTrades, Poll, WriteDelivered, WriteLost, WriteFails,
                RetryDue, ReadReply, ReplyFails, ReplyTimesOut, StartTerminal,
                StopTerminal, Accept, HandleLine, PeerClosed
  <2>. QED
    BY <1>1, <2>1
<1>. QED
  BY <1>2, <1>3, <1>4

LEMMA BoundStep == TypeInv /\ [Next]_vars => BoundOK'
<1>. SUFFICES ASSUME TypeInv, [Next]_vars PROVE BoundOK'
  OBVIOUS
<1>. USE FeedLinkAssumption DEF TypeInv, BoundOK
<1>1. CASE UNCHANGED boundVars
  BY <1>1 DEF boundVars
<1>2. CASE StopTerminal
  BY <1>2 DEF StopTerminal
<1>3. CASE ReplyTimesOut
  <2>1. timeouts < MaxTimeouts /\ timeouts' = timeouts + 1 /\ UNCHANGED stops
    BY <1>3 DEF ReplyTimesOut
  <2>. QED
    BY <2>1
<1>4. CASE ~(StopTerminal \/ ReplyTimesOut)
  <2>1. UNCHANGED boundVars
    BY <1>4 DEF Next, vars, terminalSide, boundVars, EmitQuote, EmitTrade, EmitLastMatch, SetUniverse,
                PublishHistory, FlushTimer, FlushTrades, FlushQuotes, Poll,
                WriteDelivered, WriteLost, WriteFails, RetryDue, ReadReply, ReplyFails,
                StartTerminal, Accept, HandleLine, PeerClosed
  <2>. QED
    BY <1>1, <2>1
<1>. QED
  BY <1>2, <1>3, <1>4

\* What the publisher's calls hand to Send.
LEMMA MessagesType ==
    ASSUME TypeInv
    PROVE  /\ trades # <<>> => TradesMsg(trades) \in Message
           /\ RowsOf(quotes) \in Rows /\ QuotesMsg(RowsOf(quotes)) \in Message
           /\ Overlay(lastQuotes, RowsOf(quotes)) \in Rows
           /\ \A u \in 1 .. MaxUniverses : UniverseMsg(u) \in Message
           /\ PollMsg \in Message
           /\ \A fetched \in 1 .. prints :
                  HistoryMsg([k \in 1 .. fetched |-> CandleTime(k)]) \in Message
<1>. USE FeedLinkAssumption
<1>1. trades # <<>> => TradesMsg(trades) \in Message
  BY DEF TypeInv, BuffersOK, TradesMsg, Message
<1>2. /\ RowsOf(quotes) \in Rows /\ QuotesMsg(RowsOf(quotes)) \in Message
      /\ Overlay(lastQuotes, RowsOf(quotes)) \in Rows
  <2>1. RowsOf(quotes) \in Rows
    BY RowsOfType DEF TypeInv, BuffersOK
  <2>2. Overlay(lastQuotes, RowsOf(quotes)) \in Rows
    BY <2>1, OverlayType DEF TypeInv, CacheOK
  <2>. QED
    BY <2>1, <2>2 DEF QuotesMsg, Message
<1>3. \A u \in 1 .. MaxUniverses : UniverseMsg(u) \in Message
  BY DEF UniverseMsg, Message
<1>4. PollMsg \in Message
  BY DEF PollMsg, Message
<1>5. ASSUME NEW fetched \in 1 .. prints
      PROVE  HistoryMsg([k \in 1 .. fetched |-> CandleTime(k)]) \in Message
  <2>1. prints \in 0 .. MaxTrades /\ MaxTrades \in Nat
    BY DEF TypeInv, ExchangeOK
  <2>2. \A k \in 1 .. fetched : CandleTime(k) \in Times
    BY <2>1 DEF CandleTime, Times, TradeTime
  <2>3. [k \in 1 .. fetched |-> CandleTime(k)] \in Seq(Times)
    BY <2>1, <2>2
  <2>. QED
    BY <2>3 DEF HistoryMsg, Message
<1>. QED
  BY <1>1, <1>2, <1>3, <1>4, <1>5

LEMMA CallStep == TypeInv /\ [Next]_vars => CallOK'
<1>. SUFFICES ASSUME TypeInv, [Next]_vars PROVE CallOK'
  OBVIOUS
<1>. USE FeedLinkAssumption
<1>1. CallOK /\ CacheOK
  BY DEF TypeInv
<1>2. CASE UNCHANGED callVars
  BY <1>1, <1>2 DEF callVars, CallOK
<1>3. CASE (\E s \in Symbols : EmitQuote(s)) \/ EmitTrade \/ EmitLastMatch \/ FlushTimer
           \/ ReadReply \/ ReplyFails \/ ReplyTimesOut
  <2>1. /\ UNCHANGED <<todo, then>> /\ pc # "write"
        /\ pc' \in {"idle", "trades"} /\ (caller' = caller \/ caller' \in {"loop", "guarded"})
    BY <1>3 DEF EmitQuote, EmitTrade, EmitLastMatch, FlushTimer, ReadReply, ReplyFails, ReplyTimesOut
  <2>. QED
    BY <1>1, <2>1 DEF CallOK
<1>4. CASE WriteDelivered \/ WriteLost
  <2>1. /\ pc = "write" /\ UNCHANGED <<then, caller>>
        /\ todo' = Tail(todo) /\ pc' = IF Len(todo) = 1 THEN then ELSE "write"
    BY <1>4 DEF WriteDelivered, WriteLost, Written
  <2>2. todo \in Seq(Message) /\ todo # <<>>
    BY <1>1, <2>1 DEF CallOK
  <2>3. Tail(todo) \in Seq(Message) /\ (Tail(todo) = <<>> <=> Len(todo) = 1)
    BY <2>2, OneLess
  <2>. QED
    BY <1>1, <2>1, <2>3 DEF CallOK
<1>5. CASE WriteFails
  BY <1>1, <1>5 DEF WriteFails, CallOK
<1>6. CASE FlushTrades
  <2>1. /\ pc = "trades" /\ UNCHANGED caller
        /\ \/ pc' = "quotes" /\ UNCHANGED <<todo, then>>
           \/ trades # <<>> /\ Send(TradesMsg(trades), lastQuotes, lastUniverse, "quotes")
    BY <1>6 DEF FlushTrades
  <2>2. CASE pc' = "quotes" /\ UNCHANGED <<todo, then>>
    BY <1>1, <2>1, <2>2 DEF CallOK
  <2>3. CASE trades # <<>> /\ Send(TradesMsg(trades), lastQuotes, lastUniverse, "quotes")
    <3>1. TradesMsg(trades) \in Message
      BY <2>3, MessagesType
    <3>2. caller' \in {"loop", "guarded"}
      BY <1>1, <2>1 DEF CallOK
    <3>. QED
      BY <1>1, <2>1, <2>3, <3>1, <3>2, SendTypes DEF CacheOK
  <2>. QED
    BY <2>1, <2>2, <2>3
<1>7. CASE FlushQuotes
  <2>1. /\ pc = "quotes" /\ UNCHANGED caller
        /\ lastQuotes' = Overlay(lastQuotes, RowsOf(quotes))
        /\ \/ pc' = "idle" /\ UNCHANGED <<todo, then>>
           \/ Send(QuotesMsg(RowsOf(quotes)), lastQuotes', lastUniverse, "idle")
    BY <1>7 DEF FlushQuotes
  <2>2. CASE pc' = "idle" /\ UNCHANGED <<todo, then>>
    BY <1>1, <2>1, <2>2 DEF CallOK
  <2>3. CASE Send(QuotesMsg(RowsOf(quotes)), lastQuotes', lastUniverse, "idle")
    <3>1. QuotesMsg(RowsOf(quotes)) \in Message /\ lastQuotes' \in Rows
      BY <2>1, MessagesType
    <3>2. caller' \in {"loop", "guarded"}
      BY <1>1, <2>1 DEF CallOK
    <3>. QED
      BY <1>1, <2>1, <2>3, <3>1, <3>2, SendTypes DEF CacheOK
  <2>. QED
    BY <2>1, <2>2, <2>3
<1>8. CASE SetUniverse
  <2>1. /\ pc = "idle" /\ caller' = "guarded"
        /\ lastUniverse < MaxUniverses /\ lastUniverse' = lastUniverse + 1
        /\ Send(UniverseMsg(lastUniverse'), lastQuotes, lastUniverse', "idle")
    BY <1>8 DEF SetUniverse
  <2>2. lastUniverse' \in 1 .. MaxUniverses
    BY <1>1, <2>1 DEF CacheOK
  <2>3. UniverseMsg(lastUniverse') \in Message
    BY <2>2, MessagesType
  <2>. QED
    BY <1>1, <2>1, <2>2, <2>3, SendTypes DEF CacheOK
<1>9. CASE PublishHistory
  <2>1. /\ pc = "idle" /\ caller' = "guarded"
        /\ \E fetched \in 1 .. prints :
              Send(HistoryMsg([k \in 1 .. fetched |-> CandleTime(k)]),
                   lastQuotes, lastUniverse, "idle")
    BY <1>9 DEF PublishHistory
  <2>2. PICK msg \in Message : Send(msg, lastQuotes, lastUniverse, "idle")
    BY <2>1, MessagesType
  <2>. QED
    BY <1>1, <2>1, <2>2, SendTypes DEF CacheOK
<1>10. CASE Poll
  <2>1. /\ pc = "idle" /\ caller' = "loop"
        /\ Send(PollMsg, lastQuotes, lastUniverse, "reply")
    BY <1>10 DEF Poll
  <2>2. PollMsg \in Message
    BY MessagesType
  <2>. QED
    BY <1>1, <2>1, <2>2, SendTypes DEF CacheOK
<1>11. CASE RetryDue \/ StartTerminal \/ StopTerminal \/ Accept \/ HandleLine \/ PeerClosed
           \/ UNCHANGED vars
  <2>1. UNCHANGED callVars
    BY <1>11 DEF vars, RetryDue, StartTerminal, StopTerminal, Accept, HandleLine, PeerClosed
  <2>. QED
    BY <1>2, <2>1
<1>. QED
  BY <1>3, <1>4, <1>5, <1>6, <1>7, <1>8, <1>9, <1>10, <1>11 DEF Next

LEMMA SendLeaves ==
    ASSUME NEW msg, NEW rows, NEW u, NEW cont, Send(msg, rows, u, cont)
    PROVE  /\ Resets' = Resets
           /\ \/ pc' = "write" /\ then' = cont
              \/ cont # "reply" /\ pc' = cont
              \/ cont = "reply" /\ pc' = "idle"
BY DEF Send, socketVars, Resets

LEMMA BuffersStep == TypeInv /\ [Next]_vars => BuffersOK'
<1>. SUFFICES ASSUME TypeInv, [Next]_vars PROVE BuffersOK'
  OBVIOUS
<1>. DEFINE Q == [symbol : Symbols, tick : 1 .. MaxTicks]
<1>0. MaxBuffer \in Nat \ {0}
  BY FeedLinkAssumption
<1>1. /\ BuffersOK /\ stops \in Nat /\ CallOK
      /\ quotes \in Seq(Q) /\ Len(quotes) \in Nat /\ Len(trades) \in Nat
  BY FeedLinkAssumption DEF TypeInv, BoundOK, BuffersOK
<1>2. Resets \in {0, 1}
  BY DEF Resets
\* The buffers stay, and a flush that is cut off had a reset to account for it.
<1>3. ASSUME UNCHANGED <<quotes, trades>>, pc' = "trades" \/ pc # "trades",
             Resets' + stops <= Resets + stops', stops' \in Nat, stops <= stops',
             Resets' \in {0, 1},
             Flushing => (Flushing' \/ Resets' < Resets)
      PROVE  BuffersOK'
  <2>1. Len(trades') <= MaxBuffer /\ (pc' # "trades" => Len(trades') < MaxBuffer)
    BY <1>1, <1>3 DEF BuffersOK
  <2>2. Resets <= stops /\ Len(quotes) + Resets < MaxBuffer + stops + (IF Flushing THEN 1 ELSE 0)
    BY <1>1 DEF BuffersOK
  <2>. DEFINE f == IF Flushing THEN 1 ELSE 0
              f2 == IF Flushing' THEN 1 ELSE 0
  <2>3. f \in {0, 1} /\ f2 \in {0, 1} /\ (f = 1 => (f2 = 1 \/ Resets' < Resets))
    BY <1>3, Zenon
  <2>4. Resets <= stops /\ Len(quotes) + Resets < MaxBuffer + stops + f
    BY <2>2
  <2>. HIDE DEF f, f2, Q
  <2>. DEFINE l == Len(quotes)
              r == Resets
              r2 == Resets'
  <2>5. /\ l \in Nat /\ r \in {0, 1} /\ r2 \in {0, 1} /\ stops \in Nat /\ stops' \in Nat
        /\ r2 + stops <= r + stops' /\ stops <= stops' /\ r <= stops
        /\ l + r < MaxBuffer + stops + f /\ (f = 1 => (f2 = 1 \/ r2 < r))
        /\ f \in {0, 1} /\ f2 \in {0, 1}
    BY <1>1, <1>2, <1>3, <2>3, <2>4
  <2>. HIDE DEF l, r, r2
  <2>6. r2 <= stops' /\ l + r2 < MaxBuffer + stops' + f2
    <3>. DEFINE s == stops
                s2 == stops'
                b == MaxBuffer
    <3>1. /\ l \in Nat /\ r \in {0, 1} /\ r2 \in {0, 1} /\ s \in Nat /\ s2 \in Nat
          /\ r2 + s <= r + s2 /\ s <= s2 /\ r <= s
          /\ l + r < b + s + f /\ (f = 1 => (f2 = 1 \/ r2 < r))
          /\ f \in {0, 1} /\ f2 \in {0, 1} /\ b \in Nat
      BY <1>0, <2>5
    <3>. HIDE DEF s, s2, b
    <3>2. r2 <= s2
      BY <3>1
    <3>3. l + r2 < b + s2 + f2
      BY <3>1
    <3>. QED
      BY <3>2, <3>3 DEF s, s2, b
  <2>7. Len(quotes') + Resets' < MaxBuffer + stops' + (IF Flushing' THEN 1 ELSE 0)
    BY <1>3, <2>6 DEF f2, l, r2
  <2>. QED
    BY <1>1, <1>3, <2>1, <2>6, <2>7 DEF BuffersOK, Q, r2
\* A call that sends something other than the buffers.
<1>4. ASSUME UNCHANGED <<quotes, trades, stops>>, pc = "idle",
             NEW msg, NEW rows, NEW u, NEW cont \in {"idle", "reply"},
             Send(msg, rows, u, cont)
      PROVE  BuffersOK'
  <2>1. pc' # "trades" /\ ~Flushing
    BY <1>4, SendLeaves DEF Flushing
  <2>2. Resets' = Resets
    BY <1>4, SendLeaves
  <2>. QED
    BY <1>1, <1>2, <1>3, <1>4, <2>1, <2>2
<1>5. CASE \E s \in Symbols : EmitQuote(s)
  <2>1. PICK s \in Symbols : EmitQuote(s)
    BY <1>5
  <2>. DEFINE q == [symbol |-> s, tick |-> ticks + 1]
  <2>2. /\ pc = "idle" /\ quotes' = Append(quotes, q) /\ UNCHANGED <<trades, stops, link>>
        /\ pc' = IF Len(quotes') >= MaxBuffer THEN "trades" ELSE "idle"
    BY <2>1 DEF EmitQuote, socketVars, terminalSide, boundVars
  <2>3. q \in Q
    BY <2>1, FeedLinkAssumption DEF EmitQuote, TypeInv, ExchangeOK
  <2>. HIDE DEF q, Q
  <2>4. quotes' \in Seq(Q) /\ Len(quotes') = Len(quotes) + 1
    BY <1>1, <2>2, <2>3
  <2>5. Len(quotes) + Resets < MaxBuffer + stops /\ Resets' = Resets /\ Resets <= stops
    BY <1>0, <1>1, <1>2, <2>2 DEF BuffersOK, Flushing, Resets
  <2>6. Flushing' <=> Len(quotes') >= MaxBuffer
    BY <2>2 DEF Flushing
  <2>7. Len(quotes') + Resets' < MaxBuffer + stops' + (IF Flushing' THEN 1 ELSE 0)
    BY <1>0, <1>1, <1>2, <2>2, <2>4, <2>5, <2>6
  <2>. QED
    BY <1>1, <2>2, <2>4, <2>5, <2>7 DEF BuffersOK, Q
<1>6. CASE EmitTrade \/ EmitLastMatch
  <2>1. \E k \in Nat : /\ trades' = Append(trades, TradeTime(k))
                       /\ TradeTime(k) \in Times
    <3>1. ASSUME EmitTrade
          PROVE  /\ trades' = Append(trades, TradeTime(prints + 1))
                 /\ TradeTime(prints + 1) \in Times /\ prints + 1 \in Nat
      BY <3>1, FeedLinkAssumption DEF EmitTrade, TypeInv, ExchangeOK, TradeTime, Times
    <3>2. ASSUME EmitLastMatch
          PROVE  /\ trades' = Append(trades, TradeTime(prints))
                 /\ TradeTime(prints) \in Times /\ prints \in Nat
      BY <3>2, FeedLinkAssumption DEF EmitLastMatch, TypeInv, ExchangeOK, TradeTime, Times
    <3>. QED
      BY <1>6, <3>1, <3>2
  <2>2. /\ pc = "idle" /\ UNCHANGED <<quotes, stops, link>>
        /\ pc' = IF Len(trades') >= MaxBuffer THEN "trades" ELSE "idle"
    BY <1>6 DEF EmitTrade, EmitLastMatch, socketVars, terminalSide, boundVars
  <2>3. trades' \in Seq(Times) /\ Len(trades') = Len(trades) + 1
    BY <1>1, <2>1 DEF BuffersOK
  <2>4. ~Flushing /\ Resets' = Resets
    BY <2>2 DEF Flushing, Resets
  <2>. QED
    BY <1>0, <1>1, <1>2, <2>2, <2>3, <2>4 DEF BuffersOK
<1>7. CASE FlushTimer \/ RetryDue \/ StartTerminal \/ Accept \/ HandleLine \/ PeerClosed
           \/ ReadReply \/ UNCHANGED vars
  <2>1. /\ UNCHANGED <<quotes, trades, stops, link>>
        /\ pc # "trades" \/ pc' = pc
        /\ (pc' = pc /\ then' = then) \/ pc \in {"idle", "reply"}
    BY <1>7 DEF FlushTimer, RetryDue, StartTerminal, Accept, HandleLine, PeerClosed,
                ReadReply, vars, dataVars, bufferVars, terminalSide, boundVars,
                socketVars, callVars
  <2>2. Resets' = Resets /\ (Flushing => Flushing') /\ (pc' = "trades" \/ pc # "trades")
    BY <2>1 DEF Resets, Flushing
  <2>. QED
    BY <1>1, <1>2, <1>3, <2>1, <2>2
<1>8. CASE SetUniverse \/ PublishHistory \/ Poll
  <2>1. pc = "idle" /\ UNCHANGED <<quotes, trades, stops>>
    BY <1>8 DEF SetUniverse, PublishHistory, Poll, bufferVars, dataVars, terminalSide,
                boundVars
  <2>2. \E msg, u : \E cont \in {"idle", "reply"} : Send(msg, lastQuotes, u, cont)
    BY <1>8, Zenon DEF SetUniverse, PublishHistory, Poll
  <2>. QED
    BY <1>4, <2>1, <2>2
<1>9. CASE FlushTrades
  <2>1. /\ pc = "trades" /\ trades' = <<>> /\ UNCHANGED <<quotes, stops>>
        /\ \/ pc' = "quotes" /\ UNCHANGED link
           \/ Send(TradesMsg(trades), lastQuotes, lastUniverse, "quotes")
    BY <1>9 DEF FlushTrades, socketVars, terminalSide, boundVars
  <2>2. Flushing /\ Flushing' /\ Resets' = Resets
    BY <2>1, SendLeaves DEF Flushing, Resets
  <2>3. trades' \in Seq(Times) /\ Len(trades') = 0
    BY <2>1
  <2>. QED
    BY <1>0, <1>1, <1>2, <2>1, <2>2, <2>3 DEF BuffersOK
<1>10. CASE FlushQuotes
  <2>1. /\ pc = "quotes" /\ quotes' = <<>> /\ UNCHANGED <<trades, stops>>
        /\ \/ pc' = "idle" /\ UNCHANGED link
           \/ Send(QuotesMsg(RowsOf(quotes)), lastQuotes', lastUniverse, "idle")
    BY <1>10 DEF FlushQuotes, socketVars, terminalSide, boundVars
  <2>2. ~Flushing' /\ Resets' = Resets /\ pc' # "trades"
    BY <2>1, SendLeaves DEF Flushing, Resets
  <2>3. quotes' \in Seq(Q) /\ Len(quotes') = 0
    BY <2>1
  <2>. HIDE DEF Q
  <2>4. Len(quotes') + Resets' < MaxBuffer + stops' + (IF Flushing' THEN 1 ELSE 0)
    BY <1>0, <1>1, <1>2, <2>1, <2>2, <2>3 DEF BuffersOK
  <2>. QED
    BY <1>1, <2>1, <2>2, <2>3, <2>4 DEF BuffersOK, Q
<1>11. CASE WriteDelivered \/ WriteLost
  <2>1. /\ pc = "write" /\ UNCHANGED <<then, quotes, trades, stops>>
        /\ pc' = IF Len(todo) = 1 THEN then ELSE "write"
        /\ link' = link \/ (link = "broken" /\ link' = "reset")
    BY <1>11 DEF WriteDelivered, WriteLost, Written, bufferVars, dataVars, socketVars,
                 terminalSide, boundVars
  <2>2. Resets' = Resets /\ (Flushing => Flushing') /\ pc # "trades"
    BY <1>1, <2>1 DEF Resets, Flushing, CallOK
  <2>. QED
    BY <1>1, <1>2, <1>3, <2>1, <2>2
<1>12. CASE WriteFails \/ ReplyFails \/ ReplyTimesOut
  <2>1. /\ pc \in {"write", "reply"} /\ UNCHANGED <<quotes, trades, stops>>
        /\ pc = "write" => link \in {"broken", "reset"}
        /\ link' = "none"
    BY <1>12 DEF WriteFails, ReplyFails, ReplyTimesOut, bufferVars, dataVars,
                 terminalSide, boundVars
  <2>2. Resets' = 0 /\ (Flushing => Resets = 1) /\ pc # "trades"
    BY <2>1 DEF Resets, Flushing
  <2>. QED
    BY <1>1, <1>2, <1>3, <2>1, <2>2
<1>13. CASE StopTerminal
  <2>1. /\ UNCHANGED <<pc, then, quotes, trades>> /\ stops' = stops + 1
    BY <1>13 DEF StopTerminal, callVars, dataVars, bufferVars
  <2>2. (Flushing => Flushing') /\ Resets' \in {0, 1} /\ (pc' = "trades" \/ pc # "trades")
    BY <2>1 DEF Flushing, Resets
  <2>. HIDE DEF Q
  <2>3. Resets' + stops <= Resets + stops' /\ stops' \in Nat /\ stops <= stops'
    <3>1. stops \in Nat /\ stops' = stops + 1
      BY <1>1, <2>1
    <3>. DEFINE r == Resets
                r2 == Resets'
    <3>2. r \in {0, 1} /\ r2 \in {0, 1}
      BY <1>2, <2>2
    <3>. HIDE DEF r, r2
    <3>3. r2 + stops <= r + stops' /\ stops' \in Nat /\ stops <= stops'
      BY <3>1, <3>2
    <3>. QED
      BY <3>3 DEF r, r2
  <2>. QED
    BY <1>3, <2>1, <2>2, <2>3
<1>. QED
  BY <1>5, <1>6, <1>7, <1>8, <1>9, <1>10, <1>11, <1>12, <1>13 DEF Next

\* One connection of the list is changed.
LEMMA ConnectionKept ==
    ASSUME NEW D, NEW c \in Seq(D), NEW k \in 1 .. Len(c), NEW r \in D
    PROVE  /\ [c EXCEPT ![k] = r] \in Seq(D)
           /\ Len([c EXCEPT ![k] = r]) = Len(c)
           /\ \A i \in 1 .. Len(c) : [c EXCEPT ![k] = r][i] = IF i = k THEN r ELSE c[i]
<1>. DEFINE n == Len(c)
            d == [c EXCEPT ![k] = r]
<1>1. n \in Nat /\ DOMAIN c = 1 .. n /\ \A i \in 1 .. n : c[i] \in D
  OBVIOUS
<1>2. d \in [1 .. n -> D]
  BY <1>1
<1>3. \A i \in 1 .. n : d[i] = IF i = k THEN r ELSE c[i]
  BY <1>1
<1>. HIDE DEF d
<1>4. d \in Seq(D) /\ Len(d) = n
  BY <1>1, <1>2
<1>. QED
  BY <1>3, <1>4 DEF d

LEMMA LineAppended ==
    ASSUME NEW r \in Connection, NEW line \in Message
    PROVE  /\ [r EXCEPT !.lines = Append(@, line)] \in Connection
           /\ [r EXCEPT !.lines = Append(@, line)].lines = Append(r.lines, line)
BY DEF Connection

LEMMA LineTaken ==
    ASSUME NEW r \in Connection, r.lines # <<>>, NEW asked \in BOOLEAN
    PROVE  LET q == [r EXCEPT !.lines = Tail(@), !.reply = @ \/ asked] IN
           q \in Connection /\ q.lines = Tail(r.lines)
<1>. DEFINE q == [r EXCEPT !.lines = Tail(@), !.reply = @ \/ asked]
<1>1. r.lines \in Seq(Message) /\ r.eof \in BOOLEAN /\ r.reply \in BOOLEAN
  BY DEF Connection
<1>2. r = [lines |-> r.lines, eof |-> r.eof, reply |-> r.reply]
  BY DEF Connection
<1>3. q = [lines |-> Tail(r.lines), eof |-> r.eof, reply |-> r.reply \/ asked]
  <2>. DEFINE v == r.reply \/ asked
  <2>1. q = [r EXCEPT !.lines = Tail(@), !.reply = v]
    OBVIOUS
  <2>. HIDE DEF q, v
  <2>2. q = [lines |-> Tail(r.lines), eof |-> r.eof, reply |-> v]
    BY <1>2, <2>1
  <2>. QED
    BY <2>2 DEF v
<1>4. Tail(r.lines) \in Seq(Message)
  BY <1>1, OneLess
<1>5. (r.reply \/ asked) \in BOOLEAN
  BY Zenon
<1>. HIDE DEF q
<1>. QED
  BY <1>1, <1>3, <1>4, <1>5, Zenon DEF Connection, q

LEMMA ReplyTaken ==
    ASSUME NEW r \in Connection
    PROVE  /\ [r EXCEPT !.reply = FALSE] \in Connection
           /\ [r EXCEPT !.reply = FALSE].lines = r.lines
BY DEF Connection

LEMMA ClosedShort ==
    ASSUME NEW r \in Connection, NEW kept \in 0 .. Len(r.lines)
    PROVE  LET q == [r EXCEPT !.lines = SubSeq(@, 1, kept), !.eof = TRUE] IN
           q \in Connection /\ q.lines = SubSeq(r.lines, 1, kept)
<1>1. r.lines \in Seq(Message)
  BY DEF Connection
<1>2. SubSeq(r.lines, 1, kept) \in Seq(Message)
  BY <1>1
<1>. QED
  BY <1>2 DEF Connection

\* The connections after each step that changes them.
Attach(c) == Append(c, [lines |-> <<>>, eof |-> FALSE, reply |-> FALSE])

LEMMA SendConnects ==
    ASSUME NEW msg, NEW rows, NEW u, NEW cont, Send(msg, rows, u, cont)
    PROVE  \/ UNCHANGED <<link, conns>> /\ cooldown' \in {cooldown, TRUE}
           \/ /\ link = "none" /\ Reachable /\ link' = "up" /\ cooldown' = TRUE
              /\ conns' = Attach(conns)
BY DEF Send, socketVars, Attach

LEMMA AttachType ==
    ASSUME NEW c \in Seq(Connection), Len(c) < MaxConns, MaxConns \in Nat
    PROVE  /\ Attach(c) \in Seq(Connection) /\ Len(Attach(c)) <= MaxConns
           /\ Len(Attach(c)) = Len(c) + 1 /\ Attach(c)[Len(c) + 1].lines = <<>>
           /\ \A i \in 1 .. Len(c) : Attach(c)[i] = c[i]
<1>. DEFINE r == [lines |-> <<>>, eof |-> FALSE, reply |-> FALSE]
<1>1. r \in Connection /\ r.lines = <<>>
  BY DEF Connection
<1>. HIDE DEF r
<1>2. Attach(c) = Append(c, r)
  BY DEF Attach, r
<1>. QED
  BY <1>1, <1>2

\* The newest connection, while the feed holds it.
LEMMA NewestThere ==
    ASSUME TypeInv, link = "up"
    PROVE  /\ Len(conns) \in 1 .. Len(conns) /\ Last(conns) = conns[Len(conns)]
           /\ Last(conns) \in Connection /\ Len(conns) \in Nat \ {0}
<1>1. conns \in Seq(Connection) /\ conns # <<>>
  BY DEF TypeInv, LinkInv, NewestOpen, LinkOK
<1>2. Len(conns) \in Nat \ {0}
  BY <1>1
<1>3. conns[Len(conns)] \in Connection
  BY <1>1, <1>2
<1>. QED
  BY <1>2, <1>3 DEF Last

LEMMA OldestThere ==
    ASSUME TypeInv, serving
    PROVE  /\ 1 \in 1 .. Len(conns) /\ Head(conns) = conns[1]
           /\ Head(conns) \in Connection /\ conns # <<>> /\ Len(conns) \in Nat \ {0}
<1>1. conns \in Seq(Connection) /\ conns # <<>>
  BY DEF TypeInv, LinkInv, LinkOK
<1>. QED
  BY <1>1, OneLess

\* Writing a line, taking one, reading the reply, and hanging up.
LEMMA DeliveredIs ==
    ASSUME TypeInv, WriteDelivered
    PROVE  \E r \in Connection :
               /\ conns' = [conns EXCEPT ![Len(conns)] = r]
               /\ r.lines = Append(Last(conns).lines, Head(todo))
               /\ Head(todo) \in Message /\ todo # <<>> /\ todo' = Tail(todo)
<1>. DEFINE r == [conns[Len(conns)] EXCEPT !.lines = Append(@, Head(todo))]
<1>1. todo \in Seq(Message) /\ todo # <<>> /\ link = "up" /\ todo' = Tail(todo)
  BY DEF WriteDelivered, Written, TypeInv, CallOK
<1>2. Head(todo) \in Message
  BY <1>1, OneLess
<1>3. conns' = [conns EXCEPT ![Len(conns)] = r]
  BY DEF WriteDelivered
<1>4. r \in Connection /\ r.lines = Append(Last(conns).lines, Head(todo))
  BY <1>1, <1>2, NewestThere, LineAppended
<1>. QED
  BY <1>1, <1>2, <1>3, <1>4

LEMMA HandledIs ==
    ASSUME TypeInv, HandleLine
    PROVE  /\ serving /\ conns # <<>> /\ conns[1].lines # <<>>
           /\ Head(conns[1].lines) \in Message /\ Apply(Head(conns[1].lines))
           /\ \E r \in Connection : /\ conns' = [conns EXCEPT ![1] = r]
                                    /\ r.lines = Tail(conns[1].lines)
<1>. DEFINE line == Head(Head(conns).lines)
            asked == line.m = "poll"
            r == [conns[1] EXCEPT !.lines = Tail(@), !.reply = @ \/ asked]
<1>1. serving /\ Head(conns).lines # <<>>
  BY DEF HandleLine
<1>2. Head(conns) = conns[1] /\ conns[1] \in Connection /\ conns # <<>>
  BY <1>1, OldestThere
<1>3. conns' = [conns EXCEPT ![1] = r]
  BY <1>1, OldestThere DEF HandleLine
<1>4. asked \in BOOLEAN
  BY Zenon
<1>5. r \in Connection /\ r.lines = Tail(conns[1].lines)
  <2>. HIDE DEF asked
  <2>. QED
    BY <1>1, <1>2, <1>4, LineTaken
<1>6. conns[1].lines \in Seq(Message)
  BY <1>2 DEF Connection
<1>7. Head(conns[1].lines) \in Message
  BY <1>1, <1>2, <1>6, OneLess
<1>8. Apply(Head(conns[1].lines))
  BY <1>2 DEF HandleLine
<1>. HIDE DEF r
<1>. QED
  BY <1>1, <1>2, <1>3, <1>5, <1>7, <1>8

LEMMA RepliedIs ==
    ASSUME TypeInv, ReadReply
    PROVE  \/ UNCHANGED conns
           \/ \E r \in Connection : /\ conns' = [conns EXCEPT ![Len(conns)] = r]
                                    /\ r.lines = conns[Len(conns)].lines
                                    /\ link = "up"
<1>. DEFINE r == [conns[Len(conns)] EXCEPT !.reply = FALSE]
<1>1. CASE link = "up" /\ conns' = [conns EXCEPT ![Len(conns)] = r]
  <2>1. r \in Connection /\ r.lines = conns[Len(conns)].lines
    BY <1>1, NewestThere, ReplyTaken
  <2>. HIDE DEF r
  <2>. QED
    BY <1>1, <2>1
<1>2. CASE UNCHANGED conns
  BY <1>2
<1>. QED
  BY <1>1, <1>2 DEF ReadReply

LEMMA TimedOutIs ==
    ASSUME TypeInv, ReplyTimesOut
    PROVE  /\ link = "up" /\ link' = "none"
           /\ \E r \in Connection : \E kept \in 0 .. Len(conns[Len(conns)].lines) :
                  /\ conns' = [conns EXCEPT ![Len(conns)] = r]
                  /\ r.lines = SubSeq(conns[Len(conns)].lines, 1, kept)
<1>1. link = "up" /\ link' = "none"
  BY DEF ReplyTimesOut
<1>2. PICK kept \in 0 .. Len(Last(conns).lines) :
          conns' = [conns EXCEPT ![Len(conns)].lines = SubSeq(@, 1, kept),
                                 ![Len(conns)].eof = TRUE]
  BY DEF ReplyTimesOut
<1>. DEFINE r == [conns[Len(conns)] EXCEPT !.lines = SubSeq(@, 1, kept), !.eof = TRUE]
<1>3. conns' = [conns EXCEPT ![Len(conns)] = r]
  BY <1>2
<1>4. r \in Connection /\ r.lines = SubSeq(conns[Len(conns)].lines, 1, kept)
  BY <1>1, <1>2, NewestThere, ClosedShort
<1>5. kept \in 0 .. Len(conns[Len(conns)].lines)
  BY <1>1, <1>2, NewestThere
<1>. HIDE DEF r
<1>. QED
  BY <1>1, <1>3, <1>4, <1>5

LEMMA LinkOKStep == TypeInv /\ [Next]_vars => LinkOK'
<1>. SUFFICES ASSUME TypeInv, [Next]_vars PROVE LinkOK'
  OBVIOUS
<1>. DEFINE Keeps == /\ cooldown' \in BOOLEAN
                    /\ listening' \in BOOLEAN /\ serving' \in BOOLEAN
            Conns == conns' \in Seq(Connection) /\ Len(conns') <= MaxConns
            Socket == link' \in {"none", "up", "broken", "reset"}
<1>0. LinkOK /\ MaxConns \in Nat \ {0} /\ Len(conns) \in Nat
  BY FeedLinkAssumption DEF TypeInv, LinkOK
<1>1. ASSUME Keeps, Conns, Socket PROVE LinkOK'
  BY <1>1, Zenon DEF LinkOK
<1>2. ASSUME UNCHANGED conns PROVE Conns
  BY <1>0, <1>2 DEF LinkOK
<1>3. ASSUME NEW k \in 1 .. Len(conns), NEW r \in Connection,
             conns' = [conns EXCEPT ![k] = r]
      PROVE  Conns
  <2>1. /\ [conns EXCEPT ![k] = r] \in Seq(Connection)
        /\ Len([conns EXCEPT ![k] = r]) = Len(conns)
    BY <1>0, ConnectionKept DEF LinkOK
  <2>. QED
    BY <1>0, <1>3, <2>1 DEF LinkOK
<1>4. ASSUME NEW msg, NEW rows, NEW u, NEW cont, Send(msg, rows, u, cont),
             UNCHANGED serverVars
      PROVE  LinkOK'
  <2>1. CASE UNCHANGED <<link, conns>> /\ cooldown' \in {cooldown, TRUE}
    <3>1. Conns /\ Socket
      BY <1>0, <1>2, <2>1 DEF LinkOK
    <3>2. Keeps
      BY <1>0, <1>4, <2>1, Zenon DEF LinkOK, serverVars
    <3>. QED
      BY <1>1, <3>1, <3>2
  <2>2. CASE Reachable /\ link' = "up" /\ cooldown' = TRUE /\ conns' = Attach(conns)
    <3>1. Conns /\ Socket
      BY <1>0, <2>2, AttachType DEF LinkOK, Reachable
    <3>2. Keeps
      BY <1>0, <1>4, <2>2, Zenon DEF LinkOK, serverVars
    <3>. QED
      BY <1>1, <3>1, <3>2
  <2>. QED
    BY <1>4, <2>1, <2>2, SendConnects
<1>5. CASE SetUniverse \/ PublishHistory \/ Poll
  <2>1. UNCHANGED serverVars
    BY <1>5 DEF SetUniverse, PublishHistory, Poll, terminalSide, serverVars
  <2>2. \E msg, u, cont : Send(msg, lastQuotes, u, cont)
    BY <1>5, Zenon DEF SetUniverse, PublishHistory, Poll
  <2>. QED
    BY <1>4, <2>1, <2>2
<1>6. CASE FlushTrades \/ FlushQuotes
  <2>1. UNCHANGED serverVars
    BY <1>6 DEF FlushTrades, FlushQuotes, terminalSide, serverVars
  <2>2. \/ UNCHANGED <<link, cooldown, conns>>
        \/ \E msg, rows, u, cont : Send(msg, rows, u, cont)
    BY <1>6, Zenon DEF FlushTrades, FlushQuotes, socketVars
  <2>3. CASE UNCHANGED <<link, cooldown, conns>>
    <3>1. UNCHANGED <<link, cooldown, conns, listening, serving>>
      BY <2>1, <2>3 DEF serverVars
    <3>. QED
      BY <1>0, <3>1, Zenon DEF LinkOK
  <2>. QED
    BY <1>4, <2>1, <2>2, <2>3
<1>7. CASE (\E s \in Symbols : EmitQuote(s)) \/ EmitTrade \/ EmitLastMatch \/ FlushTimer \/ UNCHANGED vars
  <2>1. UNCHANGED <<link, cooldown, conns, listening, serving>>
    BY <1>7 DEF EmitQuote, EmitTrade, EmitLastMatch, FlushTimer, vars, socketVars, terminalSide, serverVars
  <2>. QED
    BY <1>0, <2>1, Zenon DEF LinkOK
<1>8. CASE WriteLost \/ WriteFails \/ ReplyFails
  <2>1. /\ UNCHANGED <<cooldown, conns, listening, serving>> /\ link' \in {"reset", "none"}
    BY <1>8 DEF WriteLost, WriteFails, ReplyFails, terminalSide, serverVars
  <2>2. Socket
    BY <2>1
  <2>. QED
    BY <1>0, <2>1, <2>2, Zenon DEF LinkOK
<1>9. CASE RetryDue \/ StartTerminal \/ Accept
  <2>1. UNCHANGED <<conns, link>>
    BY <1>9 DEF RetryDue, StartTerminal, Accept, socketVars
  <2>2. Keeps
    <3>1. CASE RetryDue
      BY <1>0, <3>1, Zenon DEF RetryDue, terminalSide, serverVars, LinkOK
    <3>2. CASE StartTerminal
      BY <1>0, <3>2, Zenon DEF StartTerminal, socketVars, LinkOK
    <3>3. CASE Accept
      BY <1>0, <3>3, Zenon DEF Accept, socketVars, LinkOK
    <3>. QED
      BY <1>9, <3>1, <3>2, <3>3
  <2>. QED
    BY <1>0, <2>1, <2>2, Zenon DEF LinkOK
<1>10. CASE WriteDelivered
  <2>1. UNCHANGED <<link, cooldown, listening, serving>> /\ link = "up"
    BY <1>10 DEF WriteDelivered, socketVars, terminalSide, serverVars
  <2>2. Conns
    BY <1>3, <1>10, <2>1, DeliveredIs, NewestThere
  <2>. QED
    BY <1>0, <2>1, <2>2, Zenon DEF LinkOK
<1>11. CASE HandleLine
  <2>1. UNCHANGED <<link, cooldown, listening, serving>> /\ serving
    BY <1>11 DEF HandleLine, socketVars, serverVars
  <2>2. Conns
    BY <1>3, <1>11, <2>1, HandledIs, OldestThere
  <2>. QED
    BY <1>0, <2>1, <2>2, Zenon DEF LinkOK
<1>12. CASE ReadReply
  <2>1. UNCHANGED <<link, cooldown, listening, serving>>
    BY <1>12 DEF ReadReply, socketVars, terminalSide, serverVars
  <2>2. Conns
    BY <1>2, <1>3, <1>12, RepliedIs, NewestThere
  <2>. QED
    BY <1>0, <2>1, <2>2, Zenon DEF LinkOK
<1>13. CASE ReplyTimesOut
  <2>1. UNCHANGED <<cooldown, listening, serving>>
    BY <1>13 DEF ReplyTimesOut, serverVars
  <2>2. Conns /\ Socket
    BY <1>3, <1>13, TimedOutIs, NewestThere
  <2>. QED
    BY <1>0, <2>1, <2>2, Zenon DEF LinkOK
<1>14. CASE StopTerminal
  <2>1. Conns /\ Socket
    BY <1>0, <1>14 DEF StopTerminal, LinkOK
  <2>2. Keeps
    BY <1>0, <1>14, Zenon DEF StopTerminal, LinkOK
  <2>. QED
    BY <1>1, <2>1, <2>2
<1>15. CASE PeerClosed
  <2>1. UNCHANGED <<link, cooldown, listening>> /\ serving /\ serving' = FALSE
        /\ conns' = Tail(conns)
    BY <1>15 DEF PeerClosed, socketVars
  <2>2. Conns
    <3>1. conns # <<>>
      BY <2>1, OldestThere
    <3>2. Tail(conns) \in Seq(Connection) /\ Len(Tail(conns)) = Len(conns) - 1
      BY <1>0, <3>1, OneLess DEF LinkOK
    <3>. QED
      BY <1>0, <2>1, <3>2 DEF LinkOK
  <2>3. Keeps
    BY <1>0, <2>1, Zenon DEF LinkOK
  <2>. QED
    BY <1>0, <2>1, <2>2, <2>3, Zenon DEF LinkOK
<1>. QED
  BY <1>5, <1>6, <1>7, <1>8, <1>9, <1>10, <1>11, <1>12, <1>13, <1>14, <1>15 DEF Next

-----------------------------------------------------------------------------
(* Charts.                                                                 *)

\* How many points in front a chart that is full drops.
Dropped(series) == IF Len(series) > MaxTape THEN Len(series) - MaxTape ELSE 0

LEMMA CappedIs ==
    ASSUME NEW D, NEW series \in Seq(D)
    PROVE  /\ Dropped(series) \in 0 .. Len(series)
           /\ Capped(series) \in Seq(D)
           /\ Len(Capped(series)) = Len(series) - Dropped(series)
           /\ Len(Capped(series)) <= MaxTape
           /\ \A i \in 1 .. Len(Capped(series)) :
                  /\ i + Dropped(series) \in 1 .. Len(series)
                  /\ Capped(series)[i] = series[i + Dropped(series)]
<1>. DEFINE n == Len(series)
            d == Dropped(series)
<1>1. n \in Nat /\ MaxTape \in Nat \ {0}
  BY FeedLinkAssumption
<1>2. d \in 0 .. n /\ n - d <= MaxTape
  BY <1>1 DEF Dropped
<1>3. Capped(series) = SubSeq(series, 1 + d, n)
  BY DEF Capped, Dropped
<1>. HIDE DEF d
<1>4. /\ SubSeq(series, 1 + d, n) \in Seq(D)
      /\ Len(SubSeq(series, 1 + d, n)) = n - d
      /\ \A i \in 1 .. n - d : SubSeq(series, 1 + d, n)[i] = series[i + d]
  BY <1>1, <1>2
<1>5. \A i \in 1 .. n - d : i + d \in 1 .. n
  BY <1>1, <1>2
<1>. QED
  BY <1>1, <1>2, <1>3, <1>4, <1>5 DEF d

LEMMA StoreStep == TypeInv /\ [Next]_vars => StoreOK'
<1>. SUFFICES ASSUME TypeInv, [Next]_vars PROVE StoreOK'
  OBVIOUS
<1>1. StoreOK /\ MaxUniverses \in Nat /\ MaxTape \in Nat \ {0} /\ tape \in Seq(Times)
  BY FeedLinkAssumption DEF TypeInv, StoreOK
<1>2. CASE StartTerminal
  <2>1. NoQuotes \in Rows
    BY FeedLinkAssumption DEF NoQuotes, Rows
  <2>. QED
    BY <1>1, <1>2, <2>1 DEF StartTerminal, StoreOK
<1>3. CASE HandleLine
  <2>. DEFINE line == Head(conns[1].lines)
  <2>1. line \in Message /\ Apply(line)
    BY <1>3, HandledIs
  <2>. HIDE DEF line
  <2>2. line.m = "quotes" => line.rows \in Rows
    BY <2>1 DEF Message
  <2>3. line.m \in {"trades", "history"} => line.list \in Seq(Times)
    BY <2>1 DEF Message
  <2>4. line.m = "universe" => line.version \in 1 .. MaxUniverses
    BY <2>1 DEF Message
  <2>5. storeQuotes' \in Rows
    BY <1>1, <2>1, <2>2, OverlayType DEF Apply, StoreOK
  <2>6. storeUniverse' \in 0 .. MaxUniverses
    BY <1>1, <2>1, <2>4 DEF Apply, StoreOK
  <2>7. tape' \in Seq(Times) /\ Len(tape') <= MaxTape
    <3>1. CASE line.m = "trades"
      <4>1. tape' = Capped(tape \o line.list)
        BY <2>1, <3>1 DEF Apply
      <4>2. tape \o line.list \in Seq(Times)
        BY <1>1, <2>3, <3>1
      <4>. QED
        BY <4>1, <4>2, CappedIs
    <3>2. CASE line.m = "history"
      <4>. DEFINE S == {t \in Range(line.list) : tape = <<>> \/ t < Head(tape)}
                  k == Kept(line.list, S)
      <4>1. tape' = Capped(k \o tape)
        BY <2>1, <3>2 DEF Apply, Backfill
      <4>2. k \in Seq(Times)
        BY <2>3, <3>2, KeptIs
      <4>. HIDE DEF k
      <4>3. k \o tape \in Seq(Times)
        BY <1>1, <4>2
      <4>. QED
        BY <4>1, <4>3, CappedIs
    <3>3. CASE line.m \notin {"trades", "history"}
      BY <1>1, <2>1, <3>3 DEF Apply, StoreOK
    <3>. QED
      BY <3>1, <3>2, <3>3
  <2>. QED
    BY <2>5, <2>6, <2>7 DEF StoreOK
<1>4. CASE ~(StartTerminal \/ HandleLine)
  <2>1. UNCHANGED storeVars
    BY <1>4 DEF Next, vars, terminalSide, storeVars, EmitQuote, EmitTrade, EmitLastMatch, SetUniverse,
                PublishHistory, FlushTimer, FlushTrades, FlushQuotes, Poll,
                WriteDelivered, WriteLost, WriteFails, RetryDue, ReadReply, ReplyFails,
                ReplyTimesOut, StopTerminal, Accept, PeerClosed
  <2>. QED
    BY <1>1, <2>1 DEF storeVars, StoreOK
<1>. QED
  BY <1>2, <1>3, <1>4

LEMMA TypeStep == TypeInv /\ [Next]_vars => TypeInv'
<1>. SUFFICES ASSUME TypeInv, [Next]_vars PROVE TypeInv'
  OBVIOUS
<1>1. LinkInv'
  BY LinkStep DEF TypeInv
<1>. QED
  BY <1>1, ExchangeStep, CacheStep, BoundStep, CallStep, BuffersStep, LinkOKStep,
     StoreStep, Zenon DEF TypeInv

\* The values the state ranges over, for any bounds.  The buffers in particular
\* stay within max_buffer but for one quote for each stop of the terminal, with
\* or without a terminal to take them (base.py:92-129, publisher.py:69-87).
THEOREM FeedTypesHold == Spec => []TypeOK
BY TypeInit, TypeStep, TypeInvSays, PTL DEF Spec
=============================================================================
