--------------------------- MODULE AccountProofs ---------------------------
(***************************************************************************)
(* The account in money: for every set of symbols, quotes and signals and  *)
(* any number of orders, cash and positions are what the log of fills adds *)
(* up to, the closed rows are the round trips in that log, and PnL is the  *)
(* same figure whichever way it is summed.                                 *)
(*                                                                         *)
(* Each identity is a sum over the log or over the symbols.  A trade adds  *)
(* one entry to the log and changes one position, so with the lemmas of    *)
(* SumLemmas each sum moves by one term, and the term is what TradeEffect  *)
(* says of the trade.                                                      *)
(***************************************************************************)
EXTENDS OrderManagerProofs, SumLemmas

-----------------------------------------------------------------------------
(* The log of fills.                                                       *)

QtysOf(log) == [j \in DOMAIN log |-> SignedQty(log[j].side, log[j].qty)]

MoneyOf(log) == [j \in DOMAIN log |-> QtysOf(log)[j] * log[j].price]

FillsOf(log, k, s) == {j \in 1 .. k : log[j].symbol = s}

NetOf(log, k, s) == SumFunctionOnSet(QtysOf(log), FillsOf(log, k, s))

LogExplains ==
    /\ cash = InitialCapital - SumFunctionOnSet(MoneyOf(fills), DOMAIN fills)
    /\ \A s \in Symbols : position[s].net = NetOf(fills, Len(fills), s)

LEMMA LogIs ==
    /\ \A k, s : NetAfter(k, s) = NetOf(fills, k, s)
    /\ FillsExplainAccount <=> LogExplains
<1>1. SignedQtys = QtysOf(fills)
  BY DEF SignedQtys, QtysOf
<1>2. \A k, s : NetAfter(k, s) = NetOf(fills, k, s)
  BY <1>1 DEF NetAfter, NetOf, FillsOf
<1>3. SumFunction([j \in DOMAIN fills |-> SignedQtys[j] * fills[j].price])
        = SumFunctionOnSet(MoneyOf(fills), DOMAIN fills)
  BY <1>1 DEF SumFunction, MoneyOf
<1>. QED
  BY <1>2, <1>3, Zenon DEF FillsExplainAccount, LogExplains, NetQty

LEMMA LogValues ==
    ASSUME NEW log \in Seq(Fill)
    PROVE  /\ Len(log) \in Nat /\ DOMAIN log = 1 .. Len(log)
           /\ \A j \in 1 .. Len(log) : /\ log[j] \in Fill
                                       /\ QtysOf(log)[j] \in Int
                                       /\ MoneyOf(log)[j] \in Int
           /\ \A j \in 1 .. Len(log) :
                 /\ QtysOf(log)[j] = SignedQty(log[j].side, log[j].qty)
                 /\ MoneyOf(log)[j] = QtysOf(log)[j] * log[j].price
<1>1. Len(log) \in Nat /\ DOMAIN log = 1 .. Len(log)
  OBVIOUS
<1>2. ASSUME NEW j \in 1 .. Len(log)
      PROVE  /\ log[j] \in Fill
             /\ QtysOf(log)[j] = SignedQty(log[j].side, log[j].qty)
             /\ MoneyOf(log)[j] = QtysOf(log)[j] * log[j].price
             /\ QtysOf(log)[j] \in Int /\ MoneyOf(log)[j] \in Int
  <2>1. log[j] \in Fill
    OBVIOUS
  <2>2. QtysOf(log)[j] = SignedQty(log[j].side, log[j].qty)
    BY <1>1 DEF QtysOf
  <2>3. MoneyOf(log)[j] = QtysOf(log)[j] * log[j].price
    BY <1>1 DEF MoneyOf
  <2>4. SignedQty(log[j].side, log[j].qty) \in Int /\ log[j].price \in Int
    BY <2>1 DEF SignedQty, Fill
  <2>. QED
    BY <2>1, <2>2, <2>3, <2>4
<1>. QED
  BY <1>1, <1>2

LEMMA FillsOfLog ==
    ASSUME NEW log \in Seq(Fill), NEW k \in 0 .. Len(log), NEW s
    PROVE  /\ IsFiniteSet(FillsOf(log, k, s))
           /\ Values(QtysOf(log), FillsOf(log, k, s))
<1>1. FillsOf(log, k, s) \in SUBSET (1 .. k)
  BY DEF FillsOf
<1>2. IsFiniteSet(1 .. k)
  BY FS_Interval
<1>. QED
  BY <1>1, <1>2, FS_Subset, LogValues DEF Values

\* Appending a fill leaves the sums over the earlier ones as they were.
LEMMA LogAppended ==
    ASSUME NEW log \in Seq(Fill), NEW f \in Fill, NEW s
    PROVE  LET n == Len(log)
               after == Append(log, f)
               sq == SignedQty(f.side, f.qty)
           IN  /\ \A k \in 0 .. n : NetOf(after, k, s) = NetOf(log, k, s)
               /\ NetOf(log, n, s) \in Int
               /\ NetOf(after, n + 1, s)
                     = NetOf(log, n, s) + IF f.symbol = s THEN sq ELSE 0
               /\ SumFunctionOnSet(MoneyOf(log), DOMAIN log) \in Int
               /\ SumFunctionOnSet(MoneyOf(after), DOMAIN after)
                     = SumFunctionOnSet(MoneyOf(log), DOMAIN log) + sq * f.price
<1>. DEFINE n == Len(log)
            after == Append(log, f)
            sq == SignedQty(f.side, f.qty)
<1>1. /\ n \in Nat /\ Len(after) = n + 1 /\ after \in Seq(Fill)
      /\ after[n + 1] = f /\ \A j \in 1 .. n : after[j] = log[j]
  OBVIOUS
<1>. HIDE DEF n, after
<1>2. /\ DOMAIN log = 1 .. n /\ DOMAIN after = 1 .. n + 1
      /\ \A j \in 1 .. n : /\ QtysOf(after)[j] = QtysOf(log)[j]
                           /\ MoneyOf(after)[j] = MoneyOf(log)[j]
      /\ QtysOf(after)[n + 1] = sq /\ MoneyOf(after)[n + 1] = sq * f.price
  <2>1. /\ DOMAIN log = 1 .. n
        /\ \A j \in 1 .. n :
              /\ QtysOf(log)[j] = SignedQty(log[j].side, log[j].qty)
              /\ MoneyOf(log)[j] = QtysOf(log)[j] * log[j].price
    BY LogValues DEF n
  <2>2. /\ DOMAIN after = 1 .. n + 1
        /\ \A j \in 1 .. n + 1 :
              /\ QtysOf(after)[j] = SignedQty(after[j].side, after[j].qty)
              /\ MoneyOf(after)[j] = QtysOf(after)[j] * after[j].price
    BY <1>1, LogValues
  <2>3. \A j \in 1 .. n : j \in 1 .. n + 1
    BY <1>1
  <2>4. n + 1 \in 1 .. n + 1
    BY <1>1
  <2>. QED
    BY <1>1, <2>1, <2>2, <2>3, <2>4
<1>3. ASSUME NEW k \in 0 .. n
      PROVE  /\ FillsOf(after, k, s) = FillsOf(log, k, s)
             /\ NetOf(after, k, s) = NetOf(log, k, s)
             /\ NetOf(log, k, s) \in Int
  <2>1. FillsOf(after, k, s) = FillsOf(log, k, s)
    BY <1>1 DEF FillsOf
  <2>2. IsFiniteSet(FillsOf(log, k, s)) /\ Values(QtysOf(log), FillsOf(log, k, s))
    BY FillsOfLog DEF n
  <2>3. \A j \in FillsOf(log, k, s) : QtysOf(log)[j] = QtysOf(after)[j]
    BY <1>1, <1>2 DEF FillsOf
  <2>4. /\ SumFunctionOnSet(QtysOf(log), FillsOf(log, k, s))
             = SumFunctionOnSet(QtysOf(after), FillsOf(log, k, s))
        /\ SumFunctionOnSet(QtysOf(log), FillsOf(log, k, s)) \in Int
    BY <2>2, <2>3, SumAgrees, SumType
  <2>. QED
    BY <2>1, <2>4 DEF NetOf
<1>4. NetOf(after, n + 1, s) = NetOf(log, n, s) + IF f.symbol = s THEN sq ELSE 0
  <2>1. /\ IsFiniteSet(FillsOf(after, n, s))
        /\ Values(QtysOf(after), FillsOf(after, n + 1, s))
    BY <1>1, FillsOfLog
  <2>2. CASE f.symbol = s
    <3>1. FillsOf(after, n + 1, s) = FillsOf(after, n, s) \cup {n + 1}
      BY <1>1, <2>2 DEF FillsOf
    <3>2. n + 1 \notin FillsOf(after, n, s)
      BY <1>1 DEF FillsOf
    <3>3. NetOf(after, n + 1, s) = NetOf(after, n, s) + sq
      <4>1. Values(QtysOf(after), FillsOf(after, n, s) \cup {n + 1})
        BY <2>1, <3>1
      <4>2. SumFunctionOnSet(QtysOf(after), FillsOf(after, n, s) \cup {n + 1})
              = SumFunctionOnSet(QtysOf(after), FillsOf(after, n, s))
                + QtysOf(after)[n + 1]
        BY <2>1, <3>2, <4>1, SumAdded
      <4>. QED
        BY <1>2, <3>1, <4>2 DEF NetOf
    <3>. QED
      BY <1>1, <1>3, <2>2, <3>3
  <2>3. CASE f.symbol # s
    <3>1. FillsOf(after, n + 1, s) = FillsOf(after, n, s)
      BY <1>1, <2>3 DEF FillsOf
    <3>2. NetOf(after, n, s) = NetOf(log, n, s) /\ NetOf(log, n, s) \in Int
      BY <1>1, <1>3
    <3>. QED
      BY <2>3, <3>1, <3>2 DEF NetOf
  <2>. QED
    BY <2>2, <2>3
<1>5. /\ SumFunctionOnSet(MoneyOf(log), DOMAIN log) \in Int
      /\ SumFunctionOnSet(MoneyOf(after), DOMAIN after)
           = SumFunctionOnSet(MoneyOf(log), DOMAIN log) + sq * f.price
  <2>1. IsFiniteSet(1 .. n) /\ n + 1 \notin 1 .. n /\ 1 .. n + 1 = (1 .. n) \cup {n + 1}
    <3>1. n + 1 \notin 1 .. n /\ 1 .. n + 1 = (1 .. n) \cup {n + 1}
      BY <1>1
    <3>2. IsFiniteSet(1 .. n)
      BY <1>1, FS_Interval
    <3>. QED
      BY <3>1, <3>2
  <2>2. Values(MoneyOf(log), 1 .. n) /\ Values(MoneyOf(after), 1 .. n + 1)
    BY <1>1, LogValues DEF Values, n
  <2>3. SumFunctionOnSet(MoneyOf(after), 1 .. n + 1)
          = SumFunctionOnSet(MoneyOf(after), 1 .. n) + sq * f.price
    <3>1. Values(MoneyOf(after), (1 .. n) \cup {n + 1})
      BY <2>1, <2>2
    <3>2. SumFunctionOnSet(MoneyOf(after), (1 .. n) \cup {n + 1})
            = SumFunctionOnSet(MoneyOf(after), 1 .. n) + MoneyOf(after)[n + 1]
      BY <2>1, <3>1, SumAdded
    <3>. QED
      BY <1>2, <2>1, <3>2
  <2>4. SumFunctionOnSet(MoneyOf(after), 1 .. n) = SumFunctionOnSet(MoneyOf(log), 1 .. n)
    BY <1>2, <2>1, <2>2, SumAgrees
  <2>. QED
    BY <1>2, <2>1, <2>2, <2>3, <2>4, SumType
<1>. QED
  BY <1>1, <1>3, <1>4, <1>5 DEF n, after

-----------------------------------------------------------------------------
(* The account is what its fills say.                                      *)

LEMMA ExplainedInit == Init => FillsExplainAccount
<1>. SUFFICES ASSUME Init PROVE FillsExplainAccount
  OBVIOUS
<1>1. fills = <<>> /\ cash = InitialCapital /\ \A s \in Symbols : position[s].net = 0
  BY DEF Init, PortfolioInit, Flat
<1>2. DOMAIN fills = {} /\ \A s : FillsOf(fills, Len(fills), s) = {}
  BY <1>1 DEF FillsOf
<1>3. SumFunctionOnSet(MoneyOf(fills), DOMAIN fills) = 0
  BY <1>2, SumOfNone
<1>4. \A s \in Symbols : NetOf(fills, Len(fills), s) = 0
  BY <1>2, SumOfNone DEF NetOf
<1>5. InitialCapital - 0 = InitialCapital
  BY CapitalAssumption
<1>. QED
  BY <1>1, <1>3, <1>4, <1>5, LogIs DEF LogExplains

LEMMA ExplainedStep ==
    TypeOK /\ FillsExplainAccount /\ [Next]_vars => FillsExplainAccount'
<1>. SUFFICES ASSUME TypeOK, FillsExplainAccount, [Next]_vars
              PROVE  FillsExplainAccount'
  OBVIOUS
<1>1. CASE UNCHANGED <<cash, position, fills>>
  BY <1>1, Zenon DEF FillsExplainAccount, SignedQtys, NetAfter, NetQty
<1>2. ASSUME NEW sig \in Signal, NEW quote \in Books, Trade(sig, quote)
      PROVE  FillsExplainAccount'
  <2>. DEFINE f == TradeFill(sig, quote)
              s == sig.symbol
              sq == SignedQty(sig.side, sig.qty)
              price == Touch(quote, sig.side)
  <2>1. /\ fills \in Seq(Fill) /\ f \in Fill /\ fills' = Append(fills, f)
        /\ cash \in Int /\ s \in Symbols /\ sq \in Int /\ price \in Nat
        /\ cash' = cash - sq * price
        /\ position'[s].net = position[s].net + sq
        /\ \A t \in Symbols \ {s} : position'[t] = position[t]
    BY <1>2, TradeEffect DEF TypeOK, Trade
  <2>2. f.symbol = s /\ SignedQty(f.side, f.qty) = sq /\ f.price = price
    BY DEF TradeFill
  <2>3. sq * price \in Int
    BY <2>1
  <2>. HIDE DEF f, s, sq, price
  <2>4. /\ cash = InitialCapital - SumFunctionOnSet(MoneyOf(fills), DOMAIN fills)
        /\ \A t \in Symbols : position[t].net = NetOf(fills, Len(fills), t)
    BY LogIs DEF LogExplains
  <2>5. Len(fills') = Len(fills) + 1
    BY <2>1
  <2>6. cash' = InitialCapital - SumFunctionOnSet(MoneyOf(fills'), DOMAIN fills')
    <3>1. /\ SumFunctionOnSet(MoneyOf(fills), DOMAIN fills) \in Int
          /\ SumFunctionOnSet(MoneyOf(fills'), DOMAIN fills')
               = SumFunctionOnSet(MoneyOf(fills), DOMAIN fills) + sq * price
      BY <2>1, <2>2, LogAppended
    <3>2. InitialCapital \in Int
      BY CapitalAssumption
    <3>. QED
      BY <2>1, <2>3, <2>4, <3>1, <3>2
  <2>7. ASSUME NEW t \in Symbols
        PROVE  position'[t].net = NetOf(fills', Len(fills'), t)
    <3>1. /\ NetOf(fills, Len(fills), t) \in Int
          /\ NetOf(fills', Len(fills'), t)
               = NetOf(fills, Len(fills), t) + IF s = t THEN sq ELSE 0
      BY <2>1, <2>2, <2>5, LogAppended
    <3>2. CASE t = s
      BY <2>1, <2>4, <3>1, <3>2
    <3>3. CASE t # s
      BY <2>1, <2>4, <3>1, <3>3
    <3>. QED
      BY <3>2, <3>3
  <2>8. LogExplains'
    BY <2>6, <2>7 DEF LogExplains
  <2>9. (FillsExplainAccount <=> LogExplains)'
    BY LogIs, PTL
  <2>. QED
    BY <2>8, <2>9
<1>3. Kill \/ UNCHANGED vars => UNCHANGED <<cash, position, fills>>
  BY DEF Kill, vars, portfolioVars, orderVars
<1>4. ASSUME NEW o, NoTrade(o) PROVE UNCHANGED <<cash, position, fills>>
  BY <1>4 DEF NoTrade
<1>. QED
  BY <1>1, <1>2, <1>3, <1>4, StepCases

\* Replaying the fills from the funded account gives the cash and every position.
THEOREM FillsExplain == Spec => []FillsExplainAccount
BY ExplainedInit, ExplainedStep, TypeCorrect, PTL DEF Spec

-----------------------------------------------------------------------------
(* The closed rows.                                                        *)

\* Whether a trade ends a round trip, and the row it then adds.
LEMMA TradeCloses ==
    ASSUME TypeOK, NEW sig \in Signal, NEW quote \in Books, Trade(sig, quote)
    PROVE  LET s == sig.symbol IN
           IF position[s].net # 0 /\ position'[s].net = 0
           THEN \E row \in ClosedPosition :
                   /\ row.symbol = s /\ row.fill = Len(fills) + 1
                   /\ closed' = Append(closed, row)
           ELSE closed' = closed
<1>. DEFINE s == sig.symbol
            f == TradeFill(sig, quote)
            before == position[s]
            after == PositionApply(before, f)
            row == RoundTrip(f, Len(fills) + 1, before, after)
<1>1. f.symbol = s /\ s \in Symbols
  BY DEF TradeFill, Signal
<1>2. /\ position' = [position EXCEPT ![s] = after]
      /\ closed' = IF EndsRoundTrip(before, after) THEN Append(closed, row) ELSE closed
  BY <1>1, Zenon DEF Trade, ApplyFill
<1>3. position'[s] = after
  BY <1>1, <1>2 DEF TypeOK
<1>4. row.symbol = s /\ row.fill = Len(fills) + 1
  BY <1>1 DEF RoundTrip
<1>5. closed \in Seq(ClosedPosition) /\ closed' \in Seq(ClosedPosition)
  BY TradeEffect DEF TypeOK
<1>. HIDE DEF s, after, before, row
<1>6. CASE EndsRoundTrip(before, after)
  <2>1. before.net # 0 /\ after.net = 0
    BY <1>6 DEF EndsRoundTrip
  <2>2. closed' = Append(closed, row)
    BY <1>2, <1>6
  <2>3. row \in ClosedPosition
    <3>1. closed'[Len(closed) + 1] = row /\ Len(closed) + 1 \in DOMAIN closed'
      BY <1>5, <2>2
    <3>. QED
      BY <1>5, <3>1
  <2>. QED
    BY <1>3, <1>4, <2>1, <2>2, <2>3 DEF s, before
<1>7. CASE ~EndsRoundTrip(before, after)
  BY <1>2, <1>3, <1>7 DEF EndsRoundTrip, s, before
<1>. QED
  BY <1>6, <1>7

\* Closed rows, read against a log: the numbers of the fills that went flat.
Flattening(log) == {k \in DOMAIN log : NetOf(log, k, log[k].symbol) = 0}

RowsMatch(rows, log) ==
    /\ {rows[i].fill : i \in DOMAIN rows} = Flattening(log)
    /\ \A i \in DOMAIN rows : rows[i].symbol = log[rows[i].fill].symbol
    /\ \A i, j \in DOMAIN rows : i < j => rows[i].fill < rows[j].fill

LEMMA RoundTripsAre == ClosedRowsAreRoundTrips <=> RowsMatch(closed, fills)
<1>1. {k \in DOMAIN fills : NetAfter(k, fills[k].symbol) = 0} = Flattening(fills)
  BY LogIs DEF Flattening
<1>. QED
  BY <1>1, Zenon DEF ClosedRowsAreRoundTrips, RowsMatch

LEMMA FlatteningAppended ==
    ASSUME NEW log \in Seq(Fill), NEW f \in Fill
    PROVE  LET n == Len(log)
               after == Append(log, f)
           IN  Flattening(after)
                  = Flattening(log) \cup
                    IF NetOf(log, n, f.symbol) + SignedQty(f.side, f.qty) = 0
                    THEN {n + 1} ELSE {}
<1>. DEFINE n == Len(log)
            after == Append(log, f)
<1>1. /\ n \in Nat /\ after[n + 1] = f /\ \A j \in 1 .. n : after[j] = log[j]
      /\ DOMAIN log = 1 .. n /\ DOMAIN after = 1 .. n + 1
  OBVIOUS
<1>2. /\ \A k \in 1 .. n : NetOf(after, k, log[k].symbol) = NetOf(log, k, log[k].symbol)
      /\ NetOf(after, n + 1, f.symbol)
           = NetOf(log, n, f.symbol) + SignedQty(f.side, f.qty)
  <2>1. \A k \in 1 .. n : k \in 0 .. Len(log)
    BY <1>1
  <2>. QED
    BY <2>1, LogAppended
<1>. HIDE DEF n, after
<1>3. \A k \in 1 .. n : k \in Flattening(after) <=> k \in Flattening(log)
  BY <1>1, <1>2 DEF Flattening
<1>4. n + 1 \in Flattening(after)
        <=> NetOf(log, n, f.symbol) + SignedQty(f.side, f.qty) = 0
  BY <1>1, <1>2 DEF Flattening
<1>5. Flattening(log) \subseteq 1 .. n /\ Flattening(after) \subseteq 1 .. n + 1
  BY <1>1 DEF Flattening
<1>. QED
  BY <1>1, <1>3, <1>4, <1>5 DEF n, after

LEMMA RoundTripsStep ==
    TypeOK /\ FillsExplainAccount /\ ClosedRowsAreRoundTrips /\ [Next]_vars
        => ClosedRowsAreRoundTrips'
<1>. SUFFICES ASSUME TypeOK, FillsExplainAccount, ClosedRowsAreRoundTrips, [Next]_vars
              PROVE  ClosedRowsAreRoundTrips'
  OBVIOUS
<1>1. CASE UNCHANGED <<closed, fills>>
  BY <1>1, Zenon DEF ClosedRowsAreRoundTrips, SignedQtys, NetAfter
<1>2. ASSUME NEW sig \in Signal, NEW quote \in Books, Trade(sig, quote)
      PROVE  ClosedRowsAreRoundTrips'
  <2>. DEFINE f == TradeFill(sig, quote)
              s == sig.symbol
              sq == SignedQty(sig.side, sig.qty)
              n == Len(fills)
  <2>1. /\ fills \in Seq(Fill) /\ f \in Fill /\ fills' = Append(fills, f)
        /\ s \in Symbols /\ sq \in Int /\ position[s].net \in Int
        /\ position'[s].net = position[s].net + sq
    BY <1>2, TradeEffect DEF TypeOK, Trade, Position
  <2>2. f.symbol = s /\ SignedQty(f.side, f.qty) = sq /\ sq # 0
    BY <1>2 DEF TradeFill, Trade, SignedQty, Signal
  <2>3. IF position[s].net # 0 /\ position'[s].net = 0
        THEN \E row \in ClosedPosition :
                /\ row.symbol = s /\ row.fill = n + 1
                /\ closed' = Append(closed, row)
        ELSE closed' = closed
    BY <1>2, TradeCloses
  <2>4. /\ n \in Nat /\ DOMAIN fills = 1 .. n /\ fills'[n + 1] = f
        /\ \A j \in 1 .. n : fills'[j] = fills[j]
    BY <2>1
  <2>5. closed \in Seq(ClosedPosition) /\ RowsMatch(closed, fills)
    BY RoundTripsAre DEF TypeOK
  <2>. HIDE DEF f, s, sq, n
  <2>6. position[s].net = NetOf(fills, n, s)
    BY <2>1, LogIs DEF LogExplains, n
  <2>7. Flattening(fills')
          = Flattening(fills) \cup IF position'[s].net = 0 THEN {n + 1} ELSE {}
    BY <2>1, <2>2, <2>6, FlatteningAppended DEF n
  <2>8. \A i \in DOMAIN closed : closed[i].fill \in 1 .. n
    BY <2>4, <2>5 DEF RowsMatch, Flattening
  <2>. SUFFICES RowsMatch(closed', fills')
    <3>1. (ClosedRowsAreRoundTrips <=> RowsMatch(closed, fills))'
      BY RoundTripsAre, PTL
    <3>. QED
      BY <3>1
  <2>9. CASE position'[s].net = 0
    <3>1. position[s].net # 0
      BY <2>1, <2>2, <2>9
    <3>2. PICK row \in ClosedPosition :
                 /\ row.symbol = s /\ row.fill = n + 1
                 /\ closed' = Append(closed, row)
      BY <2>3, <2>9, <3>1
    <3>. DEFINE m == Len(closed)
    <3>3. /\ m \in Nat /\ DOMAIN closed = 1 .. m /\ DOMAIN closed' = 1 .. m + 1
          /\ closed'[m + 1] = row /\ \A i \in 1 .. m : closed'[i] = closed[i]
      BY <2>5, <3>2
    <3>. HIDE DEF m
    <3>4. {closed'[i].fill : i \in DOMAIN closed'} = Flattening(fills')
      <4>1. {closed'[i].fill : i \in DOMAIN closed'}
              = {closed[i].fill : i \in DOMAIN closed} \cup {n + 1}
        BY <3>2, <3>3
      <4>. QED
        BY <2>5, <2>7, <2>9, <4>1 DEF RowsMatch
    <3>5. \A i \in DOMAIN closed' : closed'[i].symbol = fills'[closed'[i].fill].symbol
      BY <2>2, <2>4, <2>5, <2>8, <3>2, <3>3 DEF RowsMatch
    <3>6. \A i, j \in DOMAIN closed' : i < j => closed'[i].fill < closed'[j].fill
      <4>. SUFFICES ASSUME NEW i \in 1 .. m + 1, NEW j \in 1 .. m + 1, i < j
                    PROVE  closed'[i].fill < closed'[j].fill
        BY <3>3
      <4>1. i \in 1 .. m /\ closed'[i] = closed[i] /\ closed[i].fill \in 1 .. n
        BY <2>8, <3>3
      <4>2. CASE j = m + 1
        BY <2>4, <3>2, <3>3, <4>1, <4>2
      <4>3. CASE j # m + 1
        BY <2>5, <3>3, <4>1, <4>3 DEF RowsMatch
      <4>. QED
        BY <4>2, <4>3
    <3>. QED
      BY <3>4, <3>5, <3>6 DEF RowsMatch
  <2>10. CASE position'[s].net # 0
    <3>1. closed' = closed /\ Flattening(fills') = Flattening(fills)
      BY <2>3, <2>7, <2>10
    <3>2. \A i \in DOMAIN closed' : closed'[i].symbol = fills'[closed'[i].fill].symbol
      BY <2>4, <2>5, <2>8, <3>1 DEF RowsMatch
    <3>. QED
      BY <2>5, <3>1, <3>2, Zenon DEF RowsMatch
  <2>. QED
    BY <2>9, <2>10
<1>3. Kill \/ UNCHANGED vars => UNCHANGED <<closed, fills>>
  BY DEF Kill, vars, portfolioVars, orderVars
<1>4. ASSUME NEW o, NoTrade(o) PROVE UNCHANGED <<closed, fills>>
  BY <1>4 DEF NoTrade
<1>. QED
  BY <1>1, <1>2, <1>3, <1>4, StepCases

\* The closed table lists the fills that took a symbol from open to flat, each
\* once, in order, and nothing else.
THEOREM ClosedRowsCorrect == Spec => []ClosedRowsAreRoundTrips
<1>1. Init => ClosedRowsAreRoundTrips
  BY DEF Init, PortfolioInit, ClosedRowsAreRoundTrips
<1>. QED
  BY <1>1, RoundTripsStep, ExplainedInit, ExplainedStep, TypeCorrect, PTL DEF Spec

-----------------------------------------------------------------------------
(* Profit and loss.                                                        *)

\* What each symbol has brought in: realised, less what its open part cost.
Brought(p) == [s \in Symbols |-> p[s].realized - p[s].basis]

\* The money identity with the marks taken out: they are in both sums.
Balanced == cash = InitialCapital + SumFunctionOnSet(Brought(position), Symbols)

LEMMA BroughtValues ==
    ASSUME NEW p \in [Symbols -> Position]
    PROVE  Values(Brought(p), Symbols)
BY DEF Brought, Values, Position

LEMMA BalancedSays == TypeOK /\ Balanced => PnlAddsUp
<1>. SUFFICES ASSUME TypeOK, Balanced, NEW marks \in [Symbols -> Marks]
              PROVE  TotalPnl(marks) = Realized + Unrealized(marks)
  BY DEF PnlAddsUp
<1>. DEFINE worth == [s \in Symbols |-> position[s].net * marks[s]]
            real == [s \in Symbols |-> position[s].realized]
            unreal == [s \in Symbols |-> position[s].net * marks[s] - position[s].basis]
            both == [s \in Symbols |-> real[s] + unreal[s]]
            brought == Brought(position)
<1>1. \A s \in Symbols : /\ position[s].net \in Int /\ position[s].basis \in Int
                         /\ position[s].realized \in Int /\ marks[s] \in Int
  BY CapitalAssumption DEF TypeOK, Position
<1>2. \A s \in Symbols : position[s].net * marks[s] \in Int
  BY <1>1
<1>3. /\ Values(worth, Symbols) /\ Values(real, Symbols) /\ Values(unreal, Symbols)
      /\ Values(brought, Symbols)
  BY <1>1, <1>2 DEF Values, Brought
<1>4. /\ PositionsValue(marks) = SumFunctionOnSet(worth, Symbols)
      /\ Realized = SumFunctionOnSet(real, Symbols)
      /\ Unrealized(marks) = SumFunctionOnSet(unreal, Symbols)
  BY DEF PositionsValue, Realized, Unrealized, SumFunction, NetQty
<1>5. /\ \A s \in Symbols : both[s] = real[s] + unreal[s]
      /\ \A s \in Symbols : both[s] = worth[s] + brought[s]
  BY <1>1, <1>2 DEF Brought
<1>. HIDE DEF worth, real, unreal, both, brought
<1>6. SumFunctionOnSet(both, Symbols)
        = SumFunctionOnSet(real, Symbols) + SumFunctionOnSet(unreal, Symbols)
  BY <1>3, <1>5, SymbolsAssumption, SumOfSums
<1>7. SumFunctionOnSet(both, Symbols)
        = SumFunctionOnSet(worth, Symbols) + SumFunctionOnSet(brought, Symbols)
  BY <1>3, <1>5, SymbolsAssumption, SumOfSums
<1>8. /\ SumFunctionOnSet(worth, Symbols) \in Int
      /\ SumFunctionOnSet(brought, Symbols) \in Int
  BY <1>3, SymbolsAssumption, SumType
<1>9. TotalPnl(marks) = (cash + SumFunctionOnSet(worth, Symbols)) - InitialCapital
  BY <1>4 DEF TotalPnl, Equity
<1>10. cash = InitialCapital + SumFunctionOnSet(brought, Symbols)
  BY DEF Balanced, brought
<1>. QED
  BY <1>4, <1>6, <1>7, <1>8, <1>9, <1>10, CapitalAssumption

LEMMA BalancedInit == Init => Balanced
<1>. SUFFICES ASSUME Init PROVE Balanced
  OBVIOUS
<1>. DEFINE b == Brought(position)
<1>1. cash = InitialCapital /\ \A s \in Symbols : b[s] = 0
  BY DEF Init, PortfolioInit, Flat, Brought
<1>2. Values(b, Symbols) /\ \A s \in Symbols : b[s] = b[s] + b[s]
  BY <1>1 DEF Values
<1>. HIDE DEF b
<1>3. SumFunctionOnSet(b, Symbols) = SumFunctionOnSet(b, Symbols) + SumFunctionOnSet(b, Symbols)
  BY <1>2, SymbolsAssumption, SumOfSums
<1>4. SumFunctionOnSet(b, Symbols) \in Int
  BY <1>2, SymbolsAssumption, SumType
<1>5. SumFunctionOnSet(b, Symbols) = 0
  <2>1. \A n \in Int : n = n + n => n = 0
    OBVIOUS
  <2>. QED
    BY <1>3, <1>4, <2>1, Zenon
<1>. QED
  BY <1>1, <1>5, CapitalAssumption DEF Balanced, b

LEMMA BalancedStep == TypeOK /\ Balanced /\ [Next]_vars => Balanced'
<1>. SUFFICES ASSUME TypeOK, Balanced, [Next]_vars PROVE Balanced'
  OBVIOUS
<1>1. CASE UNCHANGED <<cash, position>>
  BY <1>1 DEF Balanced
<1>2. ASSUME NEW s \in Symbols, Conserves(s) PROVE Balanced'
  <2>. DEFINE b == Brought(position)
              a == Brought(position')
  <2>1. TypeOK'
    BY TypeStep
  <2>2. /\ position \in [Symbols -> Position] /\ position' \in [Symbols -> Position]
        /\ cash \in Int /\ cash' \in Int
    BY <2>1 DEF TypeOK
  <2>3. Values(b, Symbols) /\ Values(a, Symbols)
    BY <2>2, BroughtValues
  <2>4. \A t \in Symbols \ {s} : a[t] = b[t]
    BY <1>2 DEF Conserves, Brought
  <2>5. cash' - cash = a[s] - b[s]
    <3>1. /\ position[s].realized \in Int /\ position[s].basis \in Int
          /\ position'[s].realized \in Int /\ position'[s].basis \in Int
      BY <2>2 DEF Position
    <3>2. /\ b[s] = position[s].realized - position[s].basis
          /\ a[s] = position'[s].realized - position'[s].basis
      BY DEF Brought
    <3>. QED
      BY <1>2, <3>1, <3>2 DEF Conserves
  <2>6. a[s] \in Int /\ b[s] \in Int
    BY <2>3 DEF Values
  <2>. HIDE DEF a, b
  <2>7. SumFunctionOnSet(a, Symbols) = SumFunctionOnSet(b, Symbols) + (a[s] - b[s])
    BY <2>3, <2>4, <2>6, SymbolsAssumption, SumChanged
  <2>8. SumFunctionOnSet(b, Symbols) \in Int
    BY <2>3, SymbolsAssumption, SumType
  <2>9. cash = InitialCapital + SumFunctionOnSet(b, Symbols)
    BY DEF Balanced, b
  <2>10. cash' = InitialCapital + SumFunctionOnSet(a, Symbols)
    BY <2>2, <2>5, <2>6, <2>7, <2>8, <2>9, CapitalAssumption
  <2>. QED
    BY <2>10 DEF Balanced, a
<1>. QED
  BY <1>1, <1>2, ConservesStep

\* Whatever the marks, total PnL is realised plus unrealised PnL: the figures the
\* terminal shows agree after partial exits and flips.
THEOREM PnlIsConsistent == Spec => []PnlAddsUp
BY BalancedInit, BalancedStep, BalancedSays, TypeCorrect, PTL DEF Spec

-----------------------------------------------------------------------------
(* The average entry price.  Its numerator, the basis, is an integer here, *)
(* so an exit may round it, where the code divides doubles.                *)

LEMMA ExitReleases ==
    ASSUME NEW basis \in Int, NEW net \in Nat \ {0}, NEW sold \in 1 .. net
    PROVE  LET after == basis - (basis * sold) \div net
               rest  == after * net - basis * (net - sold)
           IN  0 <= rest /\ rest < net
<1>. DEFINE b == basis * sold
            q == b \div net
            r == b % net
<1>1. b \in Int
  OBVIOUS
<1>2. b = net * q + r /\ r \in 0 .. net - 1 /\ q \in Int
  <2>. HIDE DEF b
  <2>. QED
    BY <1>1
<1>3. basis * (net - sold) = basis * net - b
  OBVIOUS
<1>. HIDE DEF q, r
<1>4. (basis - q) * net = basis * net - net * q
  BY <1>2
<1>. DEFINE m == basis * net
            nq == net * q
<1>5. m \in Int /\ nq \in Int
  BY <1>2
<1>. HIDE DEF b, m, nq
<1>6. (basis - q) * net - basis * (net - sold) = b - nq
  BY <1>1, <1>3, <1>4, <1>5 DEF m, nq
<1>7. b - nq = r
  BY <1>1, <1>2, <1>5 DEF nq
<1>8. 0 <= r /\ r < net
  BY <1>2
<1>. QED
  BY <1>6, <1>7, <1>8 DEF q, b

\* A partial exit moves the average by less than one money unit, whatever was sold
\* and however often.  Where the division is exact, as in the code's doubles, it does
\* not move it at all.
AverageHeldOnExit ==
    [][\A s \in Symbols :
          0 < position'[s].net /\ position'[s].net < position[s].net
            => LET rest == position'[s].basis * position[s].net
                             - position[s].basis * position'[s].net
               IN  0 <= rest /\ rest < position[s].net]_vars

LEMMA ExitStep ==
    ASSUME TypeOK, [Next]_vars, NEW s \in Symbols,
           0 < position'[s].net, position'[s].net < position[s].net
    PROVE  LET rest == position'[s].basis * position[s].net
                         - position[s].basis * position'[s].net
           IN  0 <= rest /\ rest < position[s].net
<1>1. \E sig \in Signal, quote \in Books : Trade(sig, quote)
  <2>1. position' # position
    <3>1. position[s].net \in Int
      BY DEF TypeOK, Position
    <3>. QED
      BY <3>1
  <2>. QED
    BY <2>1, StepCases DEF Kill, Trip, NoTrade, portfolioVars, vars
<1>2. PICK sig \in Signal, quote \in Books : Trade(sig, quote)
  BY <1>1
<1>. DEFINE sq == SignedQty(sig.side, sig.qty)
            p == position[s]
            price == Touch(quote, sig.side)
            f == TradeFill(sig, quote)
<1>3. /\ sig.symbol \in Symbols /\ sq \in Int
      /\ position'[sig.symbol].net = position[sig.symbol].net + sq
      /\ \A t \in Symbols \ {sig.symbol} : position'[t] = position[t]
  BY <1>2, TradeEffect
<1>4. p.net \in Int /\ p.basis \in Int
  BY DEF TypeOK, Position
<1>5. s = sig.symbol
  BY <1>3, <1>4
<1>6. position'[s] = PositionApply(p, f) /\ position'[s].net = p.net + sq
  <2>1. f.symbol = sig.symbol
    BY DEF TradeFill
  <2>. HIDE DEF f
  <2>2. position' = [position EXCEPT ![s] = PositionApply(p, f)]
    BY <1>2, <1>5, <2>1 DEF Trade, ApplyFill, f
  <2>. QED
    BY <1>3, <1>5, <2>2 DEF TypeOK
<1>7. SignedQty(f.side, f.qty) = sq /\ f.price = price
  BY DEF TradeFill
<1>. HIDE DEF f, sq, price
<1>8. p.net \in Nat \ {0} /\ sq < 0 /\ p.net + sq > 0 /\ -sq \in 1 .. p.net
  BY <1>3, <1>4, <1>6
<1>9. Abs(sq) = -sq /\ Abs(p.net) = p.net
  BY <1>8 DEF Abs
<1>10. position'[s] = ReducePosition(p, sq, price)
  BY <1>3, <1>6, <1>7, <1>8, <1>9 DEF PositionApply, Opening
<1>11. /\ position'[s].basis = p.basis - (p.basis * (-sq)) \div p.net
       /\ position'[s].net = p.net - (-sq)
  BY <1>3, <1>4, <1>9, <1>10 DEF ReducePosition
<1>. HIDE DEF p
<1>12. LET after == p.basis - (p.basis * (-sq)) \div p.net
           rest  == after * p.net - p.basis * (p.net - (-sq))
       IN  0 <= rest /\ rest < p.net
  BY <1>4, <1>8, ExitReleases
<1>. QED
  BY <1>11, <1>12 DEF p

\* Only buying moves the average entry price (types.hpp:150-158), but for the rounding
\* of the integers here, for every history of orders.
THEOREM ExitsKeepTheAverage == Spec => AverageHeldOnExit
<1>1. TypeOK /\ [Next]_vars
        => [\A s \in Symbols :
              0 < position'[s].net /\ position'[s].net < position[s].net
                => LET rest == position'[s].basis * position[s].net
                                 - position[s].basis * position'[s].net
                   IN  0 <= rest /\ rest < position[s].net]_vars
  BY ExitStep
<1>. QED
  BY <1>1, TypeCorrect, PTL DEF Spec, AverageHeldOnExit
=============================================================================
