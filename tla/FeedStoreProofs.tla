-------------------------- MODULE FeedStoreProofs --------------------------
(***************************************************************************)
(* What the feed link carries, for any symbols, bounds and interleaving:   *)
(* that the terminal catches up with the publisher's caches, that a chart  *)
(* shows the trades in order, and that a backfill takes nothing from it.   *)
(***************************************************************************)
EXTENDS FeedLinkProofs

-----------------------------------------------------------------------------
(* Playing a queue of messages.                                            *)

(* What the messages say of one thing, the quote of a symbol or the         *)
(* universe, is a number, 0 if nothing.                                    *)
Readings == [Message -> Nat]

QuoteOf(s) == [m \in Message |-> IF m.m = "quotes" THEN m.rows[s] ELSE 0]

UniverseOf == [m \in Message |-> IF m.m = "universe" THEN m.version ELSE 0]

After(known, x) == IF x # 0 THEN x ELSE known

Silent(q, V) == \A i \in 1 .. Len(q) : V[q[i]] = 0

\* A queue played to one who knows known leaves him with v.
Leaves(q, V, known, v) ==
    \/ Silent(q, V) /\ known = v
    \/ /\ v # 0
       /\ \E i \in 1 .. Len(q) :
             /\ V[q[i]] = v
             /\ \A j \in 1 .. Len(q) : j > i => V[q[j]] = 0

LEMMA LeavesMore ==
    ASSUME NEW V \in Readings, NEW q \in Seq(Message), NEW x \in Message,
           NEW known, NEW v, Leaves(q, V, known, v)
    PROVE  /\ Leaves(Append(q, x), V, known, After(v, V[x]))
           /\ Silent(Append(q, x), V) <=> (Silent(q, V) /\ V[x] = 0)
<1>. DEFINE n == Len(q)
            r == Append(q, x)
<1>1. /\ n \in Nat /\ Len(r) = n + 1 /\ r[n + 1] = x
      /\ \A i \in 1 .. n : r[i] = q[i]
  OBVIOUS
<1>. HIDE DEF r, n
<1>2. Silent(r, V) <=> (Silent(q, V) /\ V[x] = 0)
  <2>1. ASSUME Silent(r, V) PROVE Silent(q, V) /\ V[x] = 0
    <3>1. \A i \in 1 .. n : i \in 1 .. n + 1 /\ n + 1 \in 1 .. n + 1
      BY <1>1
    <3>2. n + 1 \in 1 .. n + 1
      BY <1>1
    <3>. QED
      BY <1>1, <2>1, <3>1, <3>2 DEF Silent, n
  <2>2. ASSUME Silent(q, V), V[x] = 0 PROVE Silent(r, V)
    BY <1>1, <2>2 DEF Silent, n
  <2>. QED
    BY <2>1, <2>2
<1>3. Leaves(r, V, known, After(v, V[x]))
  <2>1. CASE V[x] # 0
    <3>1. After(v, V[x]) = V[x]
      BY <2>1 DEF After
    <3>2. n + 1 \in 1 .. Len(r) /\ V[r[n + 1]] = V[x]
          /\ \A j \in 1 .. Len(r) : ~(j > n + 1)
      BY <1>1
    <3>. QED
      BY <2>1, <3>1, <3>2 DEF Leaves
  <2>2. CASE V[x] = 0
    <3>1. After(v, V[x]) = v
      BY <2>2 DEF After
    <3>2. CASE Silent(q, V) /\ known = v
      BY <1>2, <2>2, <3>1, <3>2 DEF Leaves
    <3>3. CASE ~(Silent(q, V) /\ known = v)
      <4>1. PICK i \in 1 .. n : /\ v # 0 /\ V[q[i]] = v
                               /\ \A j \in 1 .. n : j > i => V[q[j]] = 0
        BY <3>3 DEF Leaves, n
      <4>2. i \in 1 .. Len(r) /\ V[r[i]] = v
        BY <1>1, <4>1
      <4>3. \A j \in 1 .. Len(r) : j > i => V[r[j]] = 0
        BY <1>1, <2>2, <4>1
      <4>. QED
        BY <3>1, <4>1, <4>2, <4>3 DEF Leaves
    <3>. QED
      BY <3>2, <3>3
  <2>. QED
    BY <2>1, <2>2
<1>. QED
  BY <1>2, <1>3 DEF r

LEMMA LeavesLess ==
    ASSUME NEW V \in Readings, NEW q \in Seq(Message), q # <<>>,
           NEW known, NEW v, Leaves(q, V, known, v)
    PROVE  Leaves(Tail(q), V, After(known, V[Head(q)]), v)
<1>. DEFINE n == Len(q)
            r == Tail(q)
<1>1. /\ n \in Nat \ {0} /\ Len(r) = n - 1 /\ Head(q) = q[1]
      /\ \A i \in 1 .. n - 1 : r[i] = q[i + 1]
  BY OneLess
<1>. HIDE DEF r, n
<1>2. CASE Silent(q, V) /\ known = v
  <2>1. V[q[1]] = 0 /\ \A i \in 1 .. n - 1 : V[q[i + 1]] = 0
    BY <1>1, <1>2 DEF Silent, n
  <2>2. Silent(r, V) /\ After(known, V[Head(q)]) = v
    BY <1>1, <1>2, <2>1 DEF Silent, After
  <2>. QED
    BY <2>2 DEF Leaves, r
<1>3. CASE ~(Silent(q, V) /\ known = v)
  <2>1. PICK i \in 1 .. n : /\ v # 0 /\ V[q[i]] = v
                           /\ \A j \in 1 .. n : j > i => V[q[j]] = 0
    BY <1>3 DEF Leaves, n
  <2>2. CASE i = 1
    <3>1. After(known, V[Head(q)]) = v
      BY <1>1, <2>1, <2>2 DEF After
    <3>2. Silent(r, V)
      BY <1>1, <2>1, <2>2 DEF Silent
    <3>. QED
      BY <3>1, <3>2 DEF Leaves, r
  <2>3. CASE i # 1
    <3>1. i - 1 \in 1 .. Len(r) /\ r[i - 1] = q[i]
      BY <1>1, <2>3
    <3>2. ASSUME NEW j \in 1 .. Len(r), j > i - 1 PROVE V[r[j]] = 0
      <4>1. j + 1 \in 1 .. n /\ j + 1 > i /\ r[j] = q[j + 1]
        BY <1>1, <3>2
      <4>. QED
        BY <2>1, <4>1
    <3>. QED
      BY <2>1, <3>1, <3>2 DEF Leaves, r
  <2>. QED
    BY <2>2, <2>3
<1>. QED
  BY <1>2, <1>3

LEMMA SilentLess ==
    ASSUME NEW V \in Readings, NEW q \in Seq(Message), Silent(q, V)
    PROVE  /\ q # <<>> => Silent(Tail(q), V) /\ V[Head(q)] = 0
           /\ \A n \in 0 .. Len(q) : Silent(SubSeq(q, 1, n), V)
<1>1. ASSUME q # <<>> PROVE Silent(Tail(q), V) /\ V[Head(q)] = 0
  BY <1>1, OneLess DEF Silent
<1>2. ASSUME NEW n \in 0 .. Len(q) PROVE Silent(SubSeq(q, 1, n), V)
  BY <1>2 DEF Silent
<1>. QED
  BY <1>1, <1>2

\* Lines written and lines to be written make one stream.
LEMMA StreamMoves ==
    ASSUME NEW D, NEW l \in Seq(D), NEW q \in Seq(D)
    PROVE  /\ q # <<>> => /\ Append(l, Head(q)) \o Tail(q) = l \o q
                         /\ \A i \in 1 .. Len(l) + 1 :
                               /\ i \in 1 .. Len(l \o q)
                               /\ Append(l, Head(q))[i] = (l \o q)[i]
           /\ l # <<>> => /\ Tail(l) \o q = Tail(l \o q)
                         /\ l \o q # <<>> /\ Head(l \o q) = Head(l)
           /\ l \o <<>> = l /\ <<>> \o q = q
           /\ \A x \in D : l \o <<x>> = Append(l, x)
           /\ l \o q \in Seq(D)
<1>1. l \o <<>> = l /\ <<>> \o q = q /\ l \o q \in Seq(D)
  OBVIOUS
<1>2. \A x \in D : l \o <<x>> = Append(l, x)
  OBVIOUS
<1>. DEFINE n == Len(l)
            m == Len(q)
            s == l \o q
<1>3. /\ n \in Nat /\ m \in Nat /\ Len(s) = n + m /\ s \in Seq(D)
      /\ \A i \in 1 .. n : s[i] = l[i]
      /\ \A i \in 1 .. m : s[n + i] = q[i]
  OBVIOUS
<1>4. ASSUME q # <<>>
      PROVE  /\ Append(l, Head(q)) \o Tail(q) = l \o q
             /\ \A i \in 1 .. Len(l) + 1 : /\ i \in 1 .. Len(l \o q)
                                           /\ Append(l, Head(q))[i] = (l \o q)[i]
  <2>. DEFINE h == Append(l, Head(q))
              r == Tail(q)
              z == h \o r
  <2>1. /\ r \in Seq(D) /\ Len(r) = m - 1 /\ m \in Nat \ {0}
        /\ Head(q) \in D /\ Head(q) = q[1]
        /\ \A i \in 1 .. m - 1 : r[i] = q[i + 1]
    BY <1>4, OneLess
  <2>. HIDE DEF r
  <2>2. /\ h \in Seq(D) /\ Len(h) = n + 1 /\ h[n + 1] = q[1]
        /\ \A i \in 1 .. n : h[i] = l[i]
    BY <2>1
  <2>. HIDE DEF h
  <2>3. /\ z \in Seq(D) /\ Len(z) = (n + 1) + (m - 1)
        /\ \A i \in 1 .. n + 1 : z[i] = h[i]
        /\ \A i \in 1 .. m - 1 : z[(n + 1) + i] = r[i]
    <3>1. /\ z \in Seq(D) /\ Len(z) = Len(h) + Len(r)
          /\ \A i \in 1 .. Len(h) : z[i] = h[i]
          /\ \A i \in 1 .. Len(r) : z[Len(h) + i] = r[i]
      <4>1. h \in Seq(D) /\ r \in Seq(D)
        BY <2>1, <2>2
      <4>2. z \in Seq(D) /\ Len(z) = Len(h) + Len(r)
        BY <4>1
      <4>3. \A i \in 1 .. Len(h) : z[i] = h[i]
        BY <4>1
      <4>4. \A i \in 1 .. Len(r) : z[Len(h) + i] = r[i]
        BY <4>1
      <4>. QED
        BY <4>2, <4>3, <4>4
    <3>. HIDE DEF z
    <3>. QED
      BY <2>1, <2>2, <3>1
  <2>. HIDE DEF z, s, n, m
  <2>4. Len(z) = Len(s)
    BY <1>3, <2>1, <2>3
  <2>5. \A i \in 1 .. n + 1 : i \in 1 .. Len(s) /\ h[i] = s[i]
    <3>. SUFFICES ASSUME NEW i \in 1 .. n + 1 PROVE i \in 1 .. Len(s) /\ h[i] = s[i]
      OBVIOUS
    <3>1. CASE i = n + 1
      <4>1. 1 \in 1 .. m
        BY <2>1
      <4>2. s[n + 1] = q[1]
        BY <1>3, <4>1
      <4>. QED
        BY <1>3, <2>1, <2>2, <3>1, <4>2
    <3>2. CASE i # n + 1
      BY <1>3, <2>1, <2>2, <3>2
    <3>. QED
      BY <3>1, <3>2
  <2>6. ASSUME NEW i \in 1 .. Len(s) PROVE z[i] = s[i]
    <3>1. CASE i <= n + 1
      BY <1>3, <2>3, <2>5, <3>1
    <3>2. CASE ~(i <= n + 1)
      <4>. DEFINE k == i - (n + 1)
      <4>1. k \in 1 .. m - 1 /\ k + 1 \in 1 .. m /\ i = (n + 1) + k /\ i = n + (k + 1)
        BY <1>3, <2>1, <3>2
      <4>. HIDE DEF k
      <4>2. z[i] = r[k] /\ s[i] = q[k + 1]
        BY <1>3, <2>3, <4>1
      <4>. QED
        BY <2>1, <4>1, <4>2
    <3>. QED
      BY <3>1, <3>2
  <2>7. z = s
    BY <1>3, <2>3, <2>4, <2>6, SameSeries
  <2>. QED
    BY <2>5, <2>7 DEF z, h, r, s, n
<1>5. ASSUME l # <<>>
      PROVE  Tail(l) \o q = Tail(l \o q) /\ l \o q # <<>> /\ Head(l \o q) = Head(l)
  <2>. DEFINE r == Tail(l)
              z == r \o q
              y == Tail(s)
  <2>1. /\ r \in Seq(D) /\ Len(r) = n - 1 /\ n \in Nat \ {0} /\ Head(l) = l[1]
        /\ \A i \in 1 .. n - 1 : r[i] = l[i + 1]
    BY <1>5, OneLess
  <2>. HIDE DEF r, s
  <2>2. s # <<>>
    BY <1>3, <2>1
  <2>3. /\ y \in Seq(D) /\ Len(y) = (n + m) - 1 /\ Head(s) = s[1]
        /\ \A i \in 1 .. (n + m) - 1 : y[i] = s[i + 1]
    BY <1>3, <2>2, OneLess
  <2>4. Head(s) = Head(l)
    BY <1>3, <2>1, <2>3
  <2>5. /\ z \in Seq(D) /\ Len(z) = (n - 1) + m
        /\ \A i \in 1 .. n - 1 : z[i] = r[i]
        /\ \A i \in 1 .. m : z[(n - 1) + i] = q[i]
    <3>1. /\ z \in Seq(D) /\ Len(z) = Len(r) + m
          /\ \A i \in 1 .. Len(r) : z[i] = r[i]
          /\ \A i \in 1 .. m : z[Len(r) + i] = q[i]
      <4>1. r \in Seq(D)
        BY <2>1
      <4>2. z \in Seq(D) /\ Len(z) = Len(r) + m
        BY <4>1
      <4>3. \A i \in 1 .. Len(r) : z[i] = r[i]
        BY <4>1
      <4>4. \A i \in 1 .. m : z[Len(r) + i] = q[i]
        BY <4>1
      <4>. QED
        BY <4>2, <4>3, <4>4
    <3>. HIDE DEF z
    <3>. QED
      BY <2>1, <3>1
  <2>. HIDE DEF y, z, n, m
  <2>6. Len(z) = Len(y)
    BY <1>3, <2>1, <2>3, <2>5
  <2>7. ASSUME NEW i \in 1 .. Len(y) PROVE z[i] = y[i]
    <3>1. CASE i <= n - 1
      <4>1. i \in 1 .. n - 1 /\ i + 1 \in 1 .. n /\ i \in 1 .. (n + m) - 1
        BY <1>3, <2>1, <2>3, <3>1
      <4>. QED
        BY <1>3, <2>1, <2>3, <2>5, <4>1
    <3>2. CASE ~(i <= n - 1)
      <4>. DEFINE k == i - (n - 1)
      <4>1. k \in 1 .. m /\ i = (n - 1) + k /\ i + 1 = n + k /\ i \in 1 .. (n + m) - 1
        BY <1>3, <2>1, <2>3, <3>2
      <4>. HIDE DEF k
      <4>2. z[i] = q[k] /\ y[i] = s[n + k] /\ s[n + k] = q[k]
        BY <1>3, <2>3, <2>5, <4>1
      <4>. QED
        BY <4>2
    <3>. QED
      BY <3>1, <3>2
  <2>8. z = y
    BY <2>3, <2>5, <2>6, <2>7, SameSeries
  <2>. QED
    BY <2>2, <2>4, <2>8 DEF z, y, s, r
<1>. QED
  BY <1>1, <1>2, <1>4, <1>5

LEMMA StreamWritten ==
    ASSUME NEW D, NEW l \in Seq(D), NEW q \in Seq(D), q # <<>>
    PROVE  Append(l, Head(q)) \o Tail(q) = l \o q
BY StreamMoves

LEMMA StreamTaken ==
    ASSUME NEW D, NEW l \in Seq(D), NEW q \in Seq(D), l # <<>>
    PROVE  /\ Tail(l) \o q = Tail(l \o q) /\ l \o q # <<>>
           /\ Head(l \o q) = Head(l) /\ l \o q \in Seq(D)
BY StreamMoves

-----------------------------------------------------------------------------
(* The newest connection tells the terminal what the publisher has cached. *)

Stream(cs, td) == cs[Len(cs)].lines \o td

\* Reading what is on the way leaves the terminal with what is cached.  Behind
\* other connections that takes a stream that says so by itself, for the lines
\* of the others are read first; and of what was never cached no line speaks.
Tells(up, cs, td, V, store, last) ==
    /\ up => /\ Leaves(Stream(cs, td), V, store, last)
             /\ (Len(cs) > 1 /\ last # 0) => ~Silent(Stream(cs, td), V)
    /\ last = 0 => /\ store = 0
                   /\ \A c \in 1 .. Len(cs) : Silent(cs[c].lines, V)

LEMMA LinesType ==
    ASSUME NEW cs \in Seq(Connection), NEW c \in 1 .. Len(cs)
    PROVE  cs[c] \in Connection /\ cs[c].lines \in Seq(Message)
<1>1. cs[c] \in Connection
  OBVIOUS
<1>. QED
  BY <1>1 DEF Connection

LEMMA TellsSent ==
    ASSUME NEW V \in Readings, NEW cs \in Seq(Connection), cs # <<>>, NEW msg \in Message,
           NEW store, NEW last \in Nat, Tells(TRUE, cs, <<>>, V, store, last)
    PROVE  Tells(TRUE, cs, <<msg>>, V, store, After(last, V[msg]))
<1>. DEFINE l == cs[Len(cs)].lines
<1>1. Len(cs) \in 1 .. Len(cs)
  OBVIOUS
<1>2. l \in Seq(Message)
  BY <1>1, LinesType
<1>3. Stream(cs, <<>>) = l /\ Stream(cs, <<msg>>) = Append(l, msg)
  BY <1>2, StreamMoves DEF Stream
<1>4. V[msg] \in Nat
  BY DEF Readings
<1>5. Leaves(l, V, store, last)
  BY <1>3 DEF Tells
<1>. HIDE DEF l
<1>6. /\ Leaves(Append(l, msg), V, store, After(last, V[msg]))
      /\ Silent(Append(l, msg), V) <=> (Silent(l, V) /\ V[msg] = 0)
  BY <1>2, <1>5, LeavesMore
<1>7. After(last, V[msg]) = 0 => last = 0
  BY DEF After
<1>8. After(last, V[msg]) # 0 => last # 0 \/ V[msg] # 0
  BY DEF After
<1>. QED
  BY <1>3, <1>6, <1>7, <1>8, Zenon DEF Tells

\* What a resync says of a thing that is cached as last.
Retells(r, V, last) ==
    /\ last = 0 => Silent(r, V)
    /\ last # 0 => /\ ~Silent(r, V)
                   /\ \A known \in Nat : Leaves(r, V, known, last)

LEMMA TellsAttached ==
    ASSUME NEW V \in Readings, NEW cs \in Seq(Connection), Len(cs) < MaxConns,
           NEW r \in Seq(Message), NEW msg \in Message, NEW td,
           NEW store \in Nat, NEW last \in Nat, NEW new \in Nat,
           Tells(FALSE, cs, td, V, store, last),
           Retells(r, V, new), V[msg] \in {0, new}, new = 0 => last = 0
    PROVE  Tells(TRUE, Attach(cs), Append(r, msg), V, store, new)
<1>. DEFINE d == Attach(cs)
            n == Len(cs)
<1>1. /\ d \in Seq(Connection) /\ Len(d) = n + 1 /\ d[n + 1].lines = <<>>
      /\ \A i \in 1 .. n : d[i] = cs[i]
  BY AttachType, FeedLinkAssumption
<1>2. n \in Nat
  OBVIOUS
<1>. HIDE DEF d
<1>3. Append(r, msg) \in Seq(Message)
  OBVIOUS
<1>4. Stream(d, Append(r, msg)) = Append(r, msg)
  BY <1>1, <1>3, StreamMoves DEF Stream
<1>5. Leaves(r, V, store, new)
  <2>1. CASE new = 0
    BY <2>1 DEF Retells, Tells, Leaves
  <2>2. CASE new # 0
    BY <2>2 DEF Retells
  <2>. QED
    BY <2>1, <2>2
<1>6. After(new, V[msg]) = new
  BY DEF After
<1>7. /\ Leaves(Append(r, msg), V, store, new)
      /\ Silent(Append(r, msg), V) => Silent(r, V)
  BY <1>5, <1>6, LeavesMore
<1>8. new # 0 => ~Silent(r, V)
  BY DEF Retells
<1>9. ASSUME new = 0
      PROVE  store = 0 /\ \A c \in 1 .. Len(d) : Silent(d[c].lines, V)
  <2>1. store = 0 /\ \A c \in 1 .. n : Silent(cs[c].lines, V)
    BY <1>9 DEF Tells
  <2>2. Silent(d[n + 1].lines, V)
    BY <1>1 DEF Silent
  <2>3. \A c \in 1 .. n + 1 : c \in 1 .. n \/ c = n + 1
    BY <1>2
  <2>4. \A c \in 1 .. n + 1 : Silent(d[c].lines, V)
    BY <1>1, <2>1, <2>2, <2>3, Zenon
  <2>. QED
    BY <1>1, <2>1, <2>4
<1>. QED
  BY <1>4, <1>7, <1>8, <1>9, Zenon DEF Tells, d

LEMMA TellsWritten ==
    ASSUME NEW V \in Readings, NEW cs \in Seq(Connection), cs # <<>>,
           NEW td \in Seq(Message), td # <<>>, NEW store, NEW last,
           Tells(TRUE, cs, td, V, store, last),
           NEW r \in Connection, r.lines = Append(cs[Len(cs)].lines, Head(td))
    PROVE  Tells(TRUE, [cs EXCEPT ![Len(cs)] = r], Tail(td), V, store, last)
<1>. DEFINE n == Len(cs)
            d == [cs EXCEPT ![n] = r]
            l == cs[n].lines
<1>1. n \in Nat \ {0} /\ n \in 1 .. n
  OBVIOUS
<1>2. l \in Seq(Message)
  BY <1>1, LinesType
<1>3. d \in Seq(Connection) /\ Len(d) = n /\ \A i \in 1 .. n : d[i] = IF i = n THEN r ELSE cs[i]
  BY <1>1, ConnectionKept
<1>. HIDE DEF d, l
<1>4. d[n].lines = Append(l, Head(td))
  BY <1>1, <1>3 DEF l
<1>5. Stream(d, Tail(td)) = Stream(cs, td)
  <2>1. Stream(d, Tail(td)) = Append(l, Head(td)) \o Tail(td)
    BY <1>3, <1>4, Zenon DEF Stream
  <2>2. Stream(cs, td) = l \o td
    BY DEF Stream, l
  <2>. QED
    BY <1>2, <2>1, <2>2, StreamWritten
<1>6. ASSUME last = 0 PROVE \A c \in 1 .. n : Silent(d[c].lines, V)
  <2>1. \A c \in 1 .. n : Silent(cs[c].lines, V)
    BY <1>6 DEF Tells
  <2>2. Silent(l \o td, V)
    BY <1>6 DEF Tells, Leaves, Stream, l
  <2>3. Silent(Append(l, Head(td)), V)
    <3>1. Len(Append(l, Head(td))) = Len(l) + 1
      BY <1>2
    <3>2. \A i \in 1 .. Len(l) + 1 : /\ i \in 1 .. Len(l \o td)
                                    /\ Append(l, Head(td))[i] = (l \o td)[i]
      BY <1>2, StreamMoves
    <3>. QED
      BY <2>2, <3>1, <3>2, Zenon DEF Silent
  <2>. QED
    BY <1>3, <1>4, <2>1, <2>3
<1>. QED
  BY <1>3, <1>5, <1>6, Zenon DEF Tells, d, n

LEMMA TellsDown ==
    ASSUME NEW V \in Readings, NEW cs \in Seq(Connection), NEW up, NEW td, NEW td2,
           NEW store, NEW last, NEW new, new = 0 => last = 0,
           Tells(up, cs, td, V, store, last)
    PROVE  Tells(FALSE, cs, td2, V, store, new)
BY Zenon DEF Tells

LEMMA TellsShortened ==
    ASSUME NEW V \in Readings, NEW cs \in Seq(Connection), NEW up, NEW td, NEW td2,
           NEW store, NEW last, Tells(up, cs, td, V, store, last),
           NEW k \in 1 .. Len(cs), NEW m \in 0 .. Len(cs[k].lines),
           NEW r \in Connection, r.lines = SubSeq(cs[k].lines, 1, m)
    PROVE  Tells(FALSE, [cs EXCEPT ![k] = r], td2, V, store, last)
<1>. DEFINE d == [cs EXCEPT ![k] = r]
<1>1. Len(d) = Len(cs) /\ \A i \in 1 .. Len(cs) : d[i] = IF i = k THEN r ELSE cs[i]
  BY ConnectionKept
<1>2. Silent(cs[k].lines, V) => Silent(r.lines, V)
  BY LinesType, SilentLess
<1>. HIDE DEF d
<1>. QED
  BY <1>1, <1>2 DEF Tells, d

LEMMA TellsUnread ==
    ASSUME NEW V \in Readings, NEW cs \in Seq(Connection), NEW up, NEW td,
           NEW store, NEW last, Tells(up, cs, td, V, store, last),
           NEW k \in 1 .. Len(cs), NEW r \in Connection, r.lines = cs[k].lines
    PROVE  Tells(up, [cs EXCEPT ![k] = r], td, V, store, last)
<1>. DEFINE d == [cs EXCEPT ![k] = r]
<1>1. Len(d) = Len(cs) /\ \A i \in 1 .. Len(cs) : d[i] = IF i = k THEN r ELSE cs[i]
  BY ConnectionKept
<1>2. Len(cs) \in 1 .. Len(cs)
  OBVIOUS
<1>. HIDE DEF d
<1>3. d[Len(cs)].lines = cs[Len(cs)].lines
  BY <1>1, <1>2
<1>4. \A i \in 1 .. Len(cs) : d[i].lines = cs[i].lines
  BY <1>1
<1>. QED
  BY <1>1, <1>3, <1>4, Zenon DEF Tells, Stream, d

LEMMA TellsHandled ==
    ASSUME NEW V \in Readings, NEW cs \in Seq(Connection), cs # <<>>, NEW up \in BOOLEAN,
           NEW td \in Seq(Message), NEW store \in Nat, NEW last \in Nat,
           Tells(up, cs, td, V, store, last),
           cs[1].lines # <<>>, NEW r \in Connection, r.lines = Tail(cs[1].lines)
    PROVE  Tells(up, [cs EXCEPT ![1] = r], td, V,
                 After(store, V[Head(cs[1].lines)]), last)
<1>. DEFINE n == Len(cs)
            d == [cs EXCEPT ![1] = r]
            l == cs[1].lines
            x == V[Head(l)]
<1>1. n \in Nat \ {0} /\ 1 \in 1 .. n /\ n \in 1 .. n
  OBVIOUS
<1>2. l \in Seq(Message) /\ l # <<>>
  BY <1>1, LinesType
<1>3. Len(d) = n /\ \A i \in 1 .. n : d[i] = IF i = 1 THEN r ELSE cs[i]
  BY <1>1, ConnectionKept
<1>. HIDE DEF d, l, x
<1>4. d[1].lines = Tail(l) /\ \A i \in 1 .. n : i # 1 => d[i].lines = cs[i].lines
  BY <1>1, <1>3 DEF l
<1>5. ASSUME last = 0
      PROVE  /\ x = 0 /\ store = 0 /\ After(store, x) = 0
             /\ \A c \in 1 .. Len(d) : Silent(d[c].lines, V)
  <2>1. store = 0 /\ \A c \in 1 .. n : Silent(cs[c].lines, V)
    BY <1>5 DEF Tells
  <2>2. Silent(Tail(l), V) /\ x = 0
    BY <1>1, <1>2, <2>1, SilentLess DEF l, x
  <2>3. \A c \in 1 .. n : Silent(d[c].lines, V)
    BY <1>1, <1>4, <2>1, <2>2, Zenon
  <2>. QED
    BY <1>3, <2>1, <2>2, <2>3 DEF After
<1>6. ASSUME up
      PROVE  /\ Leaves(Stream(d, td), V, After(store, x), last)
             /\ (Len(d) > 1 /\ last # 0) => ~Silent(Stream(d, td), V)
  <2>0. Leaves(Stream(cs, td), V, store, last)
    BY <1>6 DEF Tells
  <2>1. CASE n = 1
    <3>1. Stream(cs, td) = l \o td /\ Stream(d, td) = Tail(l) \o td
      BY <1>3, <1>4, <2>1 DEF Stream, l
    <3>2. /\ Tail(l) \o td = Tail(l \o td) /\ l \o td # <<>>
          /\ Head(l \o td) = Head(l) /\ l \o td \in Seq(Message)
      BY <1>2, StreamTaken
    <3>3. Leaves(Tail(l \o td), V, After(store, V[Head(l \o td)]), last)
      BY <2>0, <3>1, <3>2, LeavesLess
    <3>4. ~(Len(d) > 1)
      BY <1>3, <2>1
    <3>. QED
      BY <3>1, <3>2, <3>3, <3>4 DEF x
  <2>2. CASE n # 1
    <3>1. Stream(d, td) = Stream(cs, td) /\ Len(d) = Len(cs) /\ Len(cs) > 1
      <4>1. d[n].lines = cs[n].lines
        BY <1>1, <1>4, <2>2
      <4>2. Len(cs) > 1
        <5>. HIDE DEF n
        <5>1. n > 1
          BY <1>1, <2>2
        <5>. QED
          BY <5>1 DEF n
      <4>. QED
        BY <1>3, <4>1, <4>2, Zenon DEF Stream
    <3>2. CASE last = 0
      <4>1. After(store, x) = store
        BY <1>5, <3>2
      <4>. QED
        BY <2>0, <3>1, <3>2, <4>1
    <3>3. CASE last # 0
      <4>1. ~Silent(Stream(cs, td), V)
        BY <1>6, <3>1, <3>3 DEF Tells
      <4>2. Leaves(Stream(cs, td), V, After(store, x), last)
        BY <2>0, <4>1, Zenon DEF Leaves
      <4>. QED
        BY <3>1, <4>1, <4>2
    <3>. QED
      BY <3>2, <3>3
  <2>. QED
    BY <2>1, <2>2
<1>. QED
  BY <1>5, <1>6, Zenon DEF Tells, d, l, x

LEMMA TellsClosed ==
    ASSUME NEW V \in Readings, NEW cs \in Seq(Connection), cs # <<>>, NEW up \in BOOLEAN,
           NEW td, NEW store, NEW last, Tells(up, cs, td, V, store, last),
           up => Len(cs) > 1
    PROVE  Tells(up, Tail(cs), td, V, store, last)
<1>. DEFINE n == Len(cs)
            d == Tail(cs)
<1>1. /\ n \in Nat \ {0} /\ Len(d) = n - 1
      /\ \A i \in 1 .. n - 1 : d[i] = cs[i + 1]
  BY OneLess
<1>. HIDE DEF d
<1>2. ASSUME up PROVE Stream(d, td) = Stream(cs, td)
  <2>1. n - 1 \in 1 .. n - 1 /\ (n - 1) + 1 = n
    BY <1>1, <1>2
  <2>2. d[n - 1] = cs[n]
    BY <1>1, <2>1
  <2>. QED
    BY <1>1, <2>2 DEF Stream
<1>3. Len(d) > 1 => Len(cs) > 1
  BY <1>1
<1>4. \A c \in 1 .. Len(d) : c + 1 \in 1 .. n /\ d[c] = cs[c + 1]
  BY <1>1
<1>. QED
  BY <1>2, <1>3, <1>4, Zenon DEF Tells, d, n

LEMMA TellsNobody ==
    ASSUME NEW V \in Readings, NEW td, NEW store, NEW last, last = 0 => store = 0
    PROVE  Tells(FALSE, <<>>, td, V, store, last)
BY DEF Tells

Up == link = "up"

StoreInv ==
    /\ conns # <<>> => listening
    /\ \A s \in Symbols :
          Tells(Up, conns, todo, QuoteOf(s), storeQuotes[s], lastQuotes[s])
    /\ Tells(Up, conns, todo, UniverseOf, storeUniverse, lastUniverse)

LEMMA StoreInvSays == TypeInv /\ StoreInv => StoreCatchesUp
<1>. SUFFICES ASSUME TypeInv, StoreInv, pc = "idle", link = "up", AllRead
              PROVE  storeQuotes = lastQuotes /\ storeUniverse = lastUniverse
  BY DEF StoreCatchesUp
<1>1. Len(conns) = 1 /\ Head(conns).lines = <<>> /\ todo = <<>> /\ serving
  BY DEF AllRead, TypeInv, CallOK
<1>2. conns[1].lines = <<>>
  BY <1>1, OldestThere
<1>3. Stream(conns, todo) = <<>>
  BY <1>1, <1>2 DEF Stream
<1>4. \A V, known, v : Leaves(<<>>, V, known, v) => known = v
  BY DEF Leaves
<1>5. Up
  BY DEF Up
<1>6. storeUniverse = lastUniverse
  BY <1>3, <1>4, <1>5, Zenon DEF StoreInv, Tells
<1>7. \A s \in Symbols : storeQuotes[s] = lastQuotes[s]
  BY <1>3, <1>4, <1>5, Zenon DEF StoreInv, Tells
<1>8. storeQuotes \in Rows /\ lastQuotes \in Rows
  BY DEF TypeInv, StoreOK, CacheOK
<1>. QED
  BY <1>6, <1>7, <1>8 DEF Rows

LEMMA ReadingsType ==
    /\ MaxTicks \in Nat /\ MaxUniverses \in Nat
    /\ \A s \in Symbols : QuoteOf(s) \in Readings
    /\ UniverseOf \in Readings
<1>1. MaxTicks \in Nat /\ MaxUniverses \in Nat
  BY FeedLinkAssumption
<1>2. ASSUME NEW s \in Symbols PROVE QuoteOf(s) \in Readings
  <2>1. ASSUME NEW m \in Message, m.m = "quotes" PROVE m.rows[s] \in Nat
    <3>1. m.rows \in Rows
      BY <2>1 DEF Message
    <3>. QED
      BY <1>1, <3>1 DEF Rows
  <2>. QED
    BY <2>1 DEF QuoteOf, Readings
<1>3. UniverseOf \in Readings
  <2>1. ASSUME NEW m \in Message, m.m = "universe" PROVE m.version \in Nat
    BY <1>1, <2>1 DEF Message
  <2>. QED
    BY <2>1 DEF UniverseOf, Readings
<1>. QED
  BY <1>1, <1>2, <1>3

LEMMA ReadingsAre ==
    ASSUME NEW msg \in Message
    PROVE  /\ \A s \in Symbols :
                 QuoteOf(s)[msg] = IF msg.m = "quotes" THEN msg.rows[s] ELSE 0
           /\ UniverseOf[msg] = IF msg.m = "universe" THEN msg.version ELSE 0
BY DEF QuoteOf, UniverseOf

LEMMA ResyncRetells ==
    ASSUME NEW rows \in Rows, NEW u \in 0 .. MaxUniverses
    PROVE  /\ Resync(rows, u) \in Seq(Message)
           /\ \A s \in Symbols : Retells(Resync(rows, u), QuoteOf(s), rows[s])
           /\ Retells(Resync(rows, u), UniverseOf, u)
<1>. DEFINE r == Resync(rows, u)
            a == UniverseMsg(u)
            b == QuotesMsg(rows)
<1>0. MaxUniverses \in Nat
  BY FeedLinkAssumption
<1>1. r \in Seq(Message)
  BY <1>0, ResyncType
<1>2. r = (IF u # 0 THEN <<a>> ELSE <<>>) \o (IF rows # NoQuotes THEN <<b>> ELSE <<>>)
  BY DEF Resync
<1>3. b \in Message /\ b.m = "quotes" /\ b.rows = rows
  BY DEF QuotesMsg, Message
<1>4. u # 0 => a \in Message /\ a.m = "universe" /\ a.version = u
  BY <1>0 DEF UniverseMsg, Message
<1>. HIDE DEF a, b, r
<1>5. \/ u = 0 /\ rows = NoQuotes /\ r = <<>>
      \/ u # 0 /\ rows = NoQuotes /\ r = <<a>>
      \/ u = 0 /\ rows # NoQuotes /\ r = <<b>>
      \/ u # 0 /\ rows # NoQuotes /\ r = <<a, b>>
  <2>1. <<a>> \o <<b>> = <<a, b>>
    <3>. DEFINE D == {a, b}
                x == <<a>> \o <<b>>
                y == <<a, b>>
    <3>1. <<a>> \in Seq(D) /\ <<b>> \in Seq(D)
      OBVIOUS
    <3>2. x \in Seq(D) /\ Len(x) = 2 /\ x[1] = a /\ x[2] = b
      BY <3>1
    <3>3. y \in Seq(D) /\ Len(y) = 2 /\ y[1] = a /\ y[2] = b
      OBVIOUS
    <3>. HIDE DEF D, x, y
    <3>4. x = y
      BY <3>2, <3>3, SameSeries
    <3>. QED
      BY <3>4 DEF x, y
  <2>2. <<>> \o <<b>> = <<b>>
    OBVIOUS
  <2>3. <<a>> \o <<>> = <<a>>
    OBVIOUS
  <2>4. <<>> \o <<>> = <<>>
    OBVIOUS
  <2>. QED
    BY <1>2, <2>1, <2>2, <2>3, <2>4, Zenon
\* One message speaks, and the other does not.
<1>6. ASSUME NEW V, NEW v, u # 0 => V[a] = 0,
             v # 0 => rows # NoQuotes, rows # NoQuotes => V[b] = v
      PROVE  Retells(r, V, v)
  <2>1. CASE v = 0
    <3>1. Silent(r, V)
      BY <1>5, <1>6, <2>1 DEF Silent
    <3>. QED
      BY <2>1, <3>1 DEF Retells
  <2>2. CASE v # 0
    <3>1. r = <<b>> \/ (u # 0 /\ r = <<a, b>>)
      BY <1>5, <1>6, <2>2
    <3>2. V[r[Len(r)]] = v /\ Len(r) \in 1 .. Len(r) /\ \A j \in 1 .. Len(r) : ~(j > Len(r))
      <4>1. CASE r = <<b>>
        <5>1. Len(<<b>>) = 1 /\ <<b>>[1] = b /\ V[b] = v
          BY <1>6, <2>2
        <5>. QED
          BY <4>1, <5>1
      <4>2. CASE r = <<a, b>>
        <5>1. Len(<<a, b>>) = 2 /\ <<a, b>>[2] = b /\ V[b] = v
          BY <1>6, <2>2
        <5>. QED
          BY <4>2, <5>1
      <4>. QED
        BY <3>1, <4>1, <4>2
    <3>3. ~Silent(r, V)
      BY <2>2, <3>2 DEF Silent
    <3>4. \A known : Leaves(r, V, known, v)
      BY <2>2, <3>2 DEF Leaves
    <3>. QED
      BY <2>2, <3>3, <3>4 DEF Retells
  <2>. QED
    BY <2>1, <2>2
<1>7. ASSUME NEW s \in Symbols PROVE Retells(r, QuoteOf(s), rows[s])
  <2>1. QuoteOf(s)[b] = rows[s]
    BY <1>3, ReadingsAre
  <2>2. u # 0 => QuoteOf(s)[a] = 0
    BY <1>4, ReadingsAre
  <2>3. rows[s] # 0 => rows # NoQuotes
    BY DEF NoQuotes
  <2>. QED
    BY <1>6, <2>1, <2>2, <2>3
<1>8. Retells(r, UniverseOf, u)
  <2>1. UniverseOf[b] = 0
    BY <1>3, ReadingsAre
  <2>2. u # 0 => UniverseOf[a] = u
    BY <1>4, ReadingsAre
  <2>3. CASE u = 0
    <3>1. Silent(r, UniverseOf)
      BY <1>5, <2>1, <2>3 DEF Silent
    <3>. QED
      BY <2>3, <3>1 DEF Retells
  <2>4. CASE u # 0
    <3>1. r = <<a>> \/ r = <<a, b>>
      BY <1>5, <2>4
    <3>2. /\ UniverseOf[r[1]] = u /\ 1 \in 1 .. Len(r)
          /\ \A j \in 1 .. Len(r) : j > 1 => UniverseOf[r[j]] = 0
      BY <2>1, <2>2, <2>4, <3>1
    <3>3. ~Silent(r, UniverseOf)
      BY <2>4, <3>2 DEF Silent
    <3>4. \A known : Leaves(r, UniverseOf, known, u)
      BY <2>4, <3>2 DEF Leaves
    <3>. QED
      BY <2>4, <3>3, <3>4 DEF Retells
  <2>. QED
    BY <2>3, <2>4
<1>. QED
  BY <1>1, <1>7, <1>8 DEF r

LEMMA StoreInvInit == Init => StoreInv
<1>. SUFFICES ASSUME Init PROVE StoreInv
  OBVIOUS
<1>1. /\ conns = <<>> /\ ~Up
      /\ storeQuotes = NoQuotes /\ storeUniverse = 0
  BY DEF Init, Up
<1>2. \A s \in Symbols : storeQuotes[s] = 0
  BY <1>1 DEF NoQuotes
<1>3. \A V, td, last : Tells(FALSE, <<>>, td, V, 0, last)
  BY DEF Tells
<1>4. Up <=> FALSE
  BY <1>1
<1>. QED
  BY <1>1, <1>2, <1>3, <1>4 DEF StoreInv

\* A message is sent, and what is cached by then may be what it says.
LEMMA SendTells ==
    ASSUME TypeInv, conns # <<>> => listening, pc # "write",
           NEW msg \in Message, NEW rows \in Rows, NEW u \in 0 .. MaxUniverses, NEW cont,
           Send(msg, rows, u, cont)
    PROVE  \A V \in Readings : \A store, last \in Nat :
               ( /\ Tells(Up, conns, todo, V, store, last)
                 /\ Retells(Resync(rows, u), V, After(last, V[msg])) )
               => Tells(Up', conns', todo', V, store, After(last, V[msg]))
<1>. SUFFICES ASSUME NEW V \in Readings, NEW store \in Nat, NEW last \in Nat,
                     Tells(Up, conns, todo, V, store, last),
                     Retells(Resync(rows, u), V, After(last, V[msg]))
              PROVE  Tells(Up', conns', todo', V, store, After(last, V[msg]))
  BY Zenon
<1>. DEFINE new == After(last, V[msg])
<1>1. /\ todo = <<>> /\ conns \in Seq(Connection) /\ V[msg] \in Nat
      /\ MaxConns \in Nat
  BY FeedLinkAssumption DEF TypeInv, CallOK, LinkOK, Readings
<1>2. new \in Nat /\ (new = 0 => last = 0) /\ V[msg] \in {0, new}
  BY <1>1 DEF After
<1>3. CASE link # "none"
  <2>1. todo' = <<msg>> /\ conns' = conns /\ link' = link
    BY <1>3 DEF Send, socketVars
  <2>2. CASE link = "up"
    <3>1. Up /\ Up' /\ (Up <=> TRUE) /\ (Up' <=> TRUE)
      BY <2>1, <2>2 DEF Up
    <3>2. conns # <<>>
      BY <2>2, NewestThere
    <3>3. Tells(TRUE, conns, <<>>, V, store, last)
      BY <1>1, <3>1
    <3>4. Tells(TRUE, conns, <<msg>>, V, store, new)
      BY <1>1, <3>2, <3>3, TellsSent
    <3>. QED
      BY <2>1, <3>1, <3>4
  <2>3. CASE link # "up"
    <3>1. Up' <=> FALSE
      BY <2>1, <2>3 DEF Up
    <3>2. Tells(FALSE, conns, todo', V, store, new)
      BY <1>1, <1>2, TellsDown
    <3>. QED
      BY <2>1, <3>1, <3>2
  <2>. QED
    BY <2>2, <2>3
<1>4. CASE link = "none" /\ link' = "up"
  <2>. DEFINE r == Resync(rows, u)
  <2>1. /\ todo' = Append(r, msg) /\ conns' = Attach(conns) /\ Len(conns) < MaxConns
    BY <1>4 DEF Send, Attach, Reachable
  <2>2. (Up <=> FALSE) /\ (Up' <=> TRUE)
    BY <1>4 DEF Up
  <2>3. Tells(FALSE, conns, todo, V, store, last)
    BY Zenon DEF Tells
  <2>4. r \in Seq(Message)
    BY ResyncRetells
  <2>. HIDE DEF r, new
  <2>5. Retells(r, V, new)
    BY DEF r, new
  <2>6. Tells(TRUE, Attach(conns), Append(r, msg), V, store, new)
    BY <1>1, <1>2, <2>1, <2>3, <2>4, <2>5, TellsAttached
  <2>. QED
    BY <2>1, <2>2, <2>6 DEF new
<1>5. CASE link = "none" /\ link' # "up"
  <2>1. conns' = conns
    BY <1>5 DEF Send
  <2>2. Up' <=> FALSE
    BY <1>5 DEF Up
  <2>3. Tells(FALSE, conns, todo', V, store, new)
    BY <1>1, <1>2, TellsDown
  <2>. QED
    BY <2>1, <2>2, <2>3
<1>. QED
  BY <1>3, <1>4, <1>5

\* A call caches no more than what it sends.
LEMMA SendCaches ==
    ASSUME TypeInv, StoreInv, pc # "write",
           NEW msg \in Message, NEW rows \in Rows, NEW u \in 0 .. MaxUniverses, NEW cont,
           Send(msg, rows, u, cont), UNCHANGED terminalSide,
           lastQuotes' = rows, lastUniverse' = u,
           \A s \in Symbols : rows[s] = After(lastQuotes[s], QuoteOf(s)[msg]),
           u = After(lastUniverse, UniverseOf[msg])
    PROVE  StoreInv'
<1>1. /\ UNCHANGED <<listening, storeQuotes, storeUniverse>>
      /\ conns # <<>> => listening
  BY DEF terminalSide, serverVars, storeVars, StoreInv
<1>2. conns' # <<>> => listening'
  <2>1. conns' = conns \/ Reachable
    BY SendConnects
  <2>. QED
    BY <1>1, <2>1 DEF Reachable
<1>3. /\ \A s \in Symbols : storeQuotes[s] \in Nat /\ lastQuotes[s] \in Nat
      /\ storeUniverse \in Nat /\ lastUniverse \in Nat
  BY ReadingsType DEF TypeInv, StoreOK, CacheOK, Rows
<1>4. /\ \A s \in Symbols : Retells(Resync(rows, u), QuoteOf(s), rows[s])
      /\ Retells(Resync(rows, u), UniverseOf, u)
  BY ResyncRetells
<1>5. \A V \in Readings : \A store, last \in Nat :
          ( /\ Tells(Up, conns, todo, V, store, last)
            /\ Retells(Resync(rows, u), V, After(last, V[msg])) )
          => Tells(Up', conns', todo', V, store, After(last, V[msg]))
  BY <1>1, SendTells
<1>6. ASSUME NEW s \in Symbols
      PROVE  Tells(Up, conns, todo, QuoteOf(s), storeQuotes[s], lastQuotes[s])'
  <2>1. Tells(Up, conns, todo, QuoteOf(s), storeQuotes[s], lastQuotes[s])
    BY DEF StoreInv
  <2>2. QuoteOf(s) \in Readings /\ storeQuotes[s] \in Nat /\ lastQuotes[s] \in Nat
    BY <1>3, ReadingsType
  <2>3. Tells(Up', conns', todo', QuoteOf(s), storeQuotes[s], rows[s])
    BY <1>4, <1>5, <2>1, <2>2, Zenon
  <2>. QED
    BY <1>1, <2>3
<1>7. Tells(Up, conns, todo, UniverseOf, storeUniverse, lastUniverse)'
  <2>1. Tells(Up, conns, todo, UniverseOf, storeUniverse, lastUniverse)
    BY DEF StoreInv
  <2>2. Tells(Up', conns', todo', UniverseOf, storeUniverse, u)
    BY <1>3, <1>4, <1>5, <2>1, ReadingsType, Zenon
  <2>. QED
    BY <1>1, <2>2
<1>. QED
  BY <1>2, <1>6, <1>7 DEF StoreInv

\* Where neither store nor caches change, it is enough that the stream says as
\* much as before.
LEMMA TellsOn ==
    ASSUME TypeInv, StoreInv, UNCHANGED <<cacheVars, storeQuotes, storeUniverse>>,
           conns' # <<>> => listening',
           \A V \in Readings : \A store, last \in Nat :
               Tells(Up, conns, todo, V, store, last)
               => Tells(Up', conns', todo', V, store, last)
    PROVE  StoreInv'
<1>1. UNCHANGED <<lastQuotes, lastUniverse>>
  BY DEF cacheVars
<1>2. /\ \A s \in Symbols : storeQuotes[s] \in Nat /\ lastQuotes[s] \in Nat
      /\ storeUniverse \in Nat /\ lastUniverse \in Nat
  BY ReadingsType DEF TypeInv, StoreOK, CacheOK, Rows
<1>3. ASSUME NEW s \in Symbols
      PROVE  Tells(Up', conns', todo', QuoteOf(s), storeQuotes[s], lastQuotes[s])
  BY <1>2, ReadingsType, Zenon DEF StoreInv
<1>4. Tells(Up', conns', todo', UniverseOf, storeUniverse, lastUniverse)
  BY <1>2, ReadingsType, Zenon DEF StoreInv
<1>. QED
  BY <1>1, <1>3, <1>4 DEF StoreInv

LEMMA StoreInvHandles == TypeInv /\ StoreInv /\ HandleLine => StoreInv'
<1>. SUFFICES ASSUME TypeInv, StoreInv, HandleLine PROVE StoreInv'
  OBVIOUS
<1>. DEFINE line == Head(conns[1].lines)
<1>1. /\ conns # <<>> /\ conns[1].lines # <<>> /\ line \in Message /\ Apply(line)
      /\ conns \in Seq(Connection) /\ todo \in Seq(Message)
  BY HandledIs DEF TypeInv, LinkOK, CallOK
<1>2. PICK r \in Connection : /\ conns' = [conns EXCEPT ![1] = r]
                              /\ r.lines = Tail(conns[1].lines)
  BY HandledIs
<1>3. UNCHANGED <<todo, link, listening, lastQuotes, lastUniverse>>
  BY DEF HandleLine, callVars, dataVars, cacheVars, socketVars, serverVars
<1>4. Up \in BOOLEAN /\ (Up' <=> Up)
  BY <1>3 DEF Up
<1>5. /\ \A s \in Symbols : storeQuotes[s] \in Nat /\ lastQuotes[s] \in Nat
      /\ storeUniverse \in Nat /\ lastUniverse \in Nat
  BY ReadingsType DEF TypeInv, StoreOK, CacheOK, Rows
<1>6. /\ \A s \in Symbols : storeQuotes'[s] = After(storeQuotes[s], QuoteOf(s)[line])
      /\ storeUniverse' = After(storeUniverse, UniverseOf[line])
  <2>1. line.m = "universe" => line.version # 0
    BY <1>1 DEF Message
  <2>. HIDE DEF line
  <2>. QED
    BY <1>1, <2>1, ReadingsAre DEF Apply, Overlay, After
<1>7. \A V \in Readings : \A store, last \in Nat :
          Tells(Up, conns, todo, V, store, last)
          => Tells(Up', conns', todo', V, After(store, V[line]), last)
  <2>. SUFFICES ASSUME NEW V \in Readings, NEW store \in Nat, NEW last \in Nat,
                       Tells(Up, conns, todo, V, store, last)
                PROVE  Tells(Up', conns', todo', V, After(store, V[line]), last)
    BY Zenon
  <2>1. Tells(Up, conns', todo, V, After(store, V[line]), last)
    BY <1>1, <1>2, <1>4, TellsHandled
  <2>. HIDE DEF line
  <2>. QED
    BY <1>3, <1>4, <2>1, Zenon DEF Tells
<1>. HIDE DEF line
<1>8. ASSUME NEW s \in Symbols
      PROVE  Tells(Up, conns, todo, QuoteOf(s), storeQuotes[s], lastQuotes[s])'
  <2>1. Tells(Up', conns', todo', QuoteOf(s),
              After(storeQuotes[s], QuoteOf(s)[line]), lastQuotes[s])
    BY <1>5, <1>7, ReadingsType, Zenon DEF StoreInv
  <2>. QED
    BY <1>3, <1>6, <2>1
<1>9. Tells(Up, conns, todo, UniverseOf, storeUniverse, lastUniverse)'
  <2>1. Tells(Up', conns', todo', UniverseOf,
              After(storeUniverse, UniverseOf[line]), lastUniverse)
    BY <1>5, <1>7, ReadingsType, Zenon DEF StoreInv
  <2>. QED
    BY <1>3, <1>6, <2>1
<1>10. conns' # <<>> => listening'
  BY <1>1, <1>3 DEF StoreInv
<1>. QED
  BY <1>8, <1>9, <1>10 DEF StoreInv

LEMMA StoreInvStep == TypeInv /\ StoreInv /\ [Next]_vars => StoreInv'
<1>. SUFFICES ASSUME TypeInv, StoreInv, [Next]_vars PROVE StoreInv'
  OBVIOUS
<1>0. /\ conns \in Seq(Connection) /\ todo \in Seq(Message)
      /\ conns # <<>> => listening
      /\ lastQuotes \in Rows /\ lastUniverse \in 0 .. MaxUniverses
  BY DEF TypeInv, LinkOK, CallOK, CacheOK, StoreInv
<1>1. ASSUME UNCHANGED <<conns, todo, link, listening, storeQuotes, storeUniverse,
                         lastQuotes, lastUniverse>>
      PROVE  StoreInv'
  BY <1>1 DEF StoreInv, Up, Tells, Stream
\* A message about anything else.
<1>2. ASSUME NEW msg \in Message, msg.m \notin {"quotes", "universe"}, NEW cont, pc # "write",
             Send(msg, lastQuotes, lastUniverse, cont), UNCHANGED <<terminalSide, cacheVars>>
      PROVE  StoreInv'
  <2>1. /\ lastQuotes' = lastQuotes /\ lastUniverse' = lastUniverse
        /\ \A s \in Symbols : QuoteOf(s)[msg] = 0
        /\ UniverseOf[msg] = 0
    BY <1>2, ReadingsAre DEF cacheVars
  <2>2. \A x : After(x, 0) = x
    BY DEF After
  <2>. QED
    BY <1>0, <1>2, <2>1, <2>2, SendCaches
<1>3. CASE (\E s \in Symbols : EmitQuote(s)) \/ EmitTrade \/ EmitLastMatch \/ FlushTimer \/ RetryDue
           \/ Accept \/ UNCHANGED vars
  <2>1. UNCHANGED <<conns, todo, link, listening, storeQuotes, storeUniverse,
                    lastQuotes, lastUniverse>>
    BY <1>3 DEF EmitQuote, EmitTrade, EmitLastMatch, FlushTimer, RetryDue, Accept, vars, callVars,
                dataVars, cacheVars, socketVars, terminalSide, serverVars, storeVars
  <2>. QED
    BY <1>1, <2>1
<1>4. CASE SetUniverse
  <2>. DEFINE msg == UniverseMsg(lastUniverse')
  <2>1. /\ pc = "idle" /\ lastUniverse < MaxUniverses /\ lastUniverse' = lastUniverse + 1
        /\ lastQuotes' = lastQuotes /\ UNCHANGED terminalSide
        /\ Send(msg, lastQuotes, lastUniverse', "idle")
    BY <1>4 DEF SetUniverse
  <2>2. lastUniverse' \in 1 .. MaxUniverses
    BY <1>0, <2>1, ReadingsType
  <2>3. msg \in Message /\ msg.m = "universe" /\ msg.version = lastUniverse'
    BY <2>2, MessagesType DEF UniverseMsg
  <2>. HIDE DEF msg
  <2>4. /\ \A s \in Symbols : lastQuotes[s] = After(lastQuotes[s], QuoteOf(s)[msg])
        /\ lastUniverse' = After(lastUniverse, UniverseOf[msg])
    BY <2>2, <2>3, ReadingsAre DEF After
  <2>. QED
    BY <1>0, <2>1, <2>2, <2>3, <2>4, SendCaches
<1>5. CASE PublishHistory
  <2>1. /\ pc = "idle" /\ UNCHANGED <<terminalSide, cacheVars>>
        /\ \E fetched \in 1 .. prints :
              Send(HistoryMsg([k \in 1 .. fetched |-> CandleTime(k)]),
                   lastQuotes, lastUniverse, "idle")
    BY <1>5 DEF PublishHistory, dataVars, cacheVars
  <2>2. \A fetched \in 1 .. prints :
            HistoryMsg([k \in 1 .. fetched |-> CandleTime(k)]).m = "history"
    BY DEF HistoryMsg
  <2>3. PICK msg \in Message : /\ Send(msg, lastQuotes, lastUniverse, "idle")
                               /\ msg.m = "history"
    BY <2>1, <2>2, MessagesType
  <2>. QED
    BY <1>2, <2>1, <2>3
<1>6. CASE Poll
  <2>1. /\ pc = "idle" /\ UNCHANGED <<terminalSide, cacheVars>>
        /\ Send(PollMsg, lastQuotes, lastUniverse, "reply")
    BY <1>6 DEF Poll, dataVars, cacheVars
  <2>2. PollMsg \in Message /\ PollMsg.m = "poll"
    BY MessagesType DEF PollMsg
  <2>. QED
    BY <1>2, <2>1, <2>2
<1>7. CASE FlushTrades
  <2>1. /\ pc = "trades" /\ UNCHANGED <<terminalSide, cacheVars>>
        /\ \/ UNCHANGED <<todo, socketVars, conns>>
           \/ trades # <<>> /\ Send(TradesMsg(trades), lastQuotes, lastUniverse, "quotes")
    BY <1>7 DEF FlushTrades
  <2>2. CASE UNCHANGED <<todo, socketVars, conns>>
    BY <1>1, <2>1, <2>2 DEF terminalSide, serverVars, storeVars, cacheVars, socketVars
  <2>3. CASE trades # <<>> /\ Send(TradesMsg(trades), lastQuotes, lastUniverse, "quotes")
    <3>1. TradesMsg(trades) \in Message /\ TradesMsg(trades).m = "trades"
      BY <2>3, MessagesType DEF TradesMsg
    <3>. QED
      BY <1>2, <2>1, <2>3, <3>1
  <2>. QED
    BY <2>1, <2>2, <2>3
<1>8. CASE FlushQuotes
  <2>. DEFINE rows == RowsOf(quotes)
              msg == QuotesMsg(rows)
  <2>1. /\ pc = "quotes" /\ UNCHANGED terminalSide /\ lastUniverse' = lastUniverse
        /\ lastQuotes' = Overlay(lastQuotes, rows)
        /\ \/ quotes = <<>> /\ UNCHANGED <<todo, socketVars, conns>>
           \/ Send(msg, lastQuotes', lastUniverse, "idle")
    BY <1>8 DEF FlushQuotes
  <2>2. CASE quotes = <<>> /\ UNCHANGED <<todo, socketVars, conns>>
    <3>1. \A s \in Symbols : RowsOf(<<>>)[s] = 0
      BY DEF RowsOf
    <3>2. Overlay(lastQuotes, rows) = lastQuotes
      <4>1. \A s \in Symbols : rows[s] = 0
        BY <2>2, <3>1
      <4>. HIDE DEF rows
      <4>. QED
        BY <1>0, <4>1 DEF Overlay, Rows
    <3>. QED
      BY <1>1, <2>1, <2>2, <3>2 DEF terminalSide, serverVars, storeVars, socketVars
  <2>3. CASE Send(msg, lastQuotes', lastUniverse, "idle")
    <3>1. msg \in Message /\ msg.m = "quotes" /\ msg.rows = rows /\ lastQuotes' \in Rows
      BY <2>1, MessagesType DEF QuotesMsg
    <3>. HIDE DEF msg, rows
    <3>2. /\ \A s \in Symbols : lastQuotes'[s] = After(lastQuotes[s], QuoteOf(s)[msg])
          /\ lastUniverse = After(lastUniverse, UniverseOf[msg])
      BY <2>1, <3>1, ReadingsAre DEF After, Overlay
    <3>. QED
      BY <1>0, <2>1, <2>3, <3>1, <3>2, SendCaches
  <2>. QED
    BY <2>1, <2>2, <2>3
<1>9. CASE WriteDelivered
  <2>1. /\ link = "up" /\ UNCHANGED <<link, listening, cacheVars, storeQuotes, storeUniverse>>
    BY <1>9 DEF WriteDelivered, dataVars, socketVars, terminalSide, serverVars, storeVars
  <2>2. (Up <=> TRUE) /\ (Up' <=> TRUE) /\ conns # <<>>
    BY <2>1, NewestThere DEF Up
  <2>3. PICK r \in Connection : /\ conns' = [conns EXCEPT ![Len(conns)] = r]
                                /\ r.lines = Append(Last(conns).lines, Head(todo))
                                /\ todo # <<>> /\ todo' = Tail(todo)
    BY <1>9, DeliveredIs
  <2>4. r.lines = Append(conns[Len(conns)].lines, Head(todo))
    BY <2>1, <2>3, NewestThere
  <2>5. \A V \in Readings : \A store, last \in Nat :
            Tells(TRUE, conns, todo, V, store, last)
            => Tells(TRUE, conns', todo', V, store, last)
    BY <1>0, <2>2, <2>3, <2>4, TellsWritten
  <2>. QED
    BY <1>0, <2>1, <2>2, <2>5, TellsOn
<1>10. CASE WriteLost \/ WriteFails \/ ReplyFails
  <2>1. /\ UNCHANGED <<conns, listening, cacheVars, storeQuotes, storeUniverse>>
        /\ link' # "up"
    BY <1>10 DEF WriteLost, WriteFails, ReplyFails, dataVars, terminalSide, serverVars,
                 storeVars
  <2>2. Up' <=> FALSE
    BY <2>1 DEF Up
  <2>3. \A V \in Readings : \A store, last \in Nat :
            Tells(Up, conns, todo, V, store, last)
            => Tells(FALSE, conns, todo', V, store, last)
    BY <1>0, TellsDown
  <2>. QED
    BY <1>0, <2>1, <2>2, <2>3, TellsOn
<1>11. CASE ReadReply
  <2>1. UNCHANGED <<todo, link, listening, cacheVars, storeQuotes, storeUniverse>>
    BY <1>11 DEF ReadReply, dataVars, socketVars, terminalSide, serverVars, storeVars
  <2>2. Up' <=> Up
    BY <2>1 DEF Up
  <2>3. CASE UNCHANGED conns
    BY <1>1, <2>1, <2>3 DEF cacheVars
  <2>4. CASE ~UNCHANGED conns
    <3>1. PICK r \in Connection : /\ conns' = [conns EXCEPT ![Len(conns)] = r]
                                  /\ r.lines = conns[Len(conns)].lines /\ link = "up"
      BY <1>11, <2>4, RepliedIs
    <3>2. Len(conns) \in 1 .. Len(conns) /\ conns # <<>>
      BY <3>1, NewestThere
    <3>3. \A V \in Readings : \A store, last \in Nat :
              Tells(Up, conns, todo, V, store, last)
              => Tells(Up, conns', todo, V, store, last)
      BY <1>0, <3>1, <3>2, TellsUnread
    <3>. QED
      BY <1>0, <2>1, <2>2, <3>2, <3>3, TellsOn
  <2>. QED
    BY <2>3, <2>4
<1>12. CASE ReplyTimesOut
  <2>1. /\ UNCHANGED <<listening, cacheVars, storeQuotes, storeUniverse>>
        /\ link = "up" /\ link' = "none"
    BY <1>12 DEF ReplyTimesOut, dataVars, serverVars, storeVars
  <2>2. (Up' <=> FALSE) /\ Len(conns) \in 1 .. Len(conns) /\ conns # <<>>
    BY <2>1, NewestThere DEF Up
  <2>3. PICK r \in Connection, kept \in 0 .. Len(conns[Len(conns)].lines) :
               /\ conns' = [conns EXCEPT ![Len(conns)] = r]
               /\ r.lines = SubSeq(conns[Len(conns)].lines, 1, kept)
    BY <1>12, TimedOutIs
  <2>4. \A V \in Readings : \A store, last \in Nat :
            Tells(Up, conns, todo, V, store, last)
            => Tells(Up', conns', todo', V, store, last)
    <3>. SUFFICES ASSUME NEW V \in Readings, NEW store \in Nat, NEW last \in Nat,
                         Tells(Up, conns, todo, V, store, last)
                  PROVE  Tells(Up', conns', todo', V, store, last)
      BY Zenon
    <3>1. Tells(FALSE, conns', todo', V, store, last)
      <4>1. Tells(FALSE, [conns EXCEPT ![Len(conns)] = r], todo', V, store, last)
        BY <1>0, <2>2, <2>3, TellsShortened, Zenon
      <4>. QED
        BY <2>3, <4>1, Zenon
    <3>. QED
      BY <2>2, <3>1, Zenon DEF Tells
  <2>5. conns' # <<>> => listening'
    BY <1>0, <2>1, <2>2
  <2>. QED
    BY <2>1, <2>4, <2>5, TellsOn
<1>13. CASE StartTerminal
  <2>1. /\ ~listening /\ conns' = conns /\ UNCHANGED <<link, lastQuotes, lastUniverse>>
        /\ storeQuotes' = NoQuotes /\ storeUniverse' = 0
    BY <1>13 DEF StartTerminal, socketVars, dataVars, cacheVars
  <2>2. conns' = <<>>
    BY <1>0, <2>1
  <2>3. Up' <=> FALSE
    BY <2>1, <2>2, NewestThere DEF Up, TypeInv, LinkInv, NewestOpen
  <2>4. \A s \in Symbols : storeQuotes'[s] = 0
    BY <2>1 DEF NoQuotes
  <2>5. /\ \A s \in Symbols : Tells(FALSE, <<>>, todo', QuoteOf(s), 0, lastQuotes'[s])
        /\ Tells(FALSE, <<>>, todo', UniverseOf, 0, lastUniverse')
    BY ReadingsType, TellsNobody
  <2>. QED
    BY <2>1, <2>2, <2>3, <2>4, <2>5 DEF StoreInv
<1>14. CASE StopTerminal
  <2>1. /\ conns' = <<>> /\ link' # "up"
        /\ UNCHANGED <<lastQuotes, lastUniverse, storeQuotes, storeUniverse>>
    BY <1>14 DEF StopTerminal, storeVars, dataVars, cacheVars
  <2>2. Up' <=> FALSE
    BY <2>1 DEF Up
  <2>3. \A V \in Readings : \A store, last \in Nat :
            Tells(Up, conns, todo, V, store, last)
            => Tells(FALSE, <<>>, todo', V, store, last)
    BY TellsNobody DEF Tells
  <2>. QED
    BY <2>1, <2>2, <2>3, TellsOn DEF cacheVars
<1>15. CASE HandleLine
  BY <1>15, StoreInvHandles
<1>16. CASE PeerClosed
  <2>1. /\ serving /\ Head(conns).eof /\ conns' = Tail(conns)
        /\ UNCHANGED <<todo, link, listening, cacheVars, storeQuotes, storeUniverse>>
    BY <1>16 DEF PeerClosed, callVars, dataVars, socketVars, storeVars
  <2>2. conns # <<>> /\ conns[1].eof /\ Len(conns) \in Nat \ {0}
    BY <2>1, OldestThere
  <2>3. Up \in BOOLEAN /\ (Up' <=> Up)
    BY <2>1 DEF Up
  <2>4. Up => Len(conns) > 1
    BY <2>2 DEF Up, TypeInv, LinkInv, NewestOpen
  <2>5. \A V \in Readings : \A store, last \in Nat :
            Tells(Up, conns, todo, V, store, last)
            => Tells(Up, conns', todo, V, store, last)
    BY <1>0, <2>1, <2>2, <2>3, <2>4, TellsClosed
  <2>6. \A V \in Readings : \A store, last \in Nat :
            Tells(Up, conns, todo, V, store, last)
            => Tells(Up', conns', todo', V, store, last)
    BY <2>1, <2>3, <2>5, Zenon DEF Tells
  <2>7. listening'
    BY <1>0, <2>1, <2>2
  <2>. QED
    BY <2>1, <2>6, <2>7, TellsOn
<1>. QED
  BY <1>3, <1>4, <1>5, <1>6, <1>7, <1>8, <1>9, <1>10, <1>11, <1>12, <1>13, <1>14,
     <1>15, <1>16 DEF Next

\* A terminal that is attached and has read everything knows the newest quote of
\* every symbol and the universe, for any symbols and bounds, and whatever was
\* sent, dropped, lost or cut off before it attached (publisher.py:49-67,
\* feed_server.cpp:105-106).
THEOREM TerminalCatchesUp == Spec => []StoreCatchesUp
<1>1. Init => TypeInv /\ StoreInv
  BY TypeInit, StoreInvInit
<1>2. TypeInv /\ StoreInv /\ [Next]_vars => (TypeInv /\ StoreInv)'
  BY TypeStep, StoreInvStep
<1>. QED
  BY <1>1, <1>2, StoreInvSays, PTL DEF Spec

-----------------------------------------------------------------------------
(* Where the trades are: on the tape, in the lines of each connection, in   *)
(* the messages still to be written, or in the buffer.                     *)

Below(S, T) == \A x \in S : \A y \in T : x <= y

\* T on the tape, L[c] in connection c of n, Q to be written, R buffered, and no
\* trade later than b: no place holds an older trade than the places it goes to.
Staged(T, n, L, Q, R, b) ==
    /\ Below(T, Q) /\ Below(T, R) /\ Below(Q, R)
    /\ \A c \in 1 .. n : Below(T, L[c]) /\ Below(L[c], Q) /\ Below(L[c], R)
    /\ \A c, d \in 1 .. n : c < d => Below(L[c], L[d])
    /\ \A x \in T \cup Q \cup R : x \in Nat /\ x <= b
    /\ \A c \in 1 .. n : \A x \in L[c] : x \in Nat /\ x <= b

LEMMA StagedLess ==
    ASSUME NEW T, NEW n, NEW L, NEW Q, NEW R, NEW b, Staged(T, n, L, Q, R, b),
           NEW T2 \in SUBSET T, NEW L2, \A c \in 1 .. n : L2[c] \subseteq L[c],
           NEW Q2 \in SUBSET Q, NEW R2 \in SUBSET R
    PROVE  Staged(T2, n, L2, Q2, R2, b)
<1>1. Below(T2, Q2) /\ Below(T2, R2) /\ Below(Q2, R2)
  BY DEF Staged, Below
<1>2. \A c \in 1 .. n : Below(T2, L2[c]) /\ Below(L2[c], Q2) /\ Below(L2[c], R2)
  BY Zenon DEF Staged, Below
<1>3. \A c, d \in 1 .. n : c < d => Below(L2[c], L2[d])
  BY Zenon DEF Staged, Below
<1>4. /\ \A x \in T2 \cup Q2 \cup R2 : x \in Nat /\ x <= b
      /\ \A c \in 1 .. n : \A x \in L2[c] : x \in Nat /\ x <= b
  BY Zenon DEF Staged
<1>. QED
  BY <1>1, <1>2, <1>3, <1>4, Zenon DEF Staged

LEMMA StagedEmit ==
    ASSUME NEW T, NEW n, NEW L, NEW Q, NEW R, NEW b \in Nat, Staged(T, n, L, Q, R, b),
           NEW x \in Nat, x >= b
    PROVE  Staged(T, n, L, Q, R \cup {x}, x)
<1>1. \A y \in Nat : y <= b => y <= x
  OBVIOUS
<1>2. /\ Below(T, R \cup {x}) /\ Below(Q, R \cup {x})
      /\ \A c \in 1 .. n : Below(L[c], R \cup {x})
  BY <1>1, Zenon DEF Staged, Below
<1>3. /\ \A y \in T \cup Q \cup (R \cup {x}) : y \in Nat /\ y <= x
      /\ \A c \in 1 .. n : \A y \in L[c] : y \in Nat /\ y <= x
  <2>1. x <= x
    OBVIOUS
  <2>. QED
    BY <1>1, <2>1, Zenon DEF Staged
<1>. QED
  BY <1>2, <1>3, Zenon DEF Staged

\* The buffer goes into the message to be written.
LEMMA StagedFlush ==
    ASSUME NEW T, NEW n, NEW L, NEW R, NEW b, Staged(T, n, L, {}, R, b)
    PROVE  Staged(T, n, L, R, {}, b)
<1>1. Below(T, R) /\ \A c \in 1 .. n : Below(T, L[c]) /\ Below(L[c], R)
  BY DEF Staged
<1>2. \A S : Below(S, {})
  BY DEF Below
<1>3. \A x \in T \cup R \cup {} : x \in Nat /\ x <= b
  BY DEF Staged
<1>. QED
  BY <1>1, <1>2, <1>3, Zenon DEF Staged

LEMMA StagedAttach ==
    ASSUME NEW T, NEW n \in Nat, NEW L, NEW Q, NEW R, NEW b, Staged(T, n, L, Q, R, b),
           NEW L2, \A c \in 1 .. n : L2[c] = L[c], L2[n + 1] = {}
    PROVE  Staged(T, n + 1, L2, Q, R, b)
<1>1. \A c \in 1 .. n + 1 : c \in 1 .. n \/ c = n + 1
  OBVIOUS
<1>2. \A S : Below(S, {}) /\ Below({}, S)
  BY DEF Below
<1>3. \A c \in 1 .. n + 1 :
          /\ Below(T, L2[c]) /\ Below(L2[c], Q) /\ Below(L2[c], R)
          /\ \A x \in L2[c] : x \in Nat /\ x <= b
  BY <1>1, <1>2, Zenon DEF Staged
<1>4. \A c, d \in 1 .. n + 1 : c < d => Below(L2[c], L2[d])
  BY <1>1, <1>2, Zenon DEF Staged
<1>. QED
  BY <1>3, <1>4, Zenon DEF Staged

\* X moves on from the messages to be written to the newest connection.
LEMMA StagedWrite ==
    ASSUME NEW T, NEW n \in Nat \ {0}, NEW L, NEW Q, NEW R, NEW b,
           Staged(T, n, L, Q, R, b), NEW X \in SUBSET Q, NEW Q2 \in SUBSET Q, Below(X, Q2),
           NEW L2, \A c \in 1 .. n : L2[c] = IF c = n THEN L[n] \cup X ELSE L[c]
    PROVE  Staged(T, n, L2, Q2, R, b)
<1>0. n \in 1 .. n /\ \A c \in 1 .. n : ~(n < c)
  OBVIOUS
<1>1. \A c \in 1 .. n : c # n => L2[c] = L[c]
  OBVIOUS
<1>2. L2[n] = L[n] \cup X
  BY <1>0
<1>3. \A c \in 1 .. n : /\ Below(T, L2[c]) /\ Below(L2[c], Q2) /\ Below(L2[c], R)
                        /\ \A x \in L2[c] : x \in Nat /\ x <= b
  <2>. SUFFICES ASSUME NEW c \in 1 .. n
                PROVE  /\ Below(T, L2[c]) /\ Below(L2[c], Q2) /\ Below(L2[c], R)
                       /\ \A x \in L2[c] : x \in Nat /\ x <= b
    OBVIOUS
  <2>1. CASE c = n
    <3>1. L2[c] = L[n] \cup X
      BY <1>2, <2>1
    <3>. QED
      BY <1>0, <3>1, Zenon DEF Staged, Below
  <2>2. CASE c # n
    <3>1. L2[c] = L[c]
      BY <1>1, <2>2
    <3>. QED
      BY <3>1, Zenon DEF Staged, Below
  <2>. QED
    BY <2>1, <2>2
<1>4. ASSUME NEW c \in 1 .. n, NEW d \in 1 .. n, c < d PROVE Below(L2[c], L2[d])
  <2>1. c # n
    BY <1>0, <1>4
  <2>2. L2[c] = L[c]
    BY <1>1, <2>1
  <2>3. CASE d = n
    <3>1. L2[d] = L[n] \cup X
      BY <1>2, <2>3
    <3>. QED
      BY <1>0, <1>4, <2>2, <2>3, <3>1, Zenon DEF Staged, Below
  <2>4. CASE d # n
    <3>1. L2[d] = L[d]
      BY <1>1, <2>4
    <3>. QED
      BY <1>4, <2>2, <3>1, Zenon DEF Staged
  <2>. QED
    BY <2>3, <2>4
<1>5. /\ Below(T, Q2) /\ Below(T, R) /\ Below(Q2, R)
      /\ \A x \in T \cup Q2 \cup R : x \in Nat /\ x <= b
  BY Zenon DEF Staged, Below
<1>. QED
  BY <1>3, <1>4, <1>5, Zenon DEF Staged

\* X moves on from the oldest connection to the tape.
LEMMA StagedHandle ==
    ASSUME NEW T, NEW n \in Nat \ {0}, NEW L, NEW Q, NEW R, NEW b,
           Staged(T, n, L, Q, R, b), NEW X \in SUBSET L[1],
           NEW L2, \A c \in 1 .. n : c # 1 => L2[c] = L[c],
           L2[1] \subseteq L[1], Below(X, L2[1]), NEW T2 \in SUBSET (T \cup X)
    PROVE  Staged(T2, n, L2, Q, R, b)
<1>0. 1 \in 1 .. n /\ \A c \in 1 .. n : c # 1 => 1 < c
  OBVIOUS
<1>1. /\ Below(T2, Q) /\ Below(T2, R) /\ Below(Q, R)
      /\ \A x \in T2 \cup Q \cup R : x \in Nat /\ x <= b
  BY <1>0, Zenon DEF Staged, Below
<1>2. \A c \in 1 .. n : L2[c] \subseteq L[c]
  BY <1>0
<1>3. \A c \in 1 .. n : /\ Below(L2[c], Q) /\ Below(L2[c], R)
                        /\ \A x \in L2[c] : x \in Nat /\ x <= b
  BY <1>2, Zenon DEF Staged, Below
<1>4. \A c, d \in 1 .. n : c < d => Below(L2[c], L2[d])
  BY <1>2, Zenon DEF Staged, Below
<1>5. ASSUME NEW c \in 1 .. n PROVE Below(T2, L2[c])
  <2>1. Below(T, L2[c])
    BY <1>2, Zenon DEF Staged, Below
  <2>2. Below(X, L2[c])
    <3>1. CASE c = 1
      BY <3>1
    <3>2. CASE c # 1
      <4>1. Below(L[1], L[c])
        BY <1>0, <3>2, Zenon DEF Staged
      <4>. QED
        BY <1>2, <4>1, Zenon DEF Below
    <3>. QED
      BY <3>1, <3>2
  <2>. QED
    BY <2>1, <2>2, Zenon DEF Below
<1>. QED
  BY <1>1, <1>3, <1>4, <1>5, Zenon DEF Staged

LEMMA StagedClose ==
    ASSUME NEW T, NEW n \in Nat \ {0}, NEW L, NEW Q, NEW R, NEW b,
           Staged(T, n, L, Q, R, b), NEW L2, \A c \in 1 .. n - 1 : L2[c] = L[c + 1]
    PROVE  Staged(T, n - 1, L2, Q, R, b)
<1>1. \A c \in 1 .. n - 1 : c + 1 \in 1 .. n
  OBVIOUS
<1>2. \A c, d \in 1 .. n - 1 : c < d => c + 1 < d + 1
  OBVIOUS
<1>3. \A c \in 1 .. n - 1 : /\ Below(T, L2[c]) /\ Below(L2[c], Q) /\ Below(L2[c], R)
                            /\ \A x \in L2[c] : x \in Nat /\ x <= b
  BY <1>1 DEF Staged
<1>4. \A c, d \in 1 .. n - 1 : c < d => Below(L2[c], L2[d])
  BY <1>1, <1>2 DEF Staged
<1>. QED
  BY <1>3, <1>4, Zenon DEF Staged

TradesIn(msg) == IF msg.m = "trades" THEN Range(msg.list) ELSE {}

LineTrades(q) == UNION {TradesIn(q[i]) : i \in 1 .. Len(q)}

Queued(q) == \A i, j \in 1 .. Len(q) : i < j => Below(TradesIn(q[i]), TradesIn(q[j]))

LEMMA QueueShorter ==
    ASSUME NEW D, NEW q \in Seq(D), Queued(q)
    PROVE  /\ q # <<>> => /\ Queued(Tail(q))
                         /\ TradesIn(Head(q)) \subseteq LineTrades(q)
                         /\ LineTrades(Tail(q)) \subseteq LineTrades(q)
                         /\ Below(TradesIn(Head(q)), LineTrades(Tail(q)))
           /\ \A n \in 0 .. Len(q) : /\ Queued(SubSeq(q, 1, n))
                                    /\ LineTrades(SubSeq(q, 1, n)) \subseteq LineTrades(q)
<1>1. ASSUME q # <<>>
      PROVE  /\ Queued(Tail(q))
             /\ TradesIn(Head(q)) \subseteq LineTrades(q)
             /\ LineTrades(Tail(q)) \subseteq LineTrades(q)
             /\ Below(TradesIn(Head(q)), LineTrades(Tail(q)))
  <2>. DEFINE n == Len(q)
              r == Tail(q)
  <2>1. /\ Len(r) = n - 1 /\ n \in Nat \ {0} /\ Head(q) = q[1]
        /\ \A i \in 1 .. n - 1 : r[i] = q[i + 1]
    BY <1>1, OneLess
  <2>. HIDE DEF r
  <2>2. \A i \in 1 .. Len(r) : i + 1 \in 1 .. n /\ 1 < i + 1 /\ r[i] = q[i + 1]
    BY <2>1
  <2>3. 1 \in 1 .. n /\ \A i, j \in 1 .. Len(r) : i < j => i + 1 < j + 1
    BY <2>1
  <2>4. Queued(r)
    BY <2>2, <2>3 DEF Queued
  <2>5. TradesIn(Head(q)) \subseteq LineTrades(q)
    BY <2>1, <2>3, Zenon DEF LineTrades
  <2>6. LineTrades(r) \subseteq LineTrades(q)
    BY <2>2, Zenon DEF LineTrades
  <2>7. \A i \in 1 .. Len(r) : Below(TradesIn(q[1]), TradesIn(r[i]))
    BY <2>2, <2>3 DEF Queued
  <2>8. Below(TradesIn(Head(q)), LineTrades(r))
    <3>1. Head(q) = q[1]
      BY <2>1
    <3>. SUFFICES ASSUME NEW x \in TradesIn(q[1]), NEW y \in LineTrades(r) PROVE x <= y
      BY <3>1 DEF Below
    <3>2. PICK i \in 1 .. Len(r) : y \in TradesIn(r[i])
      BY Zenon DEF LineTrades
    <3>. QED
      BY <2>7, <3>2, Zenon DEF Below
  <2>. QED
    BY <2>4, <2>5, <2>6, <2>8 DEF r
<1>2. ASSUME NEW n \in 0 .. Len(q)
      PROVE  /\ Queued(SubSeq(q, 1, n))
             /\ LineTrades(SubSeq(q, 1, n)) \subseteq LineTrades(q)
  <2>. DEFINE r == SubSeq(q, 1, n)
  <2>1. Len(r) = n /\ \A i \in 1 .. Len(r) : i \in 1 .. Len(q) /\ r[i] = q[i]
    OBVIOUS
  <2>. HIDE DEF r
  <2>2. Queued(r)
    BY <2>1, Zenon DEF Queued
  <2>3. LineTrades(r) \subseteq LineTrades(q)
    BY <2>1, Zenon DEF LineTrades
  <2>. QED
    BY <2>2, <2>3 DEF r
<1>. QED
  BY <1>1, <1>2

LEMMA QueueLonger ==
    ASSUME NEW D, NEW q \in Seq(D), Queued(q), NEW x \in D,
           Below(LineTrades(q), TradesIn(x))
    PROVE  /\ Queued(Append(q, x))
           /\ LineTrades(Append(q, x)) = LineTrades(q) \cup TradesIn(x)
<1>. DEFINE n == Len(q)
            r == Append(q, x)
<1>1. /\ n \in Nat /\ Len(r) = n + 1 /\ r[n + 1] = x /\ n + 1 \in 1 .. n + 1
      /\ \A i \in 1 .. n : r[i] = q[i] /\ i \in 1 .. n + 1
      /\ \A i \in 1 .. n + 1 : i \in 1 .. n \/ i = n + 1
      /\ \A i \in 1 .. n + 1 : ~(n + 1 < i)
  OBVIOUS
<1>. HIDE DEF r, n
<1>2. \A i \in 1 .. n : Below(TradesIn(q[i]), TradesIn(x))
  BY Zenon DEF Below, LineTrades, n
<1>3. Queued(r)
  <2>. SUFFICES ASSUME NEW i \in 1 .. n + 1, NEW j \in 1 .. n + 1, i < j
                PROVE  Below(TradesIn(r[i]), TradesIn(r[j]))
    BY <1>1 DEF Queued
  <2>1. i \in 1 .. n /\ r[i] = q[i]
    BY <1>1
  <2>2. CASE j \in 1 .. n
    BY <1>1, <2>1, <2>2 DEF Queued, n
  <2>3. CASE j = n + 1
    BY <1>1, <1>2, <2>1, <2>3
  <2>. QED
    BY <1>1, <2>2, <2>3
<1>4. LineTrades(r) = LineTrades(q) \cup TradesIn(x)
  <2>1. LineTrades(q) \subseteq LineTrades(r)
    BY <1>1, Zenon DEF LineTrades, n
  <2>2. TradesIn(x) \subseteq LineTrades(r)
    BY <1>1, Zenon DEF LineTrades
  <2>3. ASSUME NEW y \in LineTrades(r) PROVE y \in LineTrades(q) \cup TradesIn(x)
    <3>1. PICK i \in 1 .. n + 1 : y \in TradesIn(r[i])
      BY <1>1, <2>3, Zenon DEF LineTrades
    <3>2. CASE i \in 1 .. n
      <4>1. y \in TradesIn(q[i])
        BY <1>1, <3>1, <3>2
      <4>2. y \in LineTrades(q)
        BY <3>2, <4>1, Zenon DEF LineTrades, n
      <4>. QED
        BY <4>2
    <3>3. CASE i = n + 1
      BY <1>1, <3>1, <3>3
    <3>. QED
      BY <1>1, <3>2, <3>3
  <2>. QED
    BY <2>1, <2>2, <2>3
<1>. QED
  BY <1>3, <1>4 DEF r

LEMMA QueueOfNone == Queued(<<>>) /\ LineTrades(<<>>) = {} /\ \A D : <<>> \in Seq(D)
BY DEF Queued, LineTrades

LEMMA QueueOfOne ==
    ASSUME NEW msg PROVE Queued(<<msg>>) /\ LineTrades(<<msg>>) = TradesIn(msg)
<1>1. Queued(<<msg>>)
  BY DEF Queued
<1>2. LineTrades(<<msg>>) = TradesIn(msg)
  <2>1. \A i \in 1 .. Len(<<msg>>) : <<msg>>[i] = msg
    OBVIOUS
  <2>2. 1 \in 1 .. Len(<<msg>>)
    OBVIOUS
  <2>. DEFINE q == <<msg>>
  <2>3. (\A i \in 1 .. Len(q) : q[i] = msg) /\ 1 \in 1 .. Len(q)
    BY <2>1, <2>2
  <2>. HIDE DEF q
  <2>4. LineTrades(q) = TradesIn(msg)
    BY <2>3, Zenon DEF LineTrades
  <2>. QED
    BY <2>4 DEF q
<1>. QED
  BY <1>1, <1>2

LEMMA ResyncNoTrades ==
    ASSUME NEW rows \in Rows, NEW u \in 0 .. MaxUniverses, NEW msg \in Message
    PROVE  LET q == Append(Resync(rows, u), msg) IN
           Queued(q) /\ LineTrades(q) = TradesIn(msg)
<1>. DEFINE r == Resync(rows, u)
<1>1. r \in Seq(Message)
  BY ResyncRetells
<1>2. \A i \in 1 .. Len(r) : TradesIn(r[i]) = {}
  BY DEF Resync, UniverseMsg, QuotesMsg, TradesIn
<1>. HIDE DEF r
<1>3. Queued(r)
  BY <1>2 DEF Queued, Below
<1>4. LineTrades(r) = {}
  BY <1>2, Zenon DEF LineTrades
<1>5. Below(LineTrades(r), TradesIn(msg))
  BY <1>4 DEF Below
<1>6. /\ Queued(Append(r, msg))
      /\ LineTrades(Append(r, msg)) = LineTrades(r) \cup TradesIn(msg)
  BY <1>1, <1>3, <1>5, QueueLonger
<1>. QED
  BY <1>4, <1>6 DEF r

-----------------------------------------------------------------------------
(* Charts in order.                                                        *)

Ordered(series) ==
    \A i, j \in 1 .. Len(series) :
        (i < j /\ IsTrade(series[i]) /\ IsTrade(series[j])) => series[i] <= series[j]

TradesOf(series) == {x \in Range(series) : IsTrade(x)}

LEMMA ChartCapped ==
    ASSUME NEW D, NEW series \in Seq(D), Ordered(series)
    PROVE  Ordered(Capped(series)) /\ TradesOf(Capped(series)) \subseteq TradesOf(series)
<1>. DEFINE c == Capped(series)
            d == Dropped(series)
<1>1. /\ d \in Nat /\ c \in Seq(D) /\ Len(c) \in Nat
      /\ \A i \in 1 .. Len(c) : i + d \in 1 .. Len(series) /\ c[i] = series[i + d]
  BY CappedIs
<1>. HIDE DEF c, d
<1>2. \A i, j \in 1 .. Len(c) : i < j => i + d < j + d
  BY <1>1
<1>3. Ordered(c)
  BY <1>1, <1>2, Zenon DEF Ordered
<1>4. DOMAIN c = 1 .. Len(c) /\ DOMAIN series = 1 .. Len(series)
  BY <1>1
<1>5. TradesOf(c) \subseteq TradesOf(series)
  BY <1>1, <1>4, Zenon DEF TradesOf, Range
<1>. QED
  BY <1>3, <1>5 DEF c

LEMMA ChartAppended ==
    ASSUME NEW tp \in Seq(Times), Ordered(tp), NEW list \in Seq(Times), InOrder(list),
           Below(TradesOf(tp), Range(list))
    PROVE  LET s == tp \o list IN
           s \in Seq(Times) /\ Ordered(s) /\ TradesOf(s) \subseteq TradesOf(tp) \cup Range(list)
<1>. DEFINE s == tp \o list
            n == Len(tp)
            m == Len(list)
<1>1. /\ s \in Seq(Times) /\ n \in Nat /\ m \in Nat
      /\ DOMAIN tp = 1 .. n /\ DOMAIN list = 1 .. m /\ DOMAIN s = 1 .. Len(s)
      /\ \A i \in 1 .. n : s[i] = tp[i]
      /\ \A i \in 1 .. m : s[n + i] = list[i]
      /\ \A i \in 1 .. Len(s) : i \in 1 .. n \/ (i - n \in 1 .. m /\ i = n + (i - n))
  BY Joined
<1>. HIDE DEF s, n, m
<1>2. \A i \in 1 .. m : list[i] \in Range(list)
  BY <1>1, Zenon DEF Range
<1>3. \A i \in 1 .. n : IsTrade(tp[i]) => tp[i] \in TradesOf(tp)
  BY <1>1, Zenon DEF Range, TradesOf
<1>4. ASSUME NEW i \in 1 .. Len(s), NEW j \in 1 .. Len(s), i < j,
             IsTrade(s[i]), IsTrade(s[j])
      PROVE  s[i] <= s[j]
  <2>1. CASE i \in 1 .. n /\ j \in 1 .. n
    <3>1. s[i] = tp[i] /\ s[j] = tp[j]
      BY <1>1, <2>1
    <3>. QED
      BY <1>4, <2>1, <3>1 DEF Ordered, n
  <2>2. CASE i \in 1 .. n /\ j - n \in 1 .. m /\ j = n + (j - n)
    <3>1. s[i] = tp[i] /\ s[j] = list[j - n]
      BY <1>1, <2>2
    <3>2. s[i] \in TradesOf(tp) /\ s[j] \in Range(list)
      BY <1>2, <1>3, <1>4, <2>2, <3>1
    <3>. QED
      BY <3>2 DEF Below
  <2>3. CASE i - n \in 1 .. m /\ i = n + (i - n) /\ j - n \in 1 .. m /\ j = n + (j - n)
    <3>1. s[i] = list[i - n] /\ s[j] = list[j - n]
      BY <1>1, <2>3
    <3>2. i - n < j - n
      BY <1>1, <1>4, <2>3
    <3>. QED
      BY <1>1, <2>3, <3>1, <3>2 DEF InOrder
  <2>4. CASE i - n \in 1 .. m /\ j \in 1 .. n
    BY <1>1, <1>4, <2>4
  <2>. QED
    BY <1>1, <2>1, <2>2, <2>3, <2>4
<1>5. ASSUME NEW x \in TradesOf(s) PROVE x \in TradesOf(tp) \cup Range(list)
  <2>1. PICK i \in 1 .. Len(s) : x = s[i] /\ IsTrade(x)
    BY <1>1, <1>5, Zenon DEF TradesOf, Range
  <2>2. CASE i \in 1 .. n
    BY <1>1, <1>3, <2>1, <2>2
  <2>3. CASE i - n \in 1 .. m /\ i = n + (i - n)
    <3>1. s[i] = list[i - n]
      BY <1>1, <2>3
    <3>. QED
      BY <1>2, <2>1, <2>3, <3>1
  <2>. QED
    BY <1>1, <2>2, <2>3
<1>6. Ordered(s)
  BY <1>4 DEF Ordered
<1>. QED
  BY <1>1, <1>5, <1>6 DEF s

LEMMA ChartBackfilled ==
    ASSUME NEW tp \in Seq(Times), Ordered(tp), NEW k \in Seq(Times),
           \A i \in 1 .. Len(k) : ~IsTrade(k[i])
    PROVE  k \o tp \in Seq(Times) /\ Ordered(k \o tp)
           /\ TradesOf(k \o tp) \subseteq TradesOf(tp)
<1>. DEFINE s == k \o tp
            n == Len(k)
            m == Len(tp)
<1>1. /\ s \in Seq(Times) /\ n \in Nat /\ m \in Nat
      /\ DOMAIN tp = 1 .. m /\ DOMAIN s = 1 .. Len(s)
      /\ \A i \in 1 .. n : s[i] = k[i]
      /\ \A i \in 1 .. m : s[n + i] = tp[i]
      /\ \A i \in 1 .. Len(s) : i \in 1 .. n \/ (i - n \in 1 .. m /\ i = n + (i - n))
  BY Joined
<1>. HIDE DEF s, n, m
<1>2. ASSUME NEW i \in 1 .. Len(s), IsTrade(s[i])
      PROVE  i - n \in 1 .. m /\ s[i] = tp[i - n]
  <2>1. ~(i \in 1 .. n)
    BY <1>1, <1>2 DEF n
  <2>2. i - n \in 1 .. m /\ i = n + (i - n)
    BY <1>1, <2>1
  <2>. QED
    BY <1>1, <2>2
<1>3. Ordered(s)
  <2>. SUFFICES ASSUME NEW i \in 1 .. Len(s), NEW j \in 1 .. Len(s), i < j,
                       IsTrade(s[i]), IsTrade(s[j])
                PROVE  s[i] <= s[j]
    BY DEF Ordered
  <2>1. /\ i - n \in 1 .. m /\ s[i] = tp[i - n]
        /\ j - n \in 1 .. m /\ s[j] = tp[j - n]
    BY <1>2
  <2>2. i - n < j - n
    BY <1>1
  <2>. QED
    BY <2>1, <2>2 DEF Ordered, m
<1>4. ASSUME NEW x \in TradesOf(s) PROVE x \in TradesOf(tp)
  <2>1. PICK i \in 1 .. Len(s) : x = s[i] /\ IsTrade(x)
    BY <1>1, <1>4, Zenon DEF TradesOf, Range
  <2>2. i - n \in 1 .. m /\ x = tp[i - n]
    BY <1>2, <2>1
  <2>. QED
    BY <1>1, <2>1, <2>2, Zenon DEF TradesOf, Range
<1>. QED
  BY <1>1, <1>3, <1>4 DEF s

\* Older points in front of a chart that fits.
LEMMA FrontFits ==
    ASSUME NEW tp \in Seq(Times), Len(tp) <= MaxTape, NEW points \in Seq(Times),
           InOrder(points)
    PROVE  LET S == {x \in Range(points) : tp = <<>> \/ x < Head(tp)}
               c == Capped(Kept(points, S) \o tp)
           IN  IsSuffix(tp, c) /\ (InOrder(tp) => InOrder(c))
<1>. DEFINE S == {x \in Range(points) : tp = <<>> \/ x < Head(tp)}
            k == Kept(points, S)
            s == k \o tp
            c == Capped(s)
            d == Dropped(s)
            n == Len(k)
            m == Len(tp)
<1>1. k \in Seq(Times) /\ Selection(k, points, Len(points), S)
  BY KeptIs
<1>. HIDE DEF k
<1>2. /\ s \in Seq(Times) /\ n \in Nat /\ m \in Nat /\ Len(s) = n + m
      /\ DOMAIN tp = 1 .. m /\ DOMAIN k = 1 .. n /\ DOMAIN points = 1 .. Len(points)
      /\ \A i \in 1 .. n : s[i] = k[i]
      /\ \A i \in 1 .. m : s[n + i] = tp[i]
      /\ \A i \in 1 .. Len(s) : i \in 1 .. n \/ (i - n \in 1 .. m /\ i = n + (i - n))
  BY <1>1, Joined
<1>3. PICK f \in [1 .. n -> 1 .. Len(points)] :
             /\ Increasing(f)
             /\ \A i \in 1 .. n : k[i] = points[f[i]] /\ k[i] \in S
  BY <1>1, <1>2 DEF Selection
<1>. HIDE DEF s
<1>4. /\ d \in 0 .. Len(s) /\ c \in Seq(Times) /\ Len(c) = Len(s) - d
      /\ \A i \in 1 .. Len(c) : i + d \in 1 .. Len(s) /\ c[i] = s[i + d]
  BY <1>2, CappedIs
<1>5. d <= n
  BY <1>2, FeedLinkAssumption DEF Dropped
<1>. HIDE DEF c, d, n, m
<1>6. Len(c) \in Nat /\ m <= Len(c) /\ \A i \in 1 .. m : c[(Len(c) - m) + i] = tp[i]
  <2>1. Len(c) \in Nat /\ m <= Len(c)
    BY <1>2, <1>4, <1>5
  <2>2. ASSUME NEW i \in 1 .. m PROVE c[(Len(c) - m) + i] = tp[i]
    <3>1. (Len(c) - m) + i \in 1 .. Len(c) /\ ((Len(c) - m) + i) + d = n + i
      BY <1>2, <1>4, <1>5
    <3>2. c[(Len(c) - m) + i] = s[n + i]
      BY <1>4, <3>1
    <3>. QED
      BY <1>2, <3>2
  <2>. QED
    BY <2>1, <2>2
<1>7. IsSuffix(tp, c)
  <2>. DEFINE a == Reverse(tp)
              b == Reverse(c)
  <2>1. /\ a = [i \in 1 .. m |-> tp[(m - i) + 1]]
        /\ b = [i \in 1 .. Len(c) |-> c[(Len(c) - i) + 1]]
    BY DEF Reverse, m
  <2>2. \A i \in 1 .. m : (m - i) + 1 \in 1 .. m
    BY <1>2
  <2>3. \A i \in 1 .. Len(c) : (Len(c) - i) + 1 \in 1 .. Len(c)
    BY <1>6
  <2>4. a \in Seq(Times) /\ Len(a) = m
    <3>1. \A i \in 1 .. m : tp[(m - i) + 1] \in Times
      BY <2>2 DEF m
    <3>2. a \in [1 .. m -> Times]
      BY <2>1, <3>1
    <3>. HIDE DEF a
    <3>. QED
      BY <1>2, <3>2, SeriesOf
  <2>5. b \in Seq(Times) /\ Len(b) = Len(c)
    <3>1. \A i \in 1 .. Len(c) : c[(Len(c) - i) + 1] \in Times
      BY <1>4, <2>3
    <3>2. b \in [1 .. Len(c) -> Times]
      BY <2>1, <3>1
    <3>. HIDE DEF b
    <3>. QED
      BY <1>6, <3>2, SeriesOf
  <2>6. ASSUME NEW i \in 1 .. m PROVE a[i] = b[i]
    <3>1. i \in 1 .. Len(c) /\ (Len(c) - i) + 1 = (Len(c) - m) + ((m - i) + 1)
      BY <1>2, <1>6
    <3>2. b[i] = c[(Len(c) - i) + 1] /\ a[i] = tp[(m - i) + 1]
      BY <2>1, <3>1
    <3>3. c[(Len(c) - m) + ((m - i) + 1)] = tp[(m - i) + 1]
      BY <1>6, <2>2
    <3>. QED
      BY <3>1, <3>2, <3>3
  <2>. HIDE DEF a, b
  <2>7. SubSeq(a, 1, Len(a)) = SubSeq(b, 1, Len(a))
    <3>1. SubSeq(a, 1, m) = [i \in 1 .. m |-> a[i]]
      BY <1>2, <2>4
    <3>2. SubSeq(b, 1, m) = [i \in 1 .. m |-> b[i]]
      BY <1>2, <1>6, <2>5
    <3>. QED
      BY <2>4, <2>6, <3>1, <3>2
  <2>. QED
    BY <1>6, <2>4, <2>5, <2>7 DEF IsSuffix, IsPrefix, a, b
<1>8. ASSUME InOrder(tp) PROVE InOrder(c)
  <2>1. \A i, j \in 1 .. n : i < j => k[i] <= k[j]
    <3>. SUFFICES ASSUME NEW i \in 1 .. n, NEW j \in 1 .. n, i < j PROVE k[i] <= k[j]
      OBVIOUS
    <3>1. f[i] \in 1 .. Len(points) /\ f[j] \in 1 .. Len(points) /\ f[i] < f[j]
      BY <1>3 DEF Increasing
    <3>2. points[f[i]] <= points[f[j]]
      BY <1>2, <3>1 DEF InOrder
    <3>. QED
      BY <1>3, <3>2
  <2>2. \A i, j \in 1 .. m : i < j => tp[i] <= tp[j]
    BY <1>2, <1>8 DEF InOrder
  <2>3. ASSUME NEW i \in 1 .. n, NEW j \in 1 .. m PROVE k[i] <= tp[j]
    <3>1. tp # <<>> /\ k[i] \in S
      BY <1>2, <1>3 DEF m
    <3>2. k[i] < tp[1] /\ 1 \in 1 .. m
      BY <1>2, <3>1
    <3>3. k[i] \in Nat /\ tp[1] \in Nat /\ tp[j] \in Nat
      <4>1. k[i] \in Times /\ tp[1] \in Times /\ tp[j] \in Times
        BY <1>1, <1>2, <3>2 DEF n, m
      <4>. QED
        BY <4>1 DEF Times
    <3>4. tp[1] <= tp[j]
      <4>1. CASE j = 1
        BY <3>3, <4>1
      <4>2. CASE j # 1
        <5>1. 1 < j
          BY <1>2, <4>2
        <5>. QED
          BY <2>2, <3>2, <3>3, <5>1
      <4>. QED
        BY <4>1, <4>2
    <3>. QED
      BY <3>2, <3>3, <3>4
  <2>4. ASSUME NEW i \in 1 .. Len(s), NEW j \in 1 .. Len(s), i < j PROVE s[i] <= s[j]
    <3>1. CASE i \in 1 .. n /\ j \in 1 .. n
      BY <1>2, <2>1, <2>4, <3>1
    <3>2. CASE i \in 1 .. n /\ j - n \in 1 .. m /\ j = n + (j - n)
      <4>1. s[i] = k[i] /\ s[j] = tp[j - n]
        BY <1>2, <3>2
      <4>. QED
        BY <2>3, <3>2, <4>1
    <3>3. CASE i - n \in 1 .. m /\ i = n + (i - n) /\ j - n \in 1 .. m /\ j = n + (j - n)
      <4>1. s[i] = tp[i - n] /\ s[j] = tp[j - n] /\ i - n < j - n
        BY <1>2, <2>4, <3>3
      <4>. QED
        BY <2>2, <3>3, <4>1
    <3>4. CASE i - n \in 1 .. m /\ j \in 1 .. n
      BY <1>2, <2>4, <3>4
    <3>. QED
      BY <1>2, <3>1, <3>2, <3>3, <3>4
  <2>5. DOMAIN c = 1 .. Len(c)
    BY <1>4
  <2>6. ASSUME NEW i \in 1 .. Len(c), NEW j \in 1 .. Len(c), i < j PROVE c[i] <= c[j]
    <3>1. /\ i + d \in 1 .. Len(s) /\ j + d \in 1 .. Len(s) /\ i + d < j + d
          /\ c[i] = s[i + d] /\ c[j] = s[j + d]
      BY <1>4, <2>6
    <3>. QED
      BY <2>4, <3>1
  <2>. QED
    BY <2>5, <2>6 DEF InOrder
<1>. QED
  BY <1>7, <1>8 DEF c, s, k

-----------------------------------------------------------------------------
(* The lists in the messages are in order, and only candles come in a       *)
(* backfill; each trade is where its turn is.                              *)

WellFormed(msg) ==
    /\ msg.m \in {"trades", "history"} => InOrder(msg.list)
    /\ msg.m = "history" => \A i \in DOMAIN msg.list : ~IsTrade(msg.list[i])

Good == {msg \in Message : WellFormed(msg)}

ConnTrades(cs) == [c \in 1 .. Len(cs) |-> LineTrades(cs[c].lines)]

TapeInv ==
    /\ todo \in Seq(Good) /\ Queued(todo)
    /\ \A c \in 1 .. Len(conns) : conns[c].lines \in Seq(Good) /\ Queued(conns[c].lines)
    /\ InOrder(trades) /\ Ordered(tape)
    /\ Staged(TradesOf(tape), Len(conns), ConnTrades(conns), LineTrades(todo),
              Range(trades), TradeTime(prints))

LEMMA TapeInvSays == TypeInv /\ TapeInv => TapeInOrder
<1>1. TypeInv => DOMAIN tape = 1 .. Len(tape)
  BY DEF TypeInv, StoreOK
<1>. QED
  BY <1>1 DEF TapeInv, TapeInOrder, Ordered

LEMMA TapeInvInit == Init => TapeInv
<1>. SUFFICES ASSUME Init PROVE TapeInv
  OBVIOUS
<1>1. todo = <<>> /\ conns = <<>> /\ trades = <<>> /\ tape = <<>> /\ prints = 0
  BY DEF Init
<1>2. todo \in Seq(Good) /\ Queued(todo) /\ LineTrades(todo) = {}
  BY <1>1 DEF Queued, LineTrades
<1>3. \A c \in 1 .. Len(conns) : FALSE
  BY <1>1
<1>4. InOrder(trades) /\ Ordered(tape) /\ Range(trades) = {} /\ TradesOf(tape) = {}
  BY <1>1 DEF InOrder, Ordered, Range, TradesOf
<1>5. \A S : Below({}, S)
  BY DEF Below
<1>6. Staged({}, Len(conns), ConnTrades(conns), {}, {}, TradeTime(prints))
  BY <1>3, <1>5 DEF Staged
<1>. QED
  BY <1>2, <1>3, <1>4, <1>6 DEF TapeInv

LEMMA GoodMessages ==
    ASSUME TypeInv, TapeInv
    PROVE  /\ trades # <<>> => TradesMsg(trades) \in Good
           /\ TradesIn(TradesMsg(trades)) = Range(trades)
           /\ \A msg \in Message : msg.m \notin {"trades", "history"} =>
                 msg \in Good /\ TradesIn(msg) = {}
           /\ \A fetched \in 1 .. prints :
                 LET msg == HistoryMsg([k \in 1 .. fetched |-> CandleTime(k)]) IN
                 msg \in Good /\ TradesIn(msg) = {}
<1>1. /\ trades # <<>> => TradesMsg(trades) \in Good
      /\ TradesIn(TradesMsg(trades)) = Range(trades)
  BY MessagesType DEF TapeInv, TradesMsg, Good, WellFormed, TradesIn
<1>2. \A msg \in Message : msg.m \notin {"trades", "history"} =>
          msg \in Good /\ TradesIn(msg) = {}
  BY DEF Good, WellFormed, TradesIn
<1>3. ASSUME NEW fetched \in 1 .. prints
      PROVE  LET msg == HistoryMsg([k \in 1 .. fetched |-> CandleTime(k)]) IN
             msg \in Good /\ TradesIn(msg) = {}
  <2>. DEFINE list == [k \in 1 .. fetched |-> CandleTime(k)]
              msg == HistoryMsg(list)
  <2>1. fetched \in Nat
    BY FeedLinkAssumption DEF TypeInv, ExchangeOK
  <2>2. DOMAIN list = 1 .. fetched /\ \A k \in 1 .. fetched : list[k] = 2 * k - 1
    BY DEF CandleTime
  <2>. HIDE DEF list
  <2>3. InOrder(list)
    BY <2>1, <2>2 DEF InOrder
  <2>4. \A k \in 1 .. fetched : ~IsTrade(list[k])
    BY <2>1, <2>2 DEF IsTrade
  <2>5. msg \in Message
    BY MessagesType DEF list
  <2>6. msg.m = "history" /\ msg.list = list
    BY DEF HistoryMsg
  <2>. HIDE DEF msg
  <2>7. msg \in Good /\ TradesIn(msg) = {}
    BY <2>2, <2>3, <2>4, <2>5, <2>6 DEF Good, WellFormed, TradesIn
  <2>. QED
    BY <2>7 DEF msg, list
<1>. QED
  BY <1>1, <1>2, <1>3

\* A call that sends a message: the buffer goes with it or stays.
LEMMA TapeInvSends ==
    ASSUME TypeInv, TapeInv, pc # "write",
           NEW msg \in Good, NEW rows \in Rows, NEW u \in 0 .. MaxUniverses, NEW cont,
           Send(msg, rows, u, cont), UNCHANGED <<tape, prints>>,
           \/ TradesIn(msg) = {} /\ trades' = trades
           \/ TradesIn(msg) = Range(trades) /\ trades' = <<>>
    PROVE  TapeInv'
<1>. DEFINE T == TradesOf(tape)
            n == Len(conns)
            L == ConnTrades(conns)
            X == TradesIn(msg)
            b == TradeTime(prints)
<1>1. /\ todo = <<>> /\ conns \in Seq(Connection) /\ n \in Nat /\ MaxConns \in Nat
      /\ msg \in Message
  BY FeedLinkAssumption DEF TypeInv, CallOK, LinkOK, Good
<1>2. /\ \A c \in 1 .. n : conns[c].lines \in Seq(Good) /\ Queued(conns[c].lines)
      /\ InOrder(trades) /\ Ordered(tape)
      /\ Staged(T, n, L, {}, Range(trades), b)
  BY <1>1, QueueOfNone DEF TapeInv
\* What is written, and what stays buffered.
<1>3. /\ todo' \in Seq(Good) /\ Queued(todo')
      /\ LineTrades(todo') \in {X, {}}
  <2>1. CASE todo' = <<msg>>
    BY <2>1, QueueOfOne
  <2>2. CASE todo' = Append(Resync(rows, u), msg)
    <3>1. Queued(todo') /\ LineTrades(todo') = X
      BY <1>1, <2>2, ResyncNoTrades
    <3>2. Resync(rows, u) \in Seq(Good)
      <4>1. Resync(rows, u) \in Seq(Message)
        BY ResyncRetells
      <4>2. \A i \in 1 .. Len(Resync(rows, u)) :
                Resync(rows, u)[i].m \notin {"trades", "history"}
        BY DEF Resync, UniverseMsg, QuotesMsg
      <4>. DEFINE r == Resync(rows, u)
      <4>3. /\ Len(r) \in Nat /\ r = [i \in 1 .. Len(r) |-> r[i]]
            /\ \A i \in 1 .. Len(r) : r[i] \in Message
        <5>. HIDE DEF r
        <5>. QED
          BY <4>1 DEF r
      <4>4. \A i \in 1 .. Len(r) : r[i] \in Good
        BY <4>2, <4>3, GoodMessages
      <4>. HIDE DEF r
      <4>5. r \in [1 .. Len(r) -> Good]
        BY <4>3, <4>4
      <4>6. r \in Seq(Good)
        BY <4>3, <4>5
      <4>. QED
        BY <4>6 DEF r
    <3>. QED
      BY <2>2, <3>1, <3>2
  <2>3. CASE todo' = todo
    BY <1>1, <2>3, QueueOfNone
  <2>. QED
    BY <2>1, <2>2, <2>3 DEF Send
<1>. HIDE DEF T, L, b, X
<1>4. InOrder(trades') /\ Staged(T, n, L, LineTrades(todo'), Range(trades'), b)
  <2>1. CASE X = {} /\ trades' = trades
    BY <1>2, <1>3, <2>1
  <2>2. CASE X = Range(trades) /\ trades' = <<>>
    <3>1. InOrder(trades') /\ Range(trades') = {}
      BY <2>2 DEF InOrder, Range
    <3>2. Staged(T, n, L, Range(trades), {}, b)
      BY <1>2, StagedFlush
    <3>3. LineTrades(todo') \in SUBSET Range(trades)
      BY <1>3, <2>2
    <3>4. Staged(T, n, L, LineTrades(todo'), {}, b)
      BY <3>2, <3>3, StagedLess
    <3>. QED
      BY <3>1, <3>4
  <2>. QED
    BY <2>1, <2>2 DEF X
<1>5. CASE conns' = conns
  BY <1>2, <1>3, <1>4, <1>5 DEF TapeInv, T, L, b
<1>6. CASE Len(conns) < MaxConns /\ conns' = Attach(conns)
  <2>. DEFINE L2 == ConnTrades(conns')
  <2>1. /\ Len(conns') = n + 1 /\ conns'[n + 1].lines = <<>>
        /\ \A i \in 1 .. n : conns'[i] = conns[i]
    BY <1>1, <1>6, AttachType
  <2>2. /\ \A c \in 1 .. n : L2[c] = L[c]
        /\ L2[n + 1] = {}
    <3>1. \A c \in 1 .. n : c \in 1 .. n + 1
      BY <1>1
    <3>2. n + 1 \in 1 .. n + 1
      BY <1>1
    <3>3. LineTrades(<<>>) = {}
      BY QueueOfNone
    <3>. QED
      BY <2>1, <3>1, <3>2, <3>3 DEF ConnTrades, L
  <2>. HIDE DEF L2
  <2>3. Staged(T, n + 1, L2, LineTrades(todo'), Range(trades'), b)
    BY <1>1, <1>4, <2>2, StagedAttach
  <2>4. \A c \in 1 .. n + 1 : conns'[c].lines \in Seq(Good) /\ Queued(conns'[c].lines)
    <3>1. <<>> \in Seq(Good) /\ Queued(<<>>)
      BY QueueOfNone
    <3>2. \A c \in 1 .. n + 1 : c \in 1 .. n \/ c = n + 1
      BY <1>1
    <3>. QED
      BY <1>2, <2>1, <3>1, <3>2, Zenon
  <2>. QED
    BY <1>2, <1>3, <1>4, <2>1, <2>3, <2>4 DEF TapeInv, T, b, L2
<1>. QED
  BY <1>5, <1>6, SendConnects DEF Reachable

\* The trades in the connections after one of them is changed.
LEMMA ConnTradesAre ==
    ASSUME NEW cs \in Seq(Connection), NEW k \in 1 .. Len(cs), NEW r \in Connection,
           NEW d, d = [cs EXCEPT ![k] = r]
    PROVE  /\ Len(d) = Len(cs)
           /\ \A c \in 1 .. Len(cs) :
                 /\ d[c].lines = IF c = k THEN r.lines ELSE cs[c].lines
                 /\ ConnTrades(cs)[c] = LineTrades(cs[c].lines)
                 /\ ConnTrades(d)[c] = IF c = k THEN LineTrades(r.lines)
                                       ELSE ConnTrades(cs)[c]
<1>1. Len(d) = Len(cs) /\ \A i \in 1 .. Len(cs) : d[i] = IF i = k THEN r ELSE cs[i]
  BY ConnectionKept
<1>. QED
  BY <1>1 DEF ConnTrades

\* Nothing is added anywhere.
LEMMA TapeInvLess ==
    ASSUME TapeInv, UNCHANGED <<trades, prints>>,
           todo' \in Seq(Good), Queued(todo'), LineTrades(todo') \subseteq LineTrades(todo),
           Len(conns') = Len(conns),
           \A c \in 1 .. Len(conns) :
               /\ conns'[c].lines \in Seq(Good) /\ Queued(conns'[c].lines)
               /\ LineTrades(conns'[c].lines) \subseteq LineTrades(conns[c].lines),
           tape' \in {tape, <<>>}
    PROVE  TapeInv'
<1>. DEFINE L == ConnTrades(conns)
            L2 == ConnTrades(conns')
            T == TradesOf(tape)
            T2 == TradesOf(tape')
            n == Len(conns)
            Q == LineTrades(todo)
            Q2 == LineTrades(todo')
            R == Range(trades)
            b == TradeTime(prints)
<1>1. \A c \in 1 .. n : L2[c] \subseteq L[c]
  BY DEF ConnTrades
<1>2. T2 \in SUBSET T /\ Ordered(tape')
  <2>1. CASE tape' = tape
    BY <2>1 DEF TapeInv
  <2>2. CASE tape' = <<>>
    BY <2>2 DEF TradesOf, Range, Ordered
  <2>. QED
    BY <2>1, <2>2
<1>3. Staged(T, n, L, Q, R, b)
  BY DEF TapeInv
<1>4. Q2 \in SUBSET Q /\ R \in SUBSET R
  OBVIOUS
<1>. HIDE DEF L, L2, T, T2, n, Q, Q2, R, b
<1>5. Staged(T2, n, L2, Q2, R, b)
  BY <1>1, <1>2, <1>3, <1>4, StagedLess
<1>. QED
  BY <1>2, <1>5 DEF TapeInv, L2, T2, n, Q2, R, b

LEMMA TapeInvEmits == TypeInv /\ TapeInv /\ (EmitTrade \/ EmitLastMatch) => TapeInv'
<1>. SUFFICES ASSUME TypeInv, TapeInv, EmitTrade \/ EmitLastMatch PROVE TapeInv'
  OBVIOUS
<1>. DEFINE b == TradeTime(prints)
            n == Len(trades)
<1>1. PICK x : /\ \/ x = TradeTime(prints + 1) /\ prints' = prints + 1
                  \/ x = TradeTime(prints) /\ prints' = prints
               /\ trades' = Append(trades, x) /\ UNCHANGED <<todo, conns, tape>>
  BY DEF EmitTrade, EmitLastMatch, terminalSide, storeVars
<1>2. /\ prints \in Nat /\ trades \in Seq(Times) /\ n \in Nat
      /\ DOMAIN trades = 1 .. n
  BY FeedLinkAssumption DEF TypeInv, ExchangeOK, BuffersOK
<1>3. b \in Nat /\ x \in Nat /\ x >= b /\ TradeTime(prints') = x
  BY <1>1, <1>2 DEF TradeTime
<1>4. Staged(TradesOf(tape), Len(conns), ConnTrades(conns), LineTrades(todo),
             Range(trades), b)
  BY DEF TapeInv
<1>. HIDE DEF b
<1>5. Staged(TradesOf(tape), Len(conns), ConnTrades(conns), LineTrades(todo),
             Range(trades) \cup {x}, x)
  BY <1>3, <1>4, StagedEmit
<1>. HIDE DEF n
<1>6. /\ DOMAIN trades' = 1 .. n + 1 /\ trades'[n + 1] = x
      /\ \A i \in 1 .. n : trades'[i] = trades[i]
  BY <1>1, <1>2 DEF n
<1>7. \A i \in 1 .. n + 1 : i \in 1 .. n \/ i = n + 1
  BY <1>2
<1>8. Range(trades') = Range(trades) \cup {x}
  <2>1. \A i \in 1 .. n : i \in 1 .. n + 1
    BY <1>2
  <2>2. n + 1 \in 1 .. n + 1
    BY <1>2
  <2>3. ASSUME NEW y \in Range(trades') PROVE y \in Range(trades) \cup {x}
    <3>1. PICK i \in 1 .. n + 1 : y = trades'[i]
      BY <1>6, <2>3, Zenon DEF Range
    <3>2. CASE i \in 1 .. n
      <4>1. y = trades[i]
        BY <1>6, <3>1, <3>2
      <4>2. y \in Range(trades)
        BY <1>2, <3>2, <4>1, Zenon DEF Range
      <4>. QED
        BY <4>2
    <3>3. CASE i = n + 1
      BY <1>6, <3>1, <3>3
    <3>. QED
      BY <1>7, <3>2, <3>3
  <2>4. x \in Range(trades')
    BY <1>6, <2>2, Zenon DEF Range
  <2>5. ASSUME NEW y \in Range(trades) PROVE y \in Range(trades')
    <3>1. PICK i \in 1 .. n : y = trades[i]
      BY <1>2, <2>5, Zenon DEF Range
    <3>2. y = trades'[i] /\ i \in 1 .. n + 1
      BY <1>6, <2>1, <3>1
    <3>. QED
      BY <1>6, <3>2, Zenon DEF Range
  <2>. QED
    BY <2>3, <2>4, <2>5
<1>9. InOrder(trades')
  <2>1. \A i \in 1 .. n : trades[i] <= x
    <3>. SUFFICES ASSUME NEW i \in 1 .. n PROVE trades[i] <= x
      OBVIOUS
    <3>1. trades[i] \in Range(trades)
      BY <1>2, Zenon DEF Range
    <3>2. trades[i] \in Nat /\ trades[i] <= b
      BY <1>4, <3>1, Zenon DEF Staged
    <3>. QED
      BY <1>3, <3>2
  <2>2. \A i, j \in 1 .. n : i < j => trades[i] <= trades[j]
    BY <1>2 DEF TapeInv, InOrder
  <2>3. \A i, j \in 1 .. n + 1 : i < j => i \in 1 .. n
    BY <1>2
  <2>. QED
    BY <1>6, <1>7, <2>1, <2>2, <2>3 DEF InOrder
<1>. QED
  BY <1>1, <1>3, <1>5, <1>8, <1>9 DEF TapeInv

LEMMA TapeInvWrites == TypeInv /\ TapeInv /\ WriteDelivered => TapeInv'
<1>. SUFFICES ASSUME TypeInv, TapeInv, WriteDelivered PROVE TapeInv'
  OBVIOUS
<1>. DEFINE n == Len(conns)
            L == ConnTrades(conns)
            L2 == ConnTrades(conns')
            T == TradesOf(tape)
            Q == LineTrades(todo)
            Q2 == LineTrades(Tail(todo))
            X == TradesIn(Head(todo))
            R == Range(trades)
            b == TradeTime(prints)
            l == conns[n].lines
<1>1. link = "up" /\ UNCHANGED <<trades, prints, tape>>
  BY DEF WriteDelivered, dataVars, bufferVars, exchangeVars, terminalSide, storeVars
<1>2. n \in Nat \ {0} /\ n \in 1 .. n /\ Last(conns) = conns[n]
  BY <1>1, NewestThere
<1>3. PICK r \in Connection : /\ conns' = [conns EXCEPT ![n] = r]
                              /\ r.lines = Append(l, Head(todo))
                              /\ todo # <<>> /\ todo' = Tail(todo)
  BY <1>2, DeliveredIs
<1>4. /\ todo \in Seq(Good) /\ Queued(todo)
      /\ \A c \in 1 .. n : conns[c].lines \in Seq(Good) /\ Queued(conns[c].lines)
      /\ InOrder(trades) /\ Ordered(tape) /\ Staged(T, n, L, Q, R, b)
  BY DEF TapeInv
<1>5. /\ Head(todo) \in Good /\ Tail(todo) \in Seq(Good) /\ Queued(Tail(todo))
      /\ X \in SUBSET Q /\ Q2 \in SUBSET Q /\ Below(X, Q2)
  BY <1>3, <1>4, OneLess, QueueShorter
<1>6. conns \in Seq(Connection)
  BY DEF TypeInv, LinkOK
<1>7. /\ Len(conns') = n
      /\ \A c \in 1 .. n : /\ conns'[c].lines = IF c = n THEN r.lines ELSE conns[c].lines
                           /\ L[c] = LineTrades(conns[c].lines)
                           /\ L2[c] = IF c = n THEN LineTrades(r.lines) ELSE L[c]
  <2>1. conns' = [conns EXCEPT ![n] = r]
    BY <1>3
  <2>2. n \in 1 .. Len(conns)
    BY <1>2
  <2>3. Len(conns') = n /\ \A c \in 1 .. n :
            conns'[c].lines = IF c = n THEN r.lines ELSE conns[c].lines
    BY <1>6, <2>1, <2>2, ConnTradesAre
  <2>. QED
    BY <2>3 DEF ConnTrades
<1>. HIDE DEF n, L, L2, T, Q, Q2, X, R, b
<1>8. Below(LineTrades(l), X)
  <2>1. Below(L[n], Q) /\ L[n] = LineTrades(l)
    BY <1>2, <1>4, <1>7 DEF Staged
  <2>. HIDE DEF l
  <2>. QED
    BY <1>5, <2>1, Zenon DEF Below
<1>9. l \in Seq(Good) /\ Queued(l)
  BY <1>2, <1>4
<1>. HIDE DEF l
<1>10. /\ Queued(r.lines) /\ LineTrades(r.lines) = LineTrades(l) \cup X
       /\ r.lines \in Seq(Good)
  BY <1>3, <1>5, <1>8, <1>9, QueueLonger DEF X
<1>11. \A c \in 1 .. n : L2[c] = IF c = n THEN L[n] \cup X ELSE L[c]
  BY <1>2, <1>7, <1>10 DEF l
<1>12. Staged(T, n, L2, Q2, R, b)
  BY <1>2, <1>4, <1>5, <1>11, StagedWrite
<1>13. \A c \in 1 .. n : conns'[c].lines \in Seq(Good) /\ Queued(conns'[c].lines)
  BY <1>4, <1>7, <1>10
<1>. QED
  BY <1>1, <1>3, <1>4, <1>5, <1>7, <1>12, <1>13 DEF TapeInv, T, L2, Q2, R, b, n
\* What handling a line does to a chart in order.
LEMMA ChartApplied ==
    ASSUME TypeInv, TapeInv, NEW msg \in Good, Apply(msg),
           Below(TradesOf(tape), TradesIn(msg))
    PROVE  Ordered(tape') /\ TradesOf(tape') \subseteq TradesOf(tape) \cup TradesIn(msg)
<1>1. /\ tape \in Seq(Times) /\ Ordered(tape) /\ msg \in Message /\ WellFormed(msg)
      /\ msg.m \in {"trades", "history"} => msg.list \in Seq(Times) /\ InOrder(msg.list)
  <2>1. msg.m \in {"trades", "history"} => msg.list \in Seq(Times)
    BY DEF Good, Message
  <2>. QED
    BY <2>1 DEF TypeInv, StoreOK, TapeInv, Good, WellFormed
<1>2. CASE msg.m = "trades"
  <2>. DEFINE s == tape \o msg.list
  <2>1. tape' = Capped(s) /\ TradesIn(msg) = Range(msg.list)
    BY <1>2 DEF Apply, TradesIn
  <2>2. /\ s \in Seq(Times) /\ Ordered(s)
        /\ TradesOf(s) \subseteq TradesOf(tape) \cup Range(msg.list)
    BY <1>1, <1>2, <2>1, ChartAppended
  <2>. HIDE DEF s
  <2>. QED
    BY <2>1, <2>2, ChartCapped
<1>3. CASE msg.m = "history"
  <2>. DEFINE S == {t \in Range(msg.list) : tape = <<>> \/ t < Head(tape)}
              k == Kept(msg.list, S)
              s == k \o tape
  <2>1. tape' = Capped(s)
    BY <1>3 DEF Apply, Backfill
  <2>2. k \in Seq(Times) /\ Selection(k, msg.list, Len(msg.list), S)
    BY <1>1, <1>3, KeptIs
  <2>. HIDE DEF k
  <2>3. \A i \in 1 .. Len(k) : ~IsTrade(k[i])
    <3>1. DOMAIN k = 1 .. Len(k) /\ DOMAIN msg.list = 1 .. Len(msg.list)
      BY <1>1, <1>3, <2>2
    <3>2. \A i \in 1 .. Len(msg.list) : ~IsTrade(msg.list[i])
      BY <1>1, <1>3, <3>1 DEF WellFormed
    <3>. HIDE DEF S
    <3>. QED
      BY <2>2, <3>1, <3>2, Zenon DEF Selection
  <2>4. /\ s \in Seq(Times) /\ Ordered(s) /\ TradesOf(s) \subseteq TradesOf(tape)
    BY <1>1, <2>2, <2>3, ChartBackfilled
  <2>. HIDE DEF s
  <2>. QED
    BY <2>1, <2>4, ChartCapped
<1>4. CASE msg.m \notin {"trades", "history"}
  BY <1>1, <1>4 DEF Apply
<1>. QED
  BY <1>2, <1>3, <1>4

LEMMA TapeInvHandles == TypeInv /\ TapeInv /\ HandleLine => TapeInv'
<1>. SUFFICES ASSUME TypeInv, TapeInv, HandleLine PROVE TapeInv'
  OBVIOUS
<1>. DEFINE n == Len(conns)
            L == ConnTrades(conns)
            L2 == ConnTrades(conns')
            T == TradesOf(tape)
            T2 == TradesOf(tape')
            Q == LineTrades(todo)
            R == Range(trades)
            b == TradeTime(prints)
            l == conns[1].lines
            X == TradesIn(Head(l))
<1>1. UNCHANGED <<todo, trades, prints>>
  BY DEF HandleLine, callVars, dataVars, bufferVars, exchangeVars
<1>2. /\ n \in Nat \ {0} /\ 1 \in 1 .. n /\ l # <<>> /\ Apply(Head(l))
      /\ conns \in Seq(Connection)
  BY HandledIs, OldestThere DEF TypeInv, LinkOK
<1>3. PICK r \in Connection : conns' = [conns EXCEPT ![1] = r] /\ r.lines = Tail(l)
  BY HandledIs
<1>4. /\ todo \in Seq(Good) /\ Queued(todo)
      /\ \A c \in 1 .. n : conns[c].lines \in Seq(Good) /\ Queued(conns[c].lines)
      /\ InOrder(trades) /\ Staged(T, n, L, Q, R, b)
  BY DEF TapeInv
<1>5. l \in Seq(Good) /\ Queued(l)
  BY <1>2, <1>4
<1>6. /\ Len(conns') = n
      /\ \A c \in 1 .. n : /\ conns'[c].lines = IF c = 1 THEN r.lines ELSE conns[c].lines
                           /\ L[c] = LineTrades(conns[c].lines)
                           /\ L2[c] = IF c = 1 THEN LineTrades(r.lines) ELSE L[c]
  <2>1. conns' = [conns EXCEPT ![1] = r]
    BY <1>3
  <2>2. 1 \in 1 .. Len(conns) /\ conns \in Seq(Connection)
    BY <1>2
  <2>3. Len(conns') = n /\ \A c \in 1 .. n :
            conns'[c].lines = IF c = 1 THEN r.lines ELSE conns[c].lines
    BY <2>1, <2>2, ConnTradesAre
  <2>. QED
    BY <2>3 DEF ConnTrades
<1>. HIDE DEF n, L, L2, T, T2, Q, R, b
<1>7. L[1] = LineTrades(l) /\ L2[1] = LineTrades(Tail(l))
  BY <1>2, <1>3, <1>6
<1>. HIDE DEF l
<1>8. /\ Head(l) \in Good /\ Tail(l) \in Seq(Good) /\ Queued(Tail(l))
      /\ X \subseteq LineTrades(l) /\ LineTrades(Tail(l)) \subseteq LineTrades(l)
      /\ Below(X, LineTrades(Tail(l)))
  BY <1>2, <1>5, OneLess, QueueShorter
<1>. HIDE DEF X
<1>9. Below(T, X)
  <2>1. Below(T, L[1])
    BY <1>2, <1>4 DEF Staged
  <2>. QED
    BY <1>7, <1>8, <2>1, Zenon DEF Below
<1>10. Ordered(tape') /\ T2 \in SUBSET (T \cup X)
  BY <1>2, <1>8, <1>9, ChartApplied DEF T, T2, X
<1>11. Staged(T2, n, L2, Q, R, b)
  <2>1. \A c \in 1 .. n : c # 1 => L2[c] = L[c]
    BY <1>6
  <2>2. X \in SUBSET L[1] /\ L2[1] \subseteq L[1] /\ Below(X, L2[1])
    BY <1>7, <1>8 DEF X
  <2>3. Staged(T, n, L, Q, R, b) /\ n \in Nat \ {0}
    BY <1>2, <1>4
  <2>. QED
    BY <1>10, <2>1, <2>2, <2>3, StagedHandle
<1>12. \A c \in 1 .. n : conns'[c].lines \in Seq(Good) /\ Queued(conns'[c].lines)
  BY <1>3, <1>4, <1>6, <1>8
<1>. QED
  BY <1>1, <1>4, <1>6, <1>10, <1>11, <1>12 DEF TapeInv, T2, n, L2, Q, R, b
LEMMA TapeInvCloses == TypeInv /\ TapeInv /\ PeerClosed => TapeInv'
<1>. SUFFICES ASSUME TypeInv, TapeInv, PeerClosed PROVE TapeInv'
  OBVIOUS
<1>. DEFINE n == Len(conns)
            L == ConnTrades(conns)
            L2 == ConnTrades(conns')
            T == TradesOf(tape)
            Q == LineTrades(todo)
            R == Range(trades)
            b == TradeTime(prints)
<1>1. conns' = Tail(conns) /\ UNCHANGED <<todo, trades, prints, tape>>
  BY DEF PeerClosed, callVars, dataVars, bufferVars, exchangeVars, storeVars
<1>2. n \in Nat \ {0} /\ conns \in Seq(Connection) /\ conns # <<>>
  BY OldestThere DEF PeerClosed, TypeInv, LinkOK
<1>3. /\ Len(conns') = n - 1
      /\ \A c \in 1 .. n - 1 : conns'[c] = conns[c + 1] /\ c + 1 \in 1 .. n
  BY <1>1, <1>2, OneLess
<1>4. /\ todo \in Seq(Good) /\ Queued(todo) /\ InOrder(trades) /\ Ordered(tape)
      /\ \A c \in 1 .. n : conns[c].lines \in Seq(Good) /\ Queued(conns[c].lines)
      /\ Staged(T, n, L, Q, R, b)
  BY DEF TapeInv
<1>5. \A c \in 1 .. n - 1 : L2[c] = L[c + 1]
  BY <1>3 DEF ConnTrades
<1>. HIDE DEF n, L, L2, T, Q, R, b
<1>6. Staged(T, n - 1, L2, Q, R, b)
  BY <1>2, <1>4, <1>5, StagedClose
<1>7. \A c \in 1 .. n - 1 : conns'[c].lines \in Seq(Good) /\ Queued(conns'[c].lines)
  BY <1>3, <1>4
<1>. QED
  BY <1>1, <1>3, <1>4, <1>6, <1>7 DEF TapeInv, L2, T, Q, R, b

LEMMA TapeInvTimesOut == TypeInv /\ TapeInv /\ ReplyTimesOut => TapeInv'
<1>. SUFFICES ASSUME TypeInv, TapeInv, ReplyTimesOut PROVE TapeInv'
  OBVIOUS
<1>. DEFINE n == Len(conns)
            l == conns[n].lines
<1>1. UNCHANGED <<todo, trades, prints, tape>>
  BY DEF ReplyTimesOut, dataVars, bufferVars, exchangeVars, storeVars
<1>2. link = "up"
  BY TimedOutIs
<1>3. PICK r \in Connection : \E kept \in 0 .. Len(l) :
             conns' = [conns EXCEPT ![n] = r] /\ r.lines = SubSeq(l, 1, kept)
  BY TimedOutIs
<1>4. n \in 1 .. n /\ conns \in Seq(Connection)
  BY <1>2, NewestThere DEF TypeInv, LinkOK
<1>5. /\ todo \in Seq(Good) /\ Queued(todo)
      /\ \A c \in 1 .. n : conns[c].lines \in Seq(Good) /\ Queued(conns[c].lines)
  BY DEF TapeInv
<1>6. Len(conns') = n /\ \A c \in 1 .. n :
          conns'[c].lines = IF c = n THEN r.lines ELSE conns[c].lines
  <2>1. conns' = [conns EXCEPT ![n] = r]
    BY <1>3
  <2>2. n \in 1 .. Len(conns) /\ conns \in Seq(Connection)
    BY <1>4
  <2>. QED
    BY <2>1, <2>2, ConnTradesAre
<1>7. l \in Seq(Good) /\ Queued(l)
  BY <1>4, <1>5
<1>8. /\ r.lines \in Seq(Good) /\ Queued(r.lines)
      /\ LineTrades(r.lines) \subseteq LineTrades(l)
  <2>. HIDE DEF l
  <2>. QED
    BY <1>3, <1>7, QueueShorter
<1>9. \A c \in 1 .. n : /\ conns'[c].lines \in Seq(Good) /\ Queued(conns'[c].lines)
                        /\ LineTrades(conns'[c].lines) \subseteq LineTrades(conns[c].lines)
  BY <1>5, <1>6, <1>8
<1>. QED
  BY <1>1, <1>5, <1>6, <1>9, TapeInvLess

LEMMA TapeInvStep == TypeInv /\ TapeInv /\ [Next]_vars => TapeInv'
<1>. SUFFICES ASSUME TypeInv, TapeInv, [Next]_vars PROVE TapeInv'
  OBVIOUS
<1>0. /\ todo \in Seq(Good) /\ Queued(todo)
      /\ \A c \in 1 .. Len(conns) :
            conns[c].lines \in Seq(Good) /\ Queued(conns[c].lines)
      /\ lastQuotes \in Rows /\ lastUniverse \in 0 .. MaxUniverses
      /\ Ordered(tape) /\ InOrder(trades)
  BY DEF TapeInv, TypeInv, CacheOK
\* The places keep what they hold.
<1>1. ASSUME UNCHANGED <<conns, todo, trades, prints, tape>> PROVE TapeInv'
  BY <1>1 DEF TapeInv
\* A message with no trades in it.
<1>2. ASSUME NEW msg \in Good, TradesIn(msg) = {}, NEW rows \in Rows,
             NEW u \in 0 .. MaxUniverses, NEW cont, pc # "write",
             Send(msg, rows, u, cont), UNCHANGED <<tape, prints, trades>>
      PROVE  TapeInv'
  BY <1>2, TapeInvSends
<1>3. CASE (\E s \in Symbols : EmitQuote(s)) \/ FlushTimer \/ RetryDue \/ ReplyFails
           \/ Accept \/ UNCHANGED vars
  <2>1. UNCHANGED <<conns, todo, trades, prints, tape>>
    BY <1>3 DEF EmitQuote, FlushTimer, RetryDue, ReplyFails, Accept, vars, callVars,
                dataVars, bufferVars, exchangeVars, terminalSide, storeVars
  <2>. QED
    BY <1>1, <2>1
<1>4. CASE EmitTrade \/ EmitLastMatch
  BY <1>4, TapeInvEmits
<1>5. CASE SetUniverse
  <2>. DEFINE msg == UniverseMsg(lastUniverse')
  <2>1. /\ pc # "write" /\ lastUniverse' = lastUniverse + 1 /\ lastUniverse < MaxUniverses
        /\ Send(msg, lastQuotes, lastUniverse', "idle")
        /\ UNCHANGED <<tape, prints, trades>>
    BY <1>5 DEF SetUniverse, exchangeVars, bufferVars, terminalSide, storeVars
  <2>2. lastUniverse' \in 1 .. MaxUniverses
    BY <1>0, <2>1, ReadingsType
  <2>3. msg \in Message /\ msg.m = "universe"
    BY <2>2, MessagesType DEF UniverseMsg
  <2>. HIDE DEF msg
  <2>4. msg \in Good /\ TradesIn(msg) = {}
    BY <2>3, GoodMessages
  <2>. QED
    BY <1>0, <1>2, <2>1, <2>2, <2>4
<1>6. CASE PublishHistory
  <2>1. pc # "write" /\ UNCHANGED <<tape, prints, trades>>
    BY <1>6 DEF PublishHistory, dataVars, bufferVars, terminalSide, storeVars
  <2>2. PICK fetched \in 1 .. prints :
               Send(HistoryMsg([k \in 1 .. fetched |-> CandleTime(k)]),
                    lastQuotes, lastUniverse, "idle")
    BY <1>6 DEF PublishHistory
  <2>. DEFINE msg == HistoryMsg([k \in 1 .. fetched |-> CandleTime(k)])
  <2>3. msg \in Good /\ TradesIn(msg) = {}
    BY <2>2, GoodMessages
  <2>4. Send(msg, lastQuotes, lastUniverse, "idle")
    BY <2>2
  <2>. HIDE DEF msg
  <2>. QED
    BY <1>0, <1>2, <2>1, <2>3, <2>4
<1>7. CASE Poll
  <2>1. /\ pc # "write" /\ UNCHANGED <<tape, prints, trades>>
        /\ Send(PollMsg, lastQuotes, lastUniverse, "reply")
    BY <1>7 DEF Poll, exchangeVars, dataVars, bufferVars, terminalSide, storeVars
  <2>2. PollMsg \in Message /\ PollMsg.m = "poll"
    BY MessagesType DEF PollMsg
  <2>3. PollMsg \in Good /\ TradesIn(PollMsg) = {}
    BY <2>2, GoodMessages
  <2>. QED
    BY <1>0, <1>2, <2>1, <2>3
<1>8. CASE FlushTrades
  <2>1. /\ pc # "write" /\ UNCHANGED <<tape, prints>> /\ trades' = <<>>
        /\ \/ trades = <<>> /\ UNCHANGED <<todo, conns>>
           \/ trades # <<>> /\ Send(TradesMsg(trades), lastQuotes, lastUniverse, "quotes")
    BY <1>8 DEF FlushTrades, exchangeVars, terminalSide, storeVars
  <2>2. CASE trades = <<>> /\ UNCHANGED <<todo, conns>>
    BY <1>1, <2>1, <2>2
  <2>3. CASE trades # <<>> /\ Send(TradesMsg(trades), lastQuotes, lastUniverse, "quotes")
    <3>1. TradesMsg(trades) \in Good /\ TradesIn(TradesMsg(trades)) = Range(trades)
      BY <2>3, GoodMessages
    <3>. DEFINE msg == TradesMsg(trades)
    <3>2. /\ msg \in Good /\ TradesIn(msg) = Range(trades)
          /\ Send(msg, lastQuotes, lastUniverse, "quotes")
      BY <2>3, <3>1
    <3>. HIDE DEF msg
    <3>. QED
      BY <1>0, <2>1, <3>2, TapeInvSends
  <2>. QED
    BY <2>1, <2>2, <2>3
<1>9. CASE FlushQuotes
  <2>. DEFINE msg == QuotesMsg(RowsOf(quotes))
  <2>1. /\ pc # "write" /\ UNCHANGED <<tape, prints, trades>>
        /\ \/ quotes = <<>> /\ UNCHANGED <<todo, conns>>
           \/ Send(msg, lastQuotes', lastUniverse, "idle")
    BY <1>9 DEF FlushQuotes, exchangeVars, terminalSide, storeVars
  <2>2. CASE UNCHANGED <<todo, conns>>
    BY <1>1, <2>1, <2>2
  <2>3. CASE Send(msg, lastQuotes', lastUniverse, "idle")
    <3>1. msg \in Message /\ msg.m = "quotes"
      BY MessagesType DEF QuotesMsg
    <3>2. lastQuotes' \in Rows
      BY CacheStep DEF CacheOK
    <3>. HIDE DEF msg
    <3>3. msg \in Good /\ TradesIn(msg) = {}
      BY <3>1, GoodMessages
    <3>. QED
      BY <1>0, <1>2, <2>1, <2>3, <3>2, <3>3
  <2>. QED
    BY <2>1, <2>2, <2>3
<1>10. CASE WriteDelivered
  BY <1>10, TapeInvWrites
<1>11. CASE WriteLost \/ WriteFails
  <2>1. /\ pc = "write" /\ UNCHANGED <<conns, trades, prints, tape>>
        /\ todo' \in {Tail(todo), <<>>}
    BY <1>11 DEF WriteLost, WriteFails, Written, exchangeVars, dataVars, bufferVars,
                 terminalSide, storeVars
  <2>2. todo # <<>>
    BY <2>1 DEF TypeInv, CallOK
  <2>3. /\ todo' \in Seq(Good) /\ Queued(todo')
        /\ LineTrades(todo') \subseteq LineTrades(todo)
    <3>1. CASE todo' = Tail(todo)
      BY <1>0, <2>2, <3>1, OneLess, QueueShorter
    <3>2. CASE todo' = <<>>
      BY <3>2, QueueOfNone
    <3>. QED
      BY <2>1, <3>1, <3>2
  <2>. QED
    BY <1>0, <2>1, <2>3, TapeInvLess
<1>12. CASE ReadReply
  <2>1. UNCHANGED <<todo, trades, prints, tape>>
    BY <1>12 DEF ReadReply, exchangeVars, dataVars, bufferVars, terminalSide, storeVars
  <2>2. CASE UNCHANGED conns
    BY <1>1, <2>1, <2>2
  <2>3. CASE ~UNCHANGED conns
    <3>1. PICK r \in Connection : /\ conns' = [conns EXCEPT ![Len(conns)] = r]
                                  /\ r.lines = conns[Len(conns)].lines /\ link = "up"
      BY <1>12, <2>3, RepliedIs
    <3>2. Len(conns) \in 1 .. Len(conns) /\ conns \in Seq(Connection)
      BY <3>1, NewestThere DEF TypeInv, LinkOK
    <3>3. Len(conns') = Len(conns) /\ \A c \in 1 .. Len(conns) :
              conns'[c].lines = IF c = Len(conns) THEN r.lines ELSE conns[c].lines
      BY <3>1, <3>2, ConnTradesAre
    <3>4. \A c \in 1 .. Len(conns) : conns'[c].lines = conns[c].lines
      BY <3>1, <3>3
    <3>. QED
      BY <1>0, <2>1, <3>3, <3>4, TapeInvLess
  <2>. QED
    BY <2>2, <2>3
<1>13. CASE ReplyTimesOut
  BY <1>13, TapeInvTimesOut
<1>14. CASE StartTerminal
  <2>1. tape' = <<>> /\ UNCHANGED <<conns, todo, trades, prints>>
    BY <1>14 DEF StartTerminal, exchangeVars, callVars, dataVars, bufferVars
  <2>. QED
    BY <1>0, <2>1, TapeInvLess
<1>15. CASE StopTerminal
  <2>1. conns' = <<>> /\ UNCHANGED <<tape, todo, trades, prints>>
    BY <1>15 DEF StopTerminal, exchangeVars, callVars, dataVars, bufferVars, storeVars
  <2>2. Len(conns') = 0 /\ \A c \in 1 .. 0 : FALSE
    BY <2>1
  <2>3. Staged(TradesOf(tape), 0, ConnTrades(conns'), LineTrades(todo), Range(trades),
               TradeTime(prints))
    BY <2>2, Zenon DEF TapeInv, Staged
  <2>. QED
    BY <1>0, <2>1, <2>2, <2>3 DEF TapeInv
<1>16. CASE HandleLine
  BY <1>16, TapeInvHandles
<1>17. CASE PeerClosed
  BY <1>17, TapeInvCloses
<1>. QED
  BY <1>3, <1>4, <1>5, <1>6, <1>7, <1>8, <1>9, <1>10, <1>11, <1>12, <1>13, <1>14,
     <1>15, <1>16, <1>17 DEF Next

\* A chart shows the trades in the order they happened, for any sizes of buffer
\* and chart and any number of reconnects, restarts of the terminal, late answers
\* and trades sent again after a subscribe: each trade waits in the buffer, the
\* call, one connection or the tape, and never behind a later one
\* (market_store.cpp:14-20, base.py:92-129, coinbase.py:208).
THEOREM ChartInOrder == Spec => []TapeInOrder
<1>1. Init => TypeInv /\ TapeInv
  BY TypeInit, TapeInvInit
<1>2. TypeInv /\ TapeInv /\ [Next]_vars => TypeInv' /\ TapeInv'
  BY TypeStep, TapeInvStep
<1>3. TypeInv /\ TapeInv => TapeInOrder
  BY TapeInvSays
<1>. QED
  BY <1>1, <1>2, <1>3, PTL DEF Spec

\* A backfill adds candles in front of the chart and takes nothing away, for any
\* candles and any size of the chart; a chart in time order stays in order
\* (market_store.cpp:27-38).  While the server serves, no other step touches the
\* chart.
THEOREM BackfillKeepsTape == Spec => BackfillGoesInFront
<1>. DEFINE Inv == TypeInv /\ StoreInv /\ TapeInv
            Says == serving /\ Head(conns).lines # <<>>
                    /\ Head(Head(conns).lines).m = "history"
                    => IsSuffix(tape, tape') /\ (InOrder(tape) => InOrder(tape'))
<1>1. Init => Inv
  BY TypeInit, StoreInvInit, TapeInvInit
<1>2. Inv /\ [Next]_vars => Inv'
  BY TypeStep, StoreInvStep, TapeInvStep
<1>3. Inv /\ [Next]_vars => [Says]_vars
  <2>. SUFFICES ASSUME Inv, [Next]_vars, serving, Head(conns).lines # <<>>,
                       Head(Head(conns).lines).m = "history"
                PROVE  IsSuffix(tape, tape') /\ (InOrder(tape) => InOrder(tape'))
    OBVIOUS
  <2>0. /\ tape \in Seq(Times) /\ Len(tape) <= MaxTape
        /\ conns # <<>> /\ listening /\ Head(conns) = conns[1] /\ 1 \in 1 .. Len(conns)
    BY OldestThere DEF TypeInv, StoreOK, StoreInv
  <2>1. CASE HandleLine
    <3>. DEFINE line == Head(conns[1].lines)
    <3>1. line \in Message /\ Apply(line) /\ conns[1].lines # <<>> /\ line.m = "history"
      BY <2>0, <2>1, HandledIs
    <3>2. line \in Good
      <4>1. conns[1].lines \in Seq(Good)
        BY <2>0 DEF TapeInv
      <4>. QED
        BY <3>1, <4>1, OneLess
    <3>. HIDE DEF line
    <3>3. line.list \in Seq(Times) /\ InOrder(line.list)
      BY <3>1, <3>2 DEF Good, WellFormed, Message
    <3>4. tape' = Backfill(line.list)
      BY <3>1 DEF Apply
    <3>. QED
      BY <2>0, <3>3, <3>4, FrontFits DEF Backfill
  <2>2. CASE ~HandleLine
    <3>1. tape' = tape
      BY <2>0, <2>2 DEF Next, vars, terminalSide, storeVars, EmitQuote, EmitTrade, EmitLastMatch,
                SetUniverse, PublishHistory, FlushTimer, FlushTrades, FlushQuotes, Poll,
                WriteDelivered, WriteLost, WriteFails, RetryDue, ReadReply, ReplyFails,
                ReplyTimesOut, StartTerminal, StopTerminal, Accept, PeerClosed
    <3>2. IsSuffix(tape, tape)
      BY <2>0 DEF IsSuffix, IsPrefix, Reverse
    <3>. QED
      BY <3>1, <3>2
  <2>. QED
    BY <2>1, <2>2
<1>. QED
  BY <1>1, <1>2, <1>3, PTL DEF Spec, BackfillGoesInFront
=============================================================================
