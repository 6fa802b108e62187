------------------------------ MODULE HourProofs ------------------------------
(***************************************************************************)
(* The stages of DataPath that are about hours.  For any trades, hours and   *)
(* buckets, and any order the archives bring them in: every candle is the    *)
(* one its trades determine, every trade is in one hour, and the checks of a *)
(* finished hour never refuse one.  For any world, zone and interleaving of  *)
(* a page's reads with the changes of the files: a page at rest shows the    *)
(* hours as they are and the newest window that can be analysed.             *)
(***************************************************************************)
EXTENDS DataPath, FiniteSetTheorems, SequenceTheorems, WellFoundedInduction, TLAPS

(* A set of numbers has a least one.                                         *)
Less == {p \in Nat \X Nat : p[1] < p[2]}
LEMMA Least ==
  ASSUME NEW S \in SUBSET Nat, S # {}
  PROVE  \E x \in S : \A y \in S : x =< y
<1>1. IsWellFoundedOn(Less, Nat)
  BY NatLessThanWellFounded DEF OpToRel, Less
<1>2. \A x, y \in Nat : <<x, y>> \in Less <=> x < y
  BY DEF Less
<1>3. PICK x \in S : \A y \in S : <<y, x>> \notin Less
  BY <1>1, WFMin
<1>4. \A y \in S : ~(y < x)
  BY <1>2, <1>3
<1> QED BY <1>3, <1>4

(* Division.                                                                 *)
LEMMA Times ==
  ASSUME NEW n \in Nat \ {0}, NEW q \in Int, NEW k \in Int
  PROVE  /\ n * q \in Int /\ n * (q + 1) = n * q + n /\ n * (k - q) = n * k - n * q
         /\ q < k => n * q + n =< n * k
<1>1. n * q \in Int /\ n * (q + 1) = n * q + n /\ n * (k - q) = n * k - n * q
  OBVIOUS
<1>2. ASSUME NEW d \in Nat PROVE n * d >= 0
  OBVIOUS
<1>3. q < k => n * q + n =< n * k
  <2> SUFFICES ASSUME q < k PROVE n * q + n =< n * k
    OBVIOUS
  <2>1. k - (q + 1) \in Nat
    OBVIOUS
  <2>2. n * (k - (q + 1)) >= 0
    BY <1>2, <2>1
  <2>3. n * (k - (q + 1)) = n * k - (n * q + n)
    OBVIOUS
  <2> QED BY <2>2, <2>3
<1> QED BY <1>1, <1>3

LEMMA TimesIsMonotone ==
  ASSUME NEW n \in Nat \ {0}, NEW q \in Int, NEW k \in Int, q =< k
  PROVE  n * q =< n * k
<1>1. q < k \/ q = k
  OBVIOUS
<1>2. n * q \in Int /\ n * k \in Int
  BY Times
<1>3. q < k => n * q + n =< n * k
  BY Times
<1> QED BY <1>1, <1>2, <1>3

LEMMA Floor ==
  ASSUME NEW n \in Nat \ {0}, NEW a \in Int
  PROVE  /\ a \div n \in Int /\ n * (a \div n) =< a /\ a < n * (a \div n) + n
         /\ a % n \in 0 .. n - 1 /\ a = n * (a \div n) + (a % n)
         /\ \A k \in Int : n * k =< a /\ a < n * k + n => k = a \div n
<1>1. a \div n \in Int /\ a % n \in 0 .. n - 1 /\ a = n * (a \div n) + (a % n)
  OBVIOUS
<1>2. n * (a \div n) =< a /\ a < n * (a \div n) + n
  BY <1>1
<1>3. ASSUME NEW k \in Int, n * k =< a, a < n * k + n PROVE k = a \div n
  <2>1. ~(k < a \div n)
    BY <1>1, <1>2, <1>3, Times
  <2>2. ~(a \div n < k)
    BY <1>1, <1>2, <1>3, Times
  <2> QED BY <1>1, <2>1, <2>2
<1> QED BY <1>1, <1>2, <1>3

-----------------------------------------------------------------------------
(* Candles.                                                                  *)
LEMMA CandlesInside ==
  (DataInit => Candles!Init) /\ ([DataNext]_<<stage, dataVars>> => [Candles!Next]_Candles!vars)
BY DEF DataInit, DataNext, dataVars, candleVars, Candles!vars

Streamed == Seq(TradeRecords)
CandleRecords ==
  [open : Int, high : Int, low : Int, close : Int, first : Int \X Nat, last : Int \X Nat, count : Nat]

(* The arrivals of the first n records of a stream that a bucket stands for. *)
Arrived(s, h, n) ==
  {i \in 1 .. n : Candles!InHour(h, s[i]) /\ \A j \in 1 .. i - 1 : s[j] # s[i]}
ArrivedIn(s, h, b, n) == {i \in Arrived(s, h, n) : Candles!Bucket(h, s[i]) = b}
OrderOf(s, i) == <<s[i].time, i - 1>>

(* A candle of some arrivals.                                                *)
OfArrivals(s, A, c) ==
  \E f, l, hi, lo \in A :
    /\ \A j \in A \ {f} : Candles!Earlier(OrderOf(s, f), OrderOf(s, j))
    /\ \A j \in A \ {l} : Candles!Earlier(OrderOf(s, j), OrderOf(s, l))
    /\ \A j \in A : s[j].price =< s[hi].price /\ s[lo].price =< s[j].price
    /\ c = [open |-> s[f].price, high |-> s[hi].price, low |-> s[lo].price, close |-> s[l].price,
            first |-> OrderOf(s, f), last |-> OrderOf(s, l), count |-> Cardinality(A)]
IsCandle(s, h, b, n, c) ==
  IF ArrivedIn(s, h, b, n) = {} THEN c = NoCandle ELSE OfArrivals(s, ArrivedIn(s, h, b, n), c)

IsHour(a) == a = [seen |-> a.seen, candles |-> a.candles, accepted |-> a.accepted,
                  duplicates |-> a.duplicates, outside |-> a.outside, state |-> a.state, block |-> a.block]

(* What an hour that reads has of the stream.                                *)
OpenHour(s, h, a) ==
  /\ a.seen = {s[i] : i \in {i \in 1 .. Len(s) : Candles!InHour(h, s[i])}}
  /\ a.candles = [b \in Candles!Buckets |-> a.candles[b]]
  /\ \A b \in Candles!Buckets : IsCandle(s, h, b, Len(s), a.candles[b])
  /\ a.accepted = Cardinality(Arrived(s, h, Len(s)))
  /\ a.accepted \in Nat /\ a.duplicates \in Nat /\ a.outside \in Nat
  /\ a.accepted + a.duplicates + a.outside = Len(s)

HourIsTrue(s, h, a) ==
  /\ IsHour(a) /\ a.state \in {"open", "failed", "finished"}
  /\ a.state = "open" => OpenHour(s, h, a)
  /\ a.state = "finished" =>
       \E n \in 0 .. Len(s) : \A b \in Candles!Buckets : IsCandle(s, h, b, n, a.block.observations[b])
  /\ a.state = "failed" =>
       \E i, j \in 1 .. Len(s) :
         Candles!InHour(h, s[i]) /\ Candles!InHour(h, s[j]) /\ s[i].id = s[j].id /\ s[i] # s[j]

CandleInv ==
  /\ read \in Streamed /\ accumulators = [h \in TradeHours |-> accumulators[h]]
  /\ \A h \in TradeHours : HourIsTrue(read, h, accumulators[h])

LEMMA CountedCandles == \A S : Candles!Cardinality(S) = Cardinality(S)
BY DEF Candles!Cardinality, Cardinality

LEMMA TradesAreNumbers ==
  ASSUME NEW s \in Streamed, NEW i \in 1 .. Len(s)
  PROVE  s[i] \in TradeRecords /\ s[i].time \in Int /\ s[i].price \in Int /\ Len(s) \in Nat
<1>1. s[i] \in TradeRecords /\ Len(s) \in Nat
  BY DEF Streamed
<1> QED BY <1>1, CandleAssumption

(* The order of trades.                                                      *)
LEMMA OrderIsTotal ==
  ASSUME NEW s \in Streamed, NEW i \in 1 .. Len(s), NEW j \in 1 .. Len(s)
  PROVE  /\ Candles!Earlier(OrderOf(s, i), OrderOf(s, j)) <=>
              s[i].time < s[j].time \/ (s[i].time = s[j].time /\ i < j)
         /\ OrderOf(s, i) \in Int \X Nat
<1>1. s[i].time \in Int /\ s[j].time \in Int /\ i \in Int /\ j \in Int /\ i - 1 \in Nat
  BY TradesAreNumbers
<1> QED BY <1>1 DEF Candles!Earlier, OrderOf

(* The bucket of a trade of an hour.                                         *)
LEMMA BucketsOfHours ==
  ASSUME NEW h \in TradeHours, NEW t \in TradeRecords, Candles!InHour(h, t)
  PROVE  LET b == Candles!Bucket(h, t)
             from == h * TradeHourTicks + b * BucketTicks
         IN  /\ b \in Candles!Buckets
             /\ from =< t.time /\ t.time < h * TradeHourTicks + (b + 1) * BucketTicks
<1> DEFINE all == TradeHourTicks \div BucketTicks
<1>1. /\ TradeHourTicks \in Nat \ {0} /\ BucketTicks \in Nat \ {0} /\ TradeHourTicks % BucketTicks = 0
      /\ h \in Int /\ t.time \in Int
  BY CandleAssumption
<1>2. PICK p \in Int : p = h * TradeHourTicks
  BY <1>1
<1>3. (h + 1) * TradeHourTicks = p + TradeHourTicks
  BY <1>1, <1>2
<1>4. PICK x \in Int : x = t.time - p
  BY <1>1
<1>5. 0 =< x /\ x < TradeHourTicks
  BY <1>1, <1>2, <1>3, <1>4 DEF Candles!InHour
<1>6. PICK b \in Int : b = x \div BucketTicks
  BY <1>1, Floor
<1>7. Candles!Bucket(h, t) = b
  BY <1>2, <1>4, <1>6 DEF Candles!Bucket
<1>8. BucketTicks * b =< x /\ x < BucketTicks * b + BucketTicks /\ BucketTicks * b \in Int
  <2>1. BucketTicks * b \in Int
    BY <1>1, Times
  <2> QED BY <1>1, <1>6, <2>1, Floor
<1>9. all \in Int /\ TradeHourTicks = BucketTicks * all /\ BucketTicks * all \in Int
  <2>1. all \in Int /\ TradeHourTicks = BucketTicks * all + (TradeHourTicks % BucketTicks)
    BY <1>1, Floor
  <2>2. BucketTicks * all \in Int
    BY <1>1, <2>1, Times
  <2> HIDE DEF all
  <2> QED BY <1>1, <2>1, <2>2
<1> HIDE DEF all
<1>10. ~(b < 0)
  <2>1. b < 0 => BucketTicks * b + BucketTicks =< BucketTicks * 0
    BY <1>1, Times
  <2> QED BY <1>1, <1>5, <1>8, <2>1
<1>11. ~(all =< b)
  <2>1. all =< b => BucketTicks * all =< BucketTicks * b
    BY <1>1, <1>9, TimesIsMonotone
  <2> QED BY <1>1, <1>5, <1>8, <1>9, <2>1
<1>12. b \in Candles!Buckets
  <2>1. Candles!Buckets = 0 .. all - 1
    BY DEF Candles!Buckets, all
  <2> QED BY <1>9, <1>10, <1>11, <2>1
<1>13. b * BucketTicks = BucketTicks * b /\ (b + 1) * BucketTicks = BucketTicks * b + BucketTicks
  BY <1>1
<1>14. p + b * BucketTicks =< t.time /\ t.time < p + (b + 1) * BucketTicks
  BY <1>1, <1>4, <1>8, <1>13
<1> QED BY <1>2, <1>7, <1>12, <1>14

LEMMA OneHour ==
  ASSUME NEW h \in TradeHours, NEW g \in TradeHours, NEW t \in TradeRecords,
         Candles!InHour(h, t), Candles!InHour(g, t)
  PROVE  h = g
<1>1. TradeHourTicks \in Nat \ {0} /\ h \in Int /\ g \in Int /\ t.time \in Int
  BY CandleAssumption
<1> DEFINE n == TradeHourTicks
<1>2. /\ n * h =< t.time /\ t.time < n * h + n /\ n * g =< t.time /\ t.time < n * g + n
      /\ n * h \in Int /\ n * g \in Int
  <2>1. /\ h * n = n * h /\ (h + 1) * n = n * h + n /\ g * n = n * g /\ (g + 1) * n = n * g + n
        /\ n * h \in Int /\ n * g \in Int
    BY <1>1
  <2>2. h * n =< t.time /\ t.time < (h + 1) * n /\ g * n =< t.time /\ t.time < (g + 1) * n
    BY DEF Candles!InHour
  <2> QED BY <2>1, <2>2
<1>3. ~(h < g)
  <2>1. h < g => n * h + n =< n * g
    BY <1>1, Times
  <2> QED BY <1>1, <1>2, <2>1
<1>4. ~(g < h)
  <2>1. g < h => n * g + n =< n * h
    BY <1>1, Times
  <2> QED BY <1>1, <1>2, <2>1
<1> QED BY <1>1, <1>3, <1>4

(* Arrivals are finitely many.                                               *)
LEMMA ArrivalsAreFinite ==
  ASSUME NEW s, NEW h, NEW n \in Nat, NEW S \in SUBSET Arrived(s, h, n)
  PROVE  IsFiniteSet(S) /\ Cardinality(S) \in Nat /\ S \subseteq 1 .. n
<1>1. S \subseteq 1 .. n
  BY DEF Arrived
<1>2. IsFiniteSet(1 .. n)
  BY FS_Interval
<1>3. IsFiniteSet(S)
  BY <1>1, <1>2, FS_Subset
<1> QED BY <1>1, <1>3, FS_CardinalityType

(* The candle of a bucket is the one of its arrivals.                        *)
LEMMA TheOneCandle ==
  ASSUME read \in Streamed, NEW h, NEW b, NEW n \in 0 .. Len(read), NEW c, IsCandle(read, h, b, n, c)
  PROVE  c = Candles!TheCandle(h, b, n)
<1> DEFINE A == ArrivedIn(read, h, b, n)
           first == CHOOSE i \in A : \A j \in A \ {i} : Candles!Earlier(OrderOf(read, i), OrderOf(read, j))
           last == CHOOSE i \in A : \A j \in A \ {i} : Candles!Earlier(OrderOf(read, j), OrderOf(read, i))
           top == CHOOSE i \in A : \A j \in A : read[j].price =< read[i].price
           bottom == CHOOSE i \in A : \A j \in A : read[j].price >= read[i].price
<1>1. Candles!TheCandle(h, b, n) =
        IF A = {} THEN NoCandle
        ELSE [open |-> read[first].price, close |-> read[last].price, high |-> read[top].price,
              low |-> read[bottom].price, first |-> OrderOf(read, first), last |-> OrderOf(read, last),
              count |-> Cardinality(A)]
  <2>1. A = {i \in Candles!Arrivals(h, n) : Candles!Bucket(h, read[i]) = b}
    BY DEF ArrivedIn, Arrived, Candles!Arrivals
  <2>2. Candles!Cardinality(A) = Cardinality(A)
    BY CountedCandles
  <2> QED BY <2>1, <2>2 DEF Candles!TheCandle, OrderOf
<1>2. A \subseteq 1 .. Len(read) /\ Len(read) \in Nat
  <2>1. Len(read) \in Nat
    BY DEF Streamed
  <2> QED BY <2>1 DEF ArrivedIn, Arrived
<1> HIDE DEF A
<1>3. CASE A = {}
  BY <1>1, <1>3 DEF IsCandle, A
<1>4. CASE A # {}
  <2>1. OfArrivals(read, A, c)
    BY <1>4 DEF IsCandle, A
  <2>2. PICK f, l, hi, lo \in A :
          /\ \A j \in A \ {f} : Candles!Earlier(OrderOf(read, f), OrderOf(read, j))
          /\ \A j \in A \ {l} : Candles!Earlier(OrderOf(read, j), OrderOf(read, l))
          /\ \A j \in A : read[j].price =< read[hi].price /\ read[lo].price =< read[j].price
          /\ c = [open |-> read[f].price, high |-> read[hi].price, low |-> read[lo].price,
                  close |-> read[l].price, first |-> OrderOf(read, f), last |-> OrderOf(read, l),
                  count |-> Cardinality(A)]
    BY <2>1 DEF OfArrivals
  <2>3. \A i, j \in A : ~(Candles!Earlier(OrderOf(read, i), OrderOf(read, j))
                          /\ Candles!Earlier(OrderOf(read, j), OrderOf(read, i)))
    <3> SUFFICES ASSUME NEW i \in A, NEW j \in A
                 PROVE  ~(Candles!Earlier(OrderOf(read, i), OrderOf(read, j))
                          /\ Candles!Earlier(OrderOf(read, j), OrderOf(read, i)))
      OBVIOUS
    <3>1. i \in 1 .. Len(read) /\ j \in 1 .. Len(read)
      BY <1>2
    <3>2. read[i].time \in Int /\ read[j].time \in Int
      BY <3>1, TradesAreNumbers
    <3>3. Candles!Earlier(OrderOf(read, i), OrderOf(read, j)) <=>
            read[i].time < read[j].time \/ (read[i].time = read[j].time /\ i < j)
      BY <3>1, OrderIsTotal
    <3>4. Candles!Earlier(OrderOf(read, j), OrderOf(read, i)) <=>
            read[j].time < read[i].time \/ (read[j].time = read[i].time /\ j < i)
      BY <3>1, OrderIsTotal
    <3> QED BY <3>1, <3>2, <3>3, <3>4
  <2>4. first = f
    <3>1. first \in A /\ \A j \in A \ {first} : Candles!Earlier(OrderOf(read, first), OrderOf(read, j))
      BY <2>2
    <3> HIDE DEF first
    <3> QED BY <2>2, <2>3, <3>1
  <2>5. last = l
    <3>1. last \in A /\ \A j \in A \ {last} : Candles!Earlier(OrderOf(read, j), OrderOf(read, last))
      BY <2>2
    <3> HIDE DEF last
    <3> QED BY <2>2, <2>3, <3>1
  <2>6. \A i \in A : read[i].price \in Int
    BY <1>2, TradesAreNumbers
  <2>7. read[top].price = read[hi].price
    <3>1. top \in A /\ \A j \in A : read[j].price =< read[top].price
      BY <2>2
    <3> HIDE DEF top
    <3> QED BY <2>2, <2>6, <3>1
  <2>8. read[bottom].price = read[lo].price
    <3>1. bottom \in A /\ \A j \in A : read[j].price >= read[bottom].price
      <4>1. \A j \in A : read[j].price >= read[lo].price
        BY <2>2, <2>6
      <4> QED BY <2>2, <4>1
    <3> HIDE DEF bottom
    <3> QED BY <2>2, <2>6, <3>1
  <2> HIDE DEF first, last, top, bottom
  <2> QED BY <1>1, <1>4, <2>2, <2>4, <2>5, <2>7, <2>8
<1> QED BY <1>3, <1>4

(* A stream that has grown, and one record more.                             *)
Begins(s, u) == Len(s) =< Len(u) /\ \A i \in 1 .. Len(s) : u[i] = s[i]

LEMMA OneMore ==
  ASSUME NEW s \in Streamed, NEW t \in TradeRecords, NEW u, u = Append(s, t)
  PROVE  u \in Streamed /\ Begins(s, u) /\ Len(u) = Len(s) + 1 /\ u[Len(u)] = t
BY DEF Streamed, Begins

LEMMA EarlierArrivalsStay ==
  ASSUME NEW s \in Streamed, NEW u \in Streamed, Begins(s, u), NEW h, NEW n \in Nat, n =< Len(s)
  PROVE  Arrived(u, h, n) = Arrived(s, h, n) /\ Arrived(s, h, n) \subseteq 1 .. n
<1>1. Len(s) \in Nat /\ \A i \in 1 .. n : u[i] = s[i]
  BY DEF Streamed, Begins
<1>2. ASSUME NEW i \in 1 .. n PROVE i \in Arrived(u, h, n) <=> i \in Arrived(s, h, n)
  <2>1. u[i] = s[i] /\ \A j \in 1 .. i - 1 : u[j] = s[j]
    BY <1>1
  <2> QED BY <2>1 DEF Arrived
<1>3. Arrived(u, h, n) \subseteq 1 .. n /\ Arrived(s, h, n) \subseteq 1 .. n
  BY DEF Arrived
<1> QED BY <1>2, <1>3

LEMMA EarlierBucketsStay ==
  ASSUME NEW s \in Streamed, NEW u \in Streamed, Begins(s, u), NEW h, NEW n \in Nat, n =< Len(s), NEW b
  PROVE  ArrivedIn(u, h, b, n) = ArrivedIn(s, h, b, n) /\ \A i \in ArrivedIn(s, h, b, n) : u[i] = s[i]
<1>1. Len(s) \in Nat /\ \A i \in 1 .. n : u[i] = s[i]
  BY DEF Streamed, Begins
<1>2. Arrived(u, h, n) = Arrived(s, h, n) /\ Arrived(s, h, n) \subseteq 1 .. n
  BY EarlierArrivalsStay
<1> QED BY <1>1, <1>2 DEF ArrivedIn

LEMMA SameOrder ==
  ASSUME NEW s, NEW u, NEW A, NEW c, OfArrivals(s, A, c), \A i \in A : u[i] = s[i]
  PROVE  OfArrivals(u, A, c)
<1>1. \A i \in A : OrderOf(u, i) = OrderOf(s, i)
  BY DEF OrderOf
<1>2. PICK f, l, hi, lo \in A :
        /\ \A j \in A \ {f} : Candles!Earlier(OrderOf(s, f), OrderOf(s, j))
        /\ \A j \in A \ {l} : Candles!Earlier(OrderOf(s, j), OrderOf(s, l))
        /\ \A j \in A : s[j].price =< s[hi].price /\ s[lo].price =< s[j].price
        /\ c = [open |-> s[f].price, high |-> s[hi].price, low |-> s[lo].price, close |-> s[l].price,
                first |-> OrderOf(s, f), last |-> OrderOf(s, l), count |-> Cardinality(A)]
  BY DEF OfArrivals
<1>3. /\ \A j \in A \ {f} : Candles!Earlier(OrderOf(u, f), OrderOf(u, j))
      /\ \A j \in A \ {l} : Candles!Earlier(OrderOf(u, j), OrderOf(u, l))
      /\ \A j \in A : u[j].price =< u[hi].price /\ u[lo].price =< u[j].price
  BY <1>1, <1>2
<1>4. c = [open |-> u[f].price, high |-> u[hi].price, low |-> u[lo].price, close |-> u[l].price,
           first |-> OrderOf(u, f), last |-> OrderOf(u, l), count |-> Cardinality(A)]
  BY <1>1, <1>2
<1> QED BY <1>3, <1>4 DEF OfArrivals

LEMMA CandlesStay ==
  ASSUME NEW s \in Streamed, NEW u \in Streamed, Begins(s, u), NEW h, NEW n \in Nat, n =< Len(s),
         NEW b, NEW c, IsCandle(s, h, b, n, c)
  PROVE  IsCandle(u, h, b, n, c)
<1>1. /\ ArrivedIn(u, h, b, n) = ArrivedIn(s, h, b, n)
      /\ \A i \in ArrivedIn(s, h, b, n) : u[i] = s[i]
  BY EarlierBucketsStay
<1>2. CASE ArrivedIn(s, h, b, n) = {}
  BY <1>1, <1>2 DEF IsCandle
<1>3. CASE ArrivedIn(s, h, b, n) # {}
  <2>1. OfArrivals(s, ArrivedIn(s, h, b, n), c)
    BY <1>3 DEF IsCandle
  <2>2. OfArrivals(u, ArrivedIn(s, h, b, n), c)
    BY <1>1, <2>1, SameOrder
  <2> QED BY <1>1, <1>3, <2>2 DEF IsCandle
<1> QED BY <1>2, <1>3

LEMMA NextArrival ==
  ASSUME NEW s \in Streamed, NEW u \in Streamed, Begins(s, u), Len(u) = Len(s) + 1, NEW h
  PROVE  /\ Candles!InHour(h, u[Len(u)]) /\ (\A j \in 1 .. Len(s) : s[j] # u[Len(u)]) =>
              Arrived(u, h, Len(u)) = Arrived(s, h, Len(s)) \cup {Len(u)}
         /\ ~(Candles!InHour(h, u[Len(u)]) /\ \A j \in 1 .. Len(s) : s[j] # u[Len(u)]) =>
              Arrived(u, h, Len(u)) = Arrived(s, h, Len(s))
         /\ Len(u) \notin Arrived(s, h, Len(s))
<1>1. PICK n \in Nat : n = Len(s) /\ Len(u) = n + 1 /\ \A i \in 1 .. n : u[i] = s[i]
  BY DEF Streamed, Begins
<1>2. Arrived(u, h, n) = Arrived(s, h, n)
  <2>1. n =< Len(s)
    BY <1>1
  <2> QED BY <2>1, EarlierArrivalsStay
<1>3. \A i \in 1 .. n : i \in Arrived(u, h, n + 1) <=> i \in Arrived(u, h, n)
  BY DEF Arrived
<1>4. n + 1 \in Arrived(u, h, n + 1) <=>
        Candles!InHour(h, u[n + 1]) /\ \A j \in 1 .. n : s[j] # u[n + 1]
  <2>1. n + 1 \in 1 .. n + 1 /\ (n + 1) - 1 = n
    OBVIOUS
  <2>2. n + 1 \in Arrived(u, h, n + 1) <=>
          Candles!InHour(h, u[n + 1]) /\ \A j \in 1 .. n : u[j] # u[n + 1]
    BY <2>1 DEF Arrived
  <2> QED BY <1>1, <2>2
<1>5. /\ Arrived(u, h, n + 1) \subseteq 1 .. n + 1 /\ Arrived(u, h, n) \subseteq 1 .. n
      /\ 1 .. n + 1 = (1 .. n) \cup {n + 1} /\ n + 1 \notin 1 .. n
  BY DEF Arrived
<1>6. CASE Candles!InHour(h, u[n + 1]) /\ \A j \in 1 .. n : s[j] # u[n + 1]
  <2>1. n + 1 \in Arrived(u, h, n + 1)
    BY <1>4, <1>6
  <2>2. Arrived(u, h, n + 1) = Arrived(s, h, n) \cup {n + 1}
    BY <1>2, <1>3, <1>5, <2>1
  <2> QED BY <1>1, <1>2, <1>5, <1>6, <2>2
<1>7. CASE ~(Candles!InHour(h, u[n + 1]) /\ \A j \in 1 .. n : s[j] # u[n + 1])
  <2>1. n + 1 \notin Arrived(u, h, n + 1)
    BY <1>4, <1>7
  <2>2. Arrived(u, h, n + 1) = Arrived(s, h, n)
    BY <1>2, <1>3, <1>5, <2>1
  <2> QED BY <1>1, <1>2, <1>5, <1>7, <2>2
<1> QED BY <1>6, <1>7

(* A candle of numbers, and one that one more arrival extends.               *)
LEMMA CandlesAreRecords ==
  ASSUME NEW s \in Streamed, NEW A \in SUBSET (1 .. Len(s)), NEW c, OfArrivals(s, A, c)
  PROVE  c \in CandleRecords /\ c # NoCandle
<1>1. PICK f, l, hi, lo \in A :
        c = [open |-> s[f].price, high |-> s[hi].price, low |-> s[lo].price, close |-> s[l].price,
             first |-> OrderOf(s, f), last |-> OrderOf(s, l), count |-> Cardinality(A)]
  BY DEF OfArrivals
<1>2. Cardinality(A) \in Nat
  <2>1. Len(s) \in Nat
    BY DEF Streamed
  <2>2. IsFiniteSet(1 .. Len(s))
    BY <2>1, FS_Interval
  <2> QED BY <2>2, FS_Subset, FS_CardinalityType
<1>3. \A i \in A : s[i].price \in Int /\ OrderOf(s, i) \in Int \X Nat
  BY TradesAreNumbers, OrderIsTotal
<1>4. c \in CandleRecords
  BY <1>1, <1>2, <1>3 DEF CandleRecords
<1>5. NoCandle \notin CandleRecords
  BY CandleAssumption DEF CandleRecords
<1> QED BY <1>4, <1>5

LEMMA OpenedCandle ==
  ASSUME NEW s \in Streamed, NEW i \in 1 .. Len(s)
  PROVE  OfArrivals(s, {i}, Candles!OpenCandle(s[i], i - 1))
<1>1. Cardinality({i}) = 1 /\ s[i].price \in Int
  BY FS_Singleton, TradesAreNumbers
<1>2. Candles!OpenCandle(s[i], i - 1) =
        [open |-> s[i].price, high |-> s[i].price, low |-> s[i].price, close |-> s[i].price,
         first |-> OrderOf(s, i), last |-> OrderOf(s, i), count |-> 1]
  BY DEF Candles!OpenCandle, OrderOf
<1> QED BY <1>1, <1>2 DEF OfArrivals

LEMMA ExtendedCandle ==
  ASSUME NEW s \in Streamed, NEW i \in 1 .. Len(s), NEW A \in SUBSET (1 .. i - 1), NEW c,
         OfArrivals(s, A, c)
  PROVE  OfArrivals(s, A \cup {i}, Candles!Extend(c, s[i], i - 1))
<1>1. PICK f, l, hi, lo \in A :
        /\ \A j \in A \ {f} : Candles!Earlier(OrderOf(s, f), OrderOf(s, j))
        /\ \A j \in A \ {l} : Candles!Earlier(OrderOf(s, j), OrderOf(s, l))
        /\ \A j \in A : s[j].price =< s[hi].price /\ s[lo].price =< s[j].price
        /\ c = [open |-> s[f].price, high |-> s[hi].price, low |-> s[lo].price, close |-> s[l].price,
                first |-> OrderOf(s, f), last |-> OrderOf(s, l), count |-> Cardinality(A)]
  BY DEF OfArrivals
<1>2. Len(s) \in Nat /\ A \subseteq 1 .. Len(s) /\ i \notin A /\ \A j \in A : j < i
  BY DEF Streamed
<1> DEFINE opens == Candles!Earlier(OrderOf(s, i), OrderOf(s, f))
           closes == Candles!Earlier(OrderOf(s, l), OrderOf(s, i))
<1>3. /\ c.open = s[f].price /\ c.high = s[hi].price /\ c.low = s[lo].price /\ c.close = s[l].price
      /\ c.first = OrderOf(s, f) /\ c.last = OrderOf(s, l) /\ c.count = Cardinality(A)
  BY <1>1
<1>4. Candles!Extend(c, s[i], i - 1) =
        [open |-> IF opens THEN s[i].price ELSE s[f].price,
         high |-> IF s[i].price > s[hi].price THEN s[i].price ELSE s[hi].price,
         low |-> IF s[i].price < s[lo].price THEN s[i].price ELSE s[lo].price,
         close |-> IF closes THEN s[i].price ELSE s[l].price,
         first |-> IF opens THEN OrderOf(s, i) ELSE OrderOf(s, f),
         last |-> IF closes THEN OrderOf(s, i) ELSE OrderOf(s, l),
         count |-> Cardinality(A) + 1]
  BY <1>3 DEF Candles!Extend, OrderOf
<1>5. Cardinality(A \cup {i}) = Cardinality(A) + 1
  <2>1. IsFiniteSet(1 .. Len(s))
    BY <1>2, FS_Interval
  <2>2. IsFiniteSet(A)
    BY <1>2, <2>1, FS_Subset
  <2> QED BY <1>2, <2>2, FS_AddElement
<1>6. ASSUME NEW j \in A \cup {i}, NEW k \in A \cup {i}
      PROVE  /\ Candles!Earlier(OrderOf(s, j), OrderOf(s, k)) <=>
                  s[j].time < s[k].time \/ (s[j].time = s[k].time /\ j < k)
             /\ s[j].time \in Int /\ s[j].price \in Int /\ j \in Int
  <2>1. j \in 1 .. Len(s) /\ k \in 1 .. Len(s)
    BY <1>2
  <2> QED BY <2>1, OrderIsTotal, TradesAreNumbers
<1>7. PICK f2 \in A \cup {i} : f2 = IF opens THEN i ELSE f
  OBVIOUS
<1>8. PICK l2 \in A \cup {i} : l2 = IF closes THEN i ELSE l
  OBVIOUS
<1>9. PICK h2 \in A \cup {i} : h2 = IF s[i].price > s[hi].price THEN i ELSE hi
  OBVIOUS
<1>10. PICK o2 \in A \cup {i} : o2 = IF s[i].price < s[lo].price THEN i ELSE lo
  OBVIOUS
<1>11. ASSUME NEW j \in (A \cup {i}) \ {f2}
       PROVE  Candles!Earlier(OrderOf(s, f2), OrderOf(s, j))
  <2>1. j \in A /\ j # f => Candles!Earlier(OrderOf(s, f), OrderOf(s, j))
    BY <1>1
  <2>2. i > f /\ (j \in A => j < i)
    BY <1>2
  <2>3. CASE opens
    <3>1. f2 = i /\ j \in A
      BY <1>7, <2>3
    <3>2. s[i].time < s[f].time
      BY <1>6, <2>2, <2>3
    <3>3. s[f].time =< s[j].time
      <4>1. CASE j = f
        BY <1>6, <4>1
      <4>2. CASE j # f
        <5>1. s[f].time < s[j].time \/ (s[f].time = s[j].time /\ f < j)
          BY <1>6, <2>1, <3>1, <4>2
        <5> QED BY <1>6, <5>1
      <4> QED BY <4>1, <4>2
    <3>4. s[i].time < s[j].time
      BY <1>6, <3>1, <3>2, <3>3
    <3> QED BY <1>6, <3>1, <3>4
  <2>4. CASE ~opens
    <3>1. f2 = f
      BY <1>7, <2>4
    <3>2. CASE j = i
      <4>1. ~(s[i].time < s[f].time) /\ s[i].time \in Int /\ s[f].time \in Int
        BY <1>6, <2>4
      <4>2. s[f].time < s[i].time \/ (s[f].time = s[i].time /\ f < i)
        BY <1>6, <2>2, <4>1
      <4> QED BY <1>6, <3>1, <3>2, <4>2
    <3>3. CASE j # i
      BY <2>1, <3>1, <3>3
    <3> QED BY <3>2, <3>3
  <2> HIDE DEF opens
  <2> QED BY <2>3, <2>4
<1>12. ASSUME NEW j \in (A \cup {i}) \ {l2}
       PROVE  Candles!Earlier(OrderOf(s, j), OrderOf(s, l2))
  <2>1. j \in A /\ j # l => Candles!Earlier(OrderOf(s, j), OrderOf(s, l))
    BY <1>1
  <2>2. i > l /\ (j \in A => j < i)
    BY <1>2
  <2>3. CASE closes
    <3>1. l2 = i /\ j \in A
      BY <1>8, <2>3
    <3>2. s[l].time =< s[i].time
      BY <1>6, <2>3
    <3>3. s[j].time =< s[l].time
      <4>1. CASE j = l
        BY <1>6, <4>1
      <4>2. CASE j # l
        <5>1. s[j].time < s[l].time \/ (s[j].time = s[l].time /\ j < l)
          BY <1>6, <2>1, <3>1, <4>2
        <5> QED BY <1>6, <5>1
      <4> QED BY <4>1, <4>2
    <3>4. s[j].time < s[i].time \/ (s[j].time = s[i].time /\ j < i)
      BY <1>6, <2>2, <3>1, <3>2, <3>3
    <3> QED BY <1>6, <3>1, <3>4
  <2>4. CASE ~closes
    <3>1. l2 = l
      BY <1>8, <2>4
    <3>2. CASE j = i
      <4>1. /\ ~(s[l].time < s[i].time) /\ ~(s[l].time = s[i].time /\ l < i)
            /\ s[i].time \in Int /\ s[l].time \in Int
        BY <1>6, <2>4
      <4>2. s[i].time < s[l].time
        BY <1>6, <2>2, <4>1
      <4> QED BY <1>6, <3>1, <3>2, <4>2
    <3>3. CASE j # i
      BY <2>1, <3>1, <3>3
    <3> QED BY <3>2, <3>3
  <2> HIDE DEF closes
  <2> QED BY <2>3, <2>4
<1>13. \A j \in A \cup {i} : s[j].price =< s[h2].price /\ s[o2].price =< s[j].price
  <2>1. \A j \in A \cup {i} : s[j].price \in Int
    BY <1>6
  <2>2. \A j \in A : s[j].price =< s[hi].price /\ s[lo].price =< s[j].price
    BY <1>1
  <2>3. s[h2].price >= s[hi].price /\ s[h2].price >= s[i].price
    BY <1>9, <2>1
  <2>4. s[o2].price =< s[lo].price /\ s[o2].price =< s[i].price
    BY <1>10, <2>1
  <2> TAKE j \in A \cup {i}
  <2>5. /\ s[hi].price \in Int /\ s[lo].price \in Int /\ s[h2].price \in Int
        /\ s[o2].price \in Int /\ s[j].price \in Int
    BY <2>1
  <2>6. CASE j = i
    BY <2>3, <2>4, <2>6
  <2>7. CASE j \in A
    <3>1. s[j].price =< s[hi].price /\ s[lo].price =< s[j].price
      BY <2>2, <2>7
    <3>2. \A x, y, z \in Int : x =< y /\ y =< z => x =< z
      OBVIOUS
    <3> QED BY <2>3, <2>4, <2>5, <3>1, <3>2
  <2> QED BY <2>6, <2>7
<1>14. Candles!Extend(c, s[i], i - 1) =
         [open |-> s[f2].price, high |-> s[h2].price, low |-> s[o2].price, close |-> s[l2].price,
          first |-> OrderOf(s, f2), last |-> OrderOf(s, l2), count |-> Cardinality(A \cup {i})]
  <2> HIDE DEF opens, closes
  <2> QED BY <1>4, <1>5, <1>7, <1>8, <1>9, <1>10
<1> QED BY <1>11, <1>12, <1>13, <1>14 DEF OfArrivals

(* What an hour that reads has seen, and the buckets one more record leaves. *)
LEMMA SeenTrades ==
  ASSUME NEW s, NEW h, NEW a, OpenHour(s, h, a), NEW t
  PROVE  t \in a.seen <=> Candles!InHour(h, t) /\ \E j \in 1 .. Len(s) : s[j] = t
BY DEF OpenHour

LEMMA BucketsGoOn ==
  ASSUME NEW s \in Streamed, NEW u \in Streamed, Begins(s, u), Len(u) = Len(s) + 1, NEW h, NEW b, NEW c,
         IsCandle(s, h, b, Len(s), c),
         ~(/\ Candles!InHour(h, u[Len(u)]) /\ \A j \in 1 .. Len(s) : s[j] # u[Len(u)]
           /\ Candles!Bucket(h, u[Len(u)]) = b)
  PROVE  IsCandle(u, h, b, Len(u), c)
<1>1. PICK n \in Nat : n = Len(s)
  BY DEF Streamed
<1>2. IsCandle(u, h, b, n, c)
  <2>1. n =< Len(s) /\ IsCandle(s, h, b, n, c)
    BY <1>1
  <2> QED BY <2>1, CandlesStay
<1>3. Arrived(u, h, n) = Arrived(s, h, n)
  <2>1. n =< Len(s)
    BY <1>1
  <2> QED BY <2>1, EarlierArrivalsStay
<1>4. ArrivedIn(u, h, b, Len(u)) = ArrivedIn(u, h, b, n)
  <2>1. CASE Candles!InHour(h, u[Len(u)]) /\ \A j \in 1 .. Len(s) : s[j] # u[Len(u)]
    <3>1. Arrived(u, h, Len(u)) = Arrived(u, h, n) \cup {Len(u)}
      BY <1>1, <1>3, <2>1, NextArrival
    <3>2. Candles!Bucket(h, u[Len(u)]) # b
      BY <2>1
    <3> QED BY <3>1, <3>2 DEF ArrivedIn
  <2>2. CASE ~(Candles!InHour(h, u[Len(u)]) /\ \A j \in 1 .. Len(s) : s[j] # u[Len(u)])
    <3>1. Arrived(u, h, Len(u)) = Arrived(u, h, n)
      BY <1>1, <1>3, <2>2, NextArrival
    <3> QED BY <3>1 DEF ArrivedIn
  <2> QED BY <2>1, <2>2
<1> QED BY <1>2, <1>4 DEF IsCandle

(* The candle that accepts a record.                                         *)
LEMMA BucketAccepts ==
  ASSUME NEW s \in Streamed, NEW u \in Streamed, Begins(s, u), Len(u) = Len(s) + 1, NEW h, NEW b, NEW c,
         IsCandle(s, h, b, Len(s), c), Candles!InHour(h, u[Len(u)]),
         \A j \in 1 .. Len(s) : s[j] # u[Len(u)], Candles!Bucket(h, u[Len(u)]) = b
  PROVE  IsCandle(u, h, b, Len(u),
                  IF c = NoCandle THEN Candles!OpenCandle(u[Len(u)], Len(s))
                  ELSE Candles!Extend(c, u[Len(u)], Len(s)))
<1>1. PICK n \in Nat : n = Len(s) /\ Len(u) = n + 1
  BY DEF Streamed
<1>2. PICK A : A = ArrivedIn(u, h, b, n)
  OBVIOUS
<1>3. Arrived(u, h, n) = Arrived(s, h, n) /\ Arrived(s, h, n) \subseteq 1 .. n
  <2>1. n =< Len(s)
    BY <1>1
  <2> QED BY <2>1, EarlierArrivalsStay
<1>4. A \subseteq 1 .. n
  BY <1>2, <1>3 DEF ArrivedIn
<1>5. ArrivedIn(u, h, b, Len(u)) = A \cup {Len(u)}
  <2>1. Arrived(u, h, Len(u)) = Arrived(u, h, n) \cup {Len(u)}
    BY <1>1, <1>3, NextArrival
  <2> QED BY <1>2, <2>1 DEF ArrivedIn
<1>6. IsCandle(u, h, b, n, c)
  <2>1. n =< Len(s) /\ IsCandle(s, h, b, n, c)
    BY <1>1
  <2> QED BY <2>1, CandlesStay
<1>7. n + 1 \in 1 .. Len(u) /\ (n + 1) - 1 = n
  BY <1>1
<1>8. CASE A = {}
  <2>1. c = NoCandle /\ A \cup {Len(u)} = {n + 1}
    BY <1>1, <1>2, <1>6, <1>8 DEF IsCandle
  <2>2. OfArrivals(u, {n + 1}, Candles!OpenCandle(u[n + 1], (n + 1) - 1))
    BY <1>7, OpenedCandle
  <2>3. OfArrivals(u, ArrivedIn(u, h, b, Len(u)), Candles!OpenCandle(u[Len(u)], Len(s)))
    BY <1>1, <1>5, <1>7, <2>1, <2>2
  <2>4. ArrivedIn(u, h, b, Len(u)) # {}
    BY <1>5
  <2> QED BY <2>1, <2>3, <2>4 DEF IsCandle
<1>9. CASE A # {}
  <2>1. OfArrivals(u, A, c)
    BY <1>2, <1>6, <1>9 DEF IsCandle
  <2>2. c # NoCandle
    <3>1. A \in SUBSET (1 .. Len(u))
      BY <1>1, <1>4
    <3> QED BY <2>1, <3>1, CandlesAreRecords
  <2>3. A \in SUBSET (1 .. (n + 1) - 1)
    BY <1>4, <1>7
  <2>4. OfArrivals(u, A \cup {n + 1}, Candles!Extend(c, u[n + 1], (n + 1) - 1))
    BY <1>7, <2>1, <2>3, ExtendedCandle
  <2>5. OfArrivals(u, ArrivedIn(u, h, b, Len(u)), Candles!Extend(c, u[Len(u)], Len(s)))
    BY <1>1, <1>5, <1>7, <2>4
  <2>6. ArrivedIn(u, h, b, Len(u)) # {}
    BY <1>5
  <2> QED BY <2>2, <2>5, <2>6 DEF IsCandle
<1> QED BY <1>8, <1>9

(* What the accumulator of an hour makes of one record more.                 *)
LEMMA FixedHours ==
  ASSUME NEW s \in Streamed, NEW u \in Streamed, Begins(s, u), NEW h, NEW a, HourIsTrue(s, h, a),
         a.state # "open"
  PROVE  HourIsTrue(u, h, a)
<1>1. Len(s) \in Nat /\ Len(u) \in Nat /\ Len(s) =< Len(u) /\ \A i \in 1 .. Len(s) : u[i] = s[i]
  BY DEF Streamed, Begins
<1>2. a.state = "failed" => HourIsTrue(u, h, a)
  <2> SUFFICES ASSUME a.state = "failed" PROVE HourIsTrue(u, h, a)
    OBVIOUS
  <2>1. PICK i, j \in 1 .. Len(s) :
          Candles!InHour(h, s[i]) /\ Candles!InHour(h, s[j]) /\ s[i].id = s[j].id /\ s[i] # s[j]
    BY DEF HourIsTrue
  <2>2. i \in 1 .. Len(u) /\ j \in 1 .. Len(u) /\ u[i] = s[i] /\ u[j] = s[j]
    BY <1>1
  <2>3. Candles!InHour(h, u[i]) /\ Candles!InHour(h, u[j]) /\ u[i].id = u[j].id /\ u[i] # u[j]
    BY <2>1, <2>2
  <2> QED BY <2>2, <2>3 DEF HourIsTrue
<1>3. a.state = "finished" => HourIsTrue(u, h, a)
  <2> SUFFICES ASSUME a.state = "finished" PROVE HourIsTrue(u, h, a)
    OBVIOUS
  <2>1. PICK n \in 0 .. Len(s) : \A b \in Candles!Buckets : IsCandle(s, h, b, n, a.block.observations[b])
    BY DEF HourIsTrue
  <2>2. n \in Nat /\ n =< Len(s) /\ n \in 0 .. Len(u)
    BY <1>1
  <2>3. \A b \in Candles!Buckets : IsCandle(u, h, b, n, a.block.observations[b])
    BY <2>1, <2>2, CandlesStay
  <2> QED BY <2>2, <2>3 DEF HourIsTrue
<1> QED BY <1>2, <1>3 DEF HourIsTrue

LEMMA Accepted ==
  ASSUME NEW a, IsHour(a), NEW known, NEW candles, NEW more, NEW q,
         q = [a EXCEPT !.seen = known, !.candles = candles, !.accepted = more]
  PROVE  q = [seen |-> known, candles |-> candles, accepted |-> more, duplicates |-> a.duplicates,
              outside |-> a.outside, state |-> a.state, block |-> a.block]
<1>1. PICK b : b = [a EXCEPT !.seen = known]
  OBVIOUS
<1>2. PICK c : c = [b EXCEPT !.candles = candles]
  OBVIOUS
<1>3. q = [c EXCEPT !.accepted = more]
  BY <1>1, <1>2
<1>4. b = [seen |-> known, candles |-> a.candles, accepted |-> a.accepted, duplicates |-> a.duplicates,
           outside |-> a.outside, state |-> a.state, block |-> a.block]
  BY <1>1 DEF IsHour
<1>5. c = [seen |-> known, candles |-> candles, accepted |-> a.accepted, duplicates |-> a.duplicates,
           outside |-> a.outside, state |-> a.state, block |-> a.block]
  BY <1>2, <1>4
<1> QED BY <1>3, <1>5

LEMMA ConsumedHour ==
  ASSUME NEW s \in Streamed, NEW u \in Streamed, Begins(s, u), Len(u) = Len(s) + 1, NEW h \in TradeHours,
         NEW a, HourIsTrue(s, h, a)
  PROVE  HourIsTrue(u, h, Candles!Consume(h, a, u[Len(u)], Len(s)))
<1>1. PICK n \in Nat : n = Len(s) /\ Len(u) = n + 1 /\ \A i \in 1 .. n : u[i] = s[i]
  BY DEF Streamed, Begins
<1>2. PICK t \in TradeRecords : t = u[n + 1]
  <2>1. n + 1 \in 1 .. Len(u)
    BY <1>1
  <2> QED BY <2>1 DEF Streamed
<1>3. CASE a.state # "open"
  <2>1. Candles!Consume(h, a, u[Len(u)], Len(s)) = a
    BY <1>3 DEF Candles!Consume
  <2> QED BY <1>3, <2>1, FixedHours
<1>4. CASE a.state = "open"
  <2>1. OpenHour(s, h, a) /\ IsHour(a)
    BY <1>4 DEF HourIsTrue
  <2>2. /\ a.candles = [b \in Candles!Buckets |-> a.candles[b]]
        /\ \A b \in Candles!Buckets : IsCandle(s, h, b, n, a.candles[b])
        /\ a.accepted = Cardinality(Arrived(s, h, n))
        /\ a.accepted \in Nat /\ a.duplicates \in Nat /\ a.outside \in Nat
        /\ a.accepted + a.duplicates + a.outside = n
    BY <1>1, <2>1 DEF OpenHour
  <2>3. a = [seen |-> a.seen, candles |-> a.candles, accepted |-> a.accepted,
             duplicates |-> a.duplicates, outside |-> a.outside, state |-> "open", block |-> a.block]
    BY <1>4, <2>1 DEF IsHour
  <2>4. \A x : x \in a.seen <=> Candles!InHour(h, x) /\ \E j \in 1 .. n : s[j] = x
    BY <1>1, <2>1, SeenTrades
  <2>5. \A x : (\E j \in 1 .. n + 1 : u[j] = x) <=> (\E j \in 1 .. n : s[j] = x) \/ x = t
    <3>1. \A j : j \in 1 .. n + 1 <=> j \in 1 .. n \/ j = n + 1
      OBVIOUS
    <3> QED BY <1>1, <1>2, <3>1
  <2>6. PICK grown : grown = {u[i] : i \in {i \in 1 .. Len(u) : Candles!InHour(h, u[i])}}
    OBVIOUS
  <2>7. \A x : x \in grown <=> Candles!InHour(h, x) /\ \E j \in 1 .. n + 1 : u[j] = x
    BY <1>1, <2>6
  <2>8. PICK counted : counted = Arrived(u, h, Len(u))
    OBVIOUS
  <2>9. CASE ~Candles!InHour(h, t)
    <3>1. PICK q : q = [a EXCEPT !.outside = @ + 1]
      OBVIOUS
    <3>2. q = [seen |-> a.seen, candles |-> a.candles, accepted |-> a.accepted,
               duplicates |-> a.duplicates, outside |-> a.outside + 1, state |-> "open", block |-> a.block]
      BY <2>3, <3>1
    <3>3. grown = a.seen
      BY <2>4, <2>5, <2>7, <2>9
    <3>4. counted = Arrived(s, h, n)
      BY <1>1, <1>2, <2>8, <2>9, NextArrival
    <3>5. \A b \in Candles!Buckets : IsCandle(u, h, b, Len(u), a.candles[b])
      BY <1>1, <1>2, <2>2, <2>9, BucketsGoOn
    <3>6. /\ q.seen = a.seen /\ q.candles = a.candles /\ q.accepted = a.accepted /\ q.state = "open"
          /\ q.duplicates = a.duplicates /\ q.outside = a.outside + 1 /\ IsHour(q)
      BY <3>2 DEF IsHour
    <3>7. q.accepted + q.duplicates + q.outside = n + 1 /\ q.outside \in Nat
      BY <2>2, <3>6
    <3>8. OpenHour(u, h, q)
      BY <1>1, <2>2, <2>6, <2>8, <3>3, <3>4, <3>5, <3>6, <3>7 DEF OpenHour
    <3>9. HourIsTrue(u, h, q)
      BY <3>6, <3>8 DEF HourIsTrue
    <3> QED BY <1>1, <1>2, <1>4, <2>9, <3>1, <3>9 DEF Candles!Consume
  <2>10. CASE Candles!InHour(h, t) /\ Candles!Conflicts(a, t)
    <3>1. PICK q : q = [a EXCEPT !.state = "failed"]
      OBVIOUS
    <3>2. q = [seen |-> a.seen, candles |-> a.candles, accepted |-> a.accepted,
               duplicates |-> a.duplicates, outside |-> a.outside, state |-> "failed", block |-> a.block]
      BY <2>3, <3>1
    <3>3. q.state = "failed" /\ IsHour(q)
      BY <3>2 DEF IsHour
    <3>4. PICK x \in a.seen : x.id = t.id /\ x # t
      BY <2>10 DEF Candles!Conflicts
    <3>5. PICK i \in 1 .. n : s[i] = x
      BY <2>4
    <3>6. Candles!InHour(h, x)
      BY <2>4
    <3>7. i \in 1 .. Len(u) /\ n + 1 \in 1 .. Len(u) /\ u[i] = x
      BY <1>1, <3>5
    <3>8. \E k, j \in 1 .. Len(u) :
            Candles!InHour(h, u[k]) /\ Candles!InHour(h, u[j]) /\ u[k].id = u[j].id /\ u[k] # u[j]
      BY <1>2, <2>10, <3>4, <3>6, <3>7
    <3>9. HourIsTrue(u, h, q)
      BY <3>3, <3>8 DEF HourIsTrue
    <3> QED BY <1>1, <1>2, <1>4, <2>10, <3>1, <3>9 DEF Candles!Consume
  <2>11. CASE Candles!InHour(h, t) /\ ~Candles!Conflicts(a, t) /\ t \in a.seen
    <3>1. PICK q : q = [a EXCEPT !.duplicates = @ + 1]
      OBVIOUS
    <3>2. q = [seen |-> a.seen, candles |-> a.candles, accepted |-> a.accepted,
               duplicates |-> a.duplicates + 1, outside |-> a.outside, state |-> "open", block |-> a.block]
      BY <2>3, <3>1
    <3>3. \E j \in 1 .. n : s[j] = t
      BY <2>4, <2>11
    <3>4. grown = a.seen
      BY <2>4, <2>5, <2>7, <3>3
    <3>5. ~(Candles!InHour(h, u[Len(u)]) /\ \A j \in 1 .. Len(s) : s[j] # u[Len(u)])
      BY <1>1, <1>2, <3>3
    <3>6. counted = Arrived(s, h, n)
      BY <1>1, <2>8, <3>5, NextArrival
    <3>7. \A b \in Candles!Buckets : IsCandle(u, h, b, Len(u), a.candles[b])
      BY <1>1, <2>2, <3>5, BucketsGoOn
    <3>8. /\ q.seen = a.seen /\ q.candles = a.candles /\ q.accepted = a.accepted /\ q.state = "open"
          /\ q.duplicates = a.duplicates + 1 /\ q.outside = a.outside /\ IsHour(q)
      BY <3>2 DEF IsHour
    <3>9. q.accepted + q.duplicates + q.outside = n + 1 /\ q.duplicates \in Nat
      BY <2>2, <3>8
    <3>10. OpenHour(u, h, q)
      BY <1>1, <2>2, <2>6, <2>8, <3>4, <3>6, <3>7, <3>8, <3>9 DEF OpenHour
    <3>11. HourIsTrue(u, h, q)
      BY <3>8, <3>10 DEF HourIsTrue
    <3> QED BY <1>1, <1>2, <1>4, <2>11, <3>1, <3>11 DEF Candles!Consume
  <2>12. CASE Candles!InHour(h, t) /\ ~Candles!Conflicts(a, t) /\ t \notin a.seen
    <3>1. PICK b0 \in Candles!Buckets : b0 = Candles!Bucket(h, t)
      BY <2>12, BucketsOfHours
    <3>2. PICK c : c = IF a.candles[b0] = NoCandle THEN Candles!OpenCandle(t, n)
                       ELSE Candles!Extend(a.candles[b0], t, n)
      OBVIOUS
    <3>3. PICK candles : candles = [a.candles EXCEPT ![b0] = c]
      OBVIOUS
    <3>16. PICK known, more : known = a.seen \cup {t} /\ more = a.accepted + 1
      OBVIOUS
    <3>4. PICK q : q = [a EXCEPT !.seen = known, !.candles = candles, !.accepted = more]
      OBVIOUS
    <3>5. Candles!Accept(h, a, t, n) = q
      <4>1. Candles!Accept(h, a, t, n) =
              [a EXCEPT !.seen = @ \cup {t}, !.candles = [a.candles EXCEPT ![b0] = c], !.accepted = @ + 1]
        BY <2>3, <3>1, <3>2 DEF Candles!Accept
      <4> QED BY <3>3, <3>4, <3>16, <4>1
    <3>6. q = [seen |-> a.seen \cup {t}, candles |-> candles, accepted |-> a.accepted + 1,
               duplicates |-> a.duplicates, outside |-> a.outside, state |-> "open", block |-> a.block]
      <4>1. q = [seen |-> known, candles |-> candles, accepted |-> more, duplicates |-> a.duplicates,
                 outside |-> a.outside, state |-> a.state, block |-> a.block]
        <5>1. IsHour(a)
          BY <2>1
        <5> QED BY <3>4, <5>1, Accepted, ZenonT(60)
      <4> QED BY <1>4, <3>16, <4>1
    <3>7. /\ q.seen = a.seen \cup {t} /\ q.candles = candles /\ q.accepted = a.accepted + 1
          /\ q.duplicates = a.duplicates /\ q.outside = a.outside /\ q.state = "open" /\ IsHour(q)
      BY <3>6 DEF IsHour
    <3>8. /\ candles = [b \in Candles!Buckets |-> candles[b]] /\ candles[b0] = c
          /\ \A b \in Candles!Buckets : b # b0 => candles[b] = a.candles[b]
      BY <2>2, <3>3
    <3>9. \A j \in 1 .. n : s[j] # t
      BY <2>4, <2>12
    <3>10. grown = a.seen \cup {t}
      BY <2>4, <2>5, <2>7, <2>12
    <3>11. ASSUME NEW b \in Candles!Buckets PROVE IsCandle(u, h, b, Len(u), candles[b])
      <4>1. IsCandle(s, h, b, Len(s), a.candles[b])
        BY <1>1, <2>2
      <4>2. CASE b = b0
        <5>1. /\ Candles!InHour(h, u[Len(u)]) /\ Candles!Bucket(h, u[Len(u)]) = b
              /\ \A j \in 1 .. Len(s) : s[j] # u[Len(u)]
          BY <1>1, <1>2, <2>12, <3>1, <3>9, <4>2
        <5>2. PICK d : d = IF a.candles[b] = NoCandle THEN Candles!OpenCandle(u[Len(u)], Len(s))
                           ELSE Candles!Extend(a.candles[b], u[Len(u)], Len(s))
          OBVIOUS
        <5>3. IsCandle(u, h, b, Len(u), d)
          BY <4>1, <5>1, <5>2, BucketAccepts
        <5>4. d = c
          BY <1>1, <1>2, <3>2, <4>2, <5>2
        <5> QED BY <3>8, <4>2, <5>3, <5>4
      <4>3. CASE b # b0
        <5>1. Candles!Bucket(h, u[Len(u)]) # b
          BY <1>1, <1>2, <3>1, <4>3
        <5>2. IsCandle(u, h, b, Len(u), a.candles[b])
          BY <4>1, <5>1, BucketsGoOn
        <5> QED BY <3>8, <4>3, <5>2
      <4> QED BY <4>2, <4>3
    <3>12. q.accepted = Cardinality(counted)
      <4>1. counted = Arrived(s, h, n) \cup {n + 1} /\ n + 1 \notin Arrived(s, h, n)
        BY <1>1, <1>2, <2>8, <2>12, <3>9, NextArrival
      <4>2. IsFiniteSet(Arrived(s, h, n))
        BY ArrivalsAreFinite
      <4>3. Cardinality(Arrived(s, h, n) \cup {n + 1}) = Cardinality(Arrived(s, h, n)) + 1
        BY <4>1, <4>2, FS_AddElement
      <4> QED BY <2>2, <3>7, <4>1, <4>3
    <3>13. q.accepted + q.duplicates + q.outside = n + 1 /\ q.accepted \in Nat
      BY <2>2, <3>7
    <3>14. OpenHour(u, h, q)
      BY <1>1, <2>2, <2>6, <2>8, <3>7, <3>8, <3>10, <3>11, <3>12, <3>13 DEF OpenHour
    <3>15. HourIsTrue(u, h, q)
      BY <3>7, <3>14 DEF HourIsTrue
    <3> QED BY <1>1, <1>2, <1>4, <2>12, <3>5, <3>15 DEF Candles!Consume
  <2> QED BY <2>9, <2>10, <2>11, <2>12
<1> QED BY <1>3, <1>4

(* What a finished hour is checked for.                                      *)
LEMMA TradedBuckets ==
  ASSUME NEW s \in Streamed, NEW h \in TradeHours, NEW a, OpenHour(s, h, a)
  PROVE  /\ Candles!Traded(a) \subseteq Candles!Buckets
         /\ \A b \in Candles!Buckets : b \in Candles!Traded(a) <=> ArrivedIn(s, h, b, Len(s)) # {}
         /\ \A b \in Candles!Traded(a) : a.candles[b].count = Cardinality(ArrivedIn(s, h, b, Len(s)))
<1>1. Candles!Traded(a) \subseteq Candles!Buckets
  BY DEF Candles!Traded
<1>2. ASSUME NEW b \in Candles!Buckets
      PROVE  /\ b \in Candles!Traded(a) <=> ArrivedIn(s, h, b, Len(s)) # {}
             /\ b \in Candles!Traded(a) => a.candles[b].count = Cardinality(ArrivedIn(s, h, b, Len(s)))
  <2>1. IsCandle(s, h, b, Len(s), a.candles[b])
    BY DEF OpenHour
  <2>2. PICK A : A = ArrivedIn(s, h, b, Len(s))
    OBVIOUS
  <2>3. b \in Candles!Traded(a) <=> a.candles[b] # NoCandle
    BY DEF Candles!Traded
  <2>4. CASE A = {}
    <3>1. a.candles[b] = NoCandle
      BY <2>1, <2>2, <2>4 DEF IsCandle
    <3> QED BY <2>2, <2>3, <2>4, <3>1
  <2>5. CASE A # {}
    <3>1. OfArrivals(s, A, a.candles[b])
      BY <2>1, <2>2, <2>5 DEF IsCandle
    <3>2. A \in SUBSET (1 .. Len(s))
      BY <2>2 DEF ArrivedIn, Arrived
    <3>3. a.candles[b] # NoCandle
      BY <3>1, <3>2, CandlesAreRecords
    <3>4. a.candles[b].count = Cardinality(A)
      BY <3>1 DEF OfArrivals
    <3> QED BY <2>2, <2>3, <2>5, <3>3, <3>4
  <2> QED BY <2>4, <2>5
<1> QED BY <1>1, <1>2

(* The arrivals of some buckets; a sum over the buckets counts them.         *)
Part(s, h, S) == {i \in Arrived(s, h, Len(s)) : Candles!Bucket(h, s[i]) \in S}

LEMMA PartsAreCounted ==
  ASSUME NEW s \in Streamed, NEW h, NEW S
  PROVE  /\ Cardinality(Part(s, h, S)) \in Nat
         /\ S = {} => Cardinality(Part(s, h, S)) = 0
         /\ \A b \in S : Cardinality(Part(s, h, S)) =
                           Cardinality(ArrivedIn(s, h, b, Len(s))) + Cardinality(Part(s, h, S \ {b}))
<1>1. Len(s) \in Nat
  BY DEF Streamed
<1>2. \A R : /\ Part(s, h, R) \in SUBSET Arrived(s, h, Len(s))
            /\ IsFiniteSet(Part(s, h, R)) /\ Cardinality(Part(s, h, R)) \in Nat
  <2>1. \A R : Part(s, h, R) \in SUBSET Arrived(s, h, Len(s))
    BY DEF Part
  <2> QED BY <1>1, <2>1, ArrivalsAreFinite
<1>3. S = {} => Cardinality(Part(s, h, S)) = 0
  <2>1. S = {} => Part(s, h, S) = {}
    BY DEF Part
  <2> QED BY <2>1, FS_EmptySet
<1>4. ASSUME NEW b \in S
      PROVE  Cardinality(Part(s, h, S)) =
               Cardinality(ArrivedIn(s, h, b, Len(s))) + Cardinality(Part(s, h, S \ {b}))
  <2>1. PICK A : A = ArrivedIn(s, h, b, Len(s))
    OBVIOUS
  <2>2. PICK R : R = Part(s, h, S \ {b})
    OBVIOUS
  <2>3. Part(s, h, S) = A \cup R /\ A \cap R = {}
    BY <2>1, <2>2 DEF Part, ArrivedIn
  <2>4. IsFiniteSet(A) /\ Cardinality(A) \in Nat
    <3>1. A \in SUBSET Arrived(s, h, Len(s))
      BY <2>1 DEF ArrivedIn
    <3> QED BY <1>1, <3>1, ArrivalsAreFinite
  <2>5. IsFiniteSet(R) /\ Cardinality(R) \in Nat
    BY <1>2, <2>2
  <2>6. Cardinality(A \cup R) = Cardinality(A) + Cardinality(R) - Cardinality(A \cap R)
    BY <2>4, <2>5, FS_Union
  <2>7. Cardinality(A \cap R) = 0
    BY <2>3, FS_EmptySet
  <2> QED BY <2>1, <2>2, <2>3, <2>4, <2>5, <2>6, <2>7
<1> QED BY <1>2, <1>3, <1>4

LEMMA BucketsAreFinite == IsFiniteSet(Candles!Buckets)
<1>1. TradeHourTicks \div BucketTicks \in Int
  BY CandleAssumption, Floor
<1>2. PICK last \in Int : last = (TradeHourTicks \div BucketTicks) - 1
  BY <1>1
<1>3. Candles!Buckets = 0 .. last
  BY <1>2 DEF Candles!Buckets
<1> QED BY <1>3, FS_Interval

LEMMA TotalOfCounts ==
  ASSUME NEW s \in Streamed, NEW h \in TradeHours, NEW a, OpenHour(s, h, a)
  PROVE  Candles!Total(a) = a.accepted
<1>1. PICK T : T = Candles!Traded(a)
  OBVIOUS
<1>2. T \subseteq Candles!Buckets /\ \A b \in T : a.candles[b].count = Cardinality(ArrivedIn(s, h, b, Len(s)))
  BY <1>1, TradedBuckets
<1>3. IsFiniteSet(T) /\ \A S \in SUBSET T : IsFiniteSet(S) /\ Cardinality(S) \in Nat
  BY <1>2, BucketsAreFinite, FS_Subset, FS_CardinalityType
<1> DEFINE Step(f) == [S \in SUBSET T |->
                         IF S = {} THEN 0
                         ELSE LET b == CHOOSE x \in S : TRUE IN a.candles[b].count + f[S \ {b}]]
           Sum == CHOOSE f : f = Step(f)
<1>4. Candles!Total(a) = Sum[T]
  BY <1>1 DEF Candles!Total
<1>5. PICK F : F = [S \in SUBSET T |-> Cardinality(Part(s, h, S))]
  OBVIOUS
<1>6. F = Step(F)
  <2>1. ASSUME NEW S \in SUBSET T
        PROVE  F[S] = IF S = {} THEN 0
                      ELSE LET b == CHOOSE x \in S : TRUE IN a.candles[b].count + F[S \ {b}]
    <3>1. F[S] = Cardinality(Part(s, h, S))
      BY <1>5
    <3>2. CASE S = {}
      BY <3>1, <3>2, PartsAreCounted
    <3>3. CASE S # {}
      <4>1. PICK b \in S : b = CHOOSE y \in S : TRUE
        BY <3>3
      <4>2. S \ {b} \in SUBSET T /\ b \in T
        OBVIOUS
      <4>3. F[S \ {b}] = Cardinality(Part(s, h, S \ {b}))
        BY <1>5, <4>2
      <4>4. F[S] = a.candles[b].count + F[S \ {b}]
        BY <1>2, <3>1, <4>2, <4>3, PartsAreCounted
      <4> QED BY <3>3, <4>1, <4>4
    <3> QED BY <3>2, <3>3
  <2>2. \A S \in SUBSET T : F[S] = Step(F)[S]
    BY <2>1
  <2>3. F = [S \in SUBSET T |-> F[S]]
    BY <1>5
  <2> QED BY <2>1, <2>3
<1>7. Sum = Step(Sum)
  BY <1>6
<1>8. \A S \in SUBSET T : Sum[S] = IF S = {} THEN 0
                          ELSE LET b == CHOOSE x \in S : TRUE IN a.candles[b].count + Sum[S \ {b}]
  <2> HIDE DEF Sum
  <2> QED BY <1>7
<1> HIDE DEF Sum
<1>9. \A S \in SUBSET T : F[S] = IF S = {} THEN 0
                          ELSE LET b == CHOOSE x \in S : TRUE IN a.candles[b].count + F[S \ {b}]
  BY <1>6
<1> HIDE DEF Step
<1>10. \A S \in SUBSET T : Sum[S] = F[S]
  <2> SUFFICES ASSUME NEW R \in SUBSET T, Sum[R] # F[R] PROVE FALSE
    OBVIOUS
  <2>1. PICK bad : bad = {Cardinality(S) : S \in {S \in SUBSET T : Sum[S] # F[S]}}
    OBVIOUS
  <2>2. bad \in SUBSET Nat /\ bad # {}
    BY <1>3, <2>1
  <2>3. PICK x \in bad : \A y \in bad : x =< y
    BY <2>2, Least
  <2>4. PICK S \in SUBSET T : Sum[S] # F[S] /\ Cardinality(S) = x
    BY <2>1
  <2>5. S # {}
    BY <1>8, <1>9, <2>4
  <2>6. PICK b \in S : b = CHOOSE y \in S : TRUE
    BY <2>5
  <2>7. S \ {b} \in SUBSET T
    OBVIOUS
  <2>8. Cardinality(S \ {b}) = x - 1 /\ x \in Nat
    <3>1. IsFiniteSet(S) /\ Cardinality(S) \in Nat
      BY <1>3
    <3> QED BY <2>4, <3>1, FS_RemoveElement
  <2>9. Cardinality(S \ {b}) \notin bad
    BY <2>2, <2>3, <2>8
  <2>10. Sum[S \ {b}] = F[S \ {b}]
    BY <2>1, <2>7, <2>9
  <2>11. Sum[S] = a.candles[b].count + Sum[S \ {b}] /\ F[S] = a.candles[b].count + F[S \ {b}]
    BY <1>8, <1>9, <2>5, <2>6
  <2> QED BY <2>4, <2>10, <2>11
<1>11. Part(s, h, T) = Arrived(s, h, Len(s))
  <2>1. ASSUME NEW i \in Arrived(s, h, Len(s)) PROVE Candles!Bucket(h, s[i]) \in T
    <3>1. i \in 1 .. Len(s) /\ Candles!InHour(h, s[i])
      BY DEF Arrived
    <3>2. s[i] \in TradeRecords
      BY <3>1, TradesAreNumbers
    <3>3. Candles!Bucket(h, s[i]) \in Candles!Buckets
      BY <3>1, <3>2, BucketsOfHours
    <3>4. i \in ArrivedIn(s, h, Candles!Bucket(h, s[i]), Len(s))
      BY DEF ArrivedIn
    <3> QED BY <1>1, <3>3, <3>4, TradedBuckets
  <2> QED BY <2>1 DEF Part
<1>12. F[T] = Cardinality(Arrived(s, h, Len(s)))
  <2>1. F[T] = Cardinality(Part(s, h, T))
    BY <1>5
  <2> QED BY <1>11, <2>1
<1>13. a.accepted = Cardinality(Arrived(s, h, Len(s)))
  BY DEF OpenHour
<1> QED BY <1>4, <1>10, <1>12, <1>13

LEMMA CandlesAreSound ==
  ASSUME NEW s \in Streamed, NEW h \in TradeHours, NEW b, NEW c, IsCandle(s, h, b, Len(s), c)
  PROVE  Candles!Sound(h, b, c)
<1>1. CASE ArrivedIn(s, h, b, Len(s)) = {}
  BY <1>1 DEF IsCandle, Candles!Sound
<1>2. CASE ArrivedIn(s, h, b, Len(s)) # {}
  <2>1. PICK A : A = ArrivedIn(s, h, b, Len(s)) /\ A # {}
    BY <1>2
  <2>2. A \subseteq 1 .. Len(s) /\ \A i \in A : Candles!InHour(h, s[i]) /\ Candles!Bucket(h, s[i]) = b
    BY <2>1 DEF ArrivedIn, Arrived
  <2>3. OfArrivals(s, A, c)
    BY <1>2, <2>1 DEF IsCandle
  <2>4. PICK f, l, hi, lo \in A :
          /\ \A j \in A \ {f} : Candles!Earlier(OrderOf(s, f), OrderOf(s, j))
          /\ \A j \in A : s[j].price =< s[hi].price /\ s[lo].price =< s[j].price
          /\ c = [open |-> s[f].price, high |-> s[hi].price, low |-> s[lo].price, close |-> s[l].price,
                  first |-> OrderOf(s, f), last |-> OrderOf(s, l), count |-> Cardinality(A)]
    BY <2>3 DEF OfArrivals
  <2>5. /\ c.open = s[f].price /\ c.high = s[hi].price /\ c.low = s[lo].price /\ c.close = s[l].price
        /\ c.first[1] = s[f].time /\ c.last[1] = s[l].time /\ c.count = Cardinality(A)
    BY <2>4 DEF OrderOf
  <2>6. c.count > 0
    <3>1. Len(s) \in Nat
      BY DEF Streamed
    <3>2. IsFiniteSet(A)
      <4>1. IsFiniteSet(1 .. Len(s))
        BY <3>1, FS_Interval
      <4> QED BY <2>2, <4>1, FS_Subset
    <3>3. Cardinality(A) \in Nat /\ Cardinality(A) # 0
      BY <2>1, <3>2, FS_EmptySet, FS_CardinalityType
    <3> QED BY <2>5, <3>3
  <2>7. c.low =< c.open /\ c.open =< c.high /\ c.low =< c.close /\ c.close =< c.high
    BY <2>4, <2>5
  <2>8. c.first[1] =< c.last[1]
    <3>1. s[f].time \in Int /\ s[l].time \in Int
      BY <2>2, TradesAreNumbers
    <3>2. CASE l = f
      BY <2>5, <3>1, <3>2
    <3>3. CASE l # f
      <4>1. Candles!Earlier(OrderOf(s, f), OrderOf(s, l))
        BY <2>4, <3>3
      <4>2. f \in 1 .. Len(s) /\ l \in 1 .. Len(s)
        BY <2>2
      <4>3. s[f].time =< s[l].time
        BY <3>1, <4>1, <4>2, OrderIsTotal
      <4> QED BY <2>5, <4>3
    <3> QED BY <3>2, <3>3
  <2>9. \A i \in A : /\ h * TradeHourTicks + b * BucketTicks =< s[i].time
                     /\ s[i].time < h * TradeHourTicks + (b + 1) * BucketTicks
    <3> SUFFICES ASSUME NEW i \in A
                 PROVE  /\ h * TradeHourTicks + b * BucketTicks =< s[i].time
                        /\ s[i].time < h * TradeHourTicks + (b + 1) * BucketTicks
      OBVIOUS
    <3>1. s[i] \in TradeRecords /\ Candles!InHour(h, s[i]) /\ Candles!Bucket(h, s[i]) = b
      BY <2>2, TradesAreNumbers
    <3> QED BY <3>1, BucketsOfHours
  <2>10. \A k \in {c.first[1], c.last[1]} : /\ h * TradeHourTicks + b * BucketTicks =< k
                                            /\ k < h * TradeHourTicks + (b + 1) * BucketTicks
    BY <2>5, <2>9
  <2> QED BY <2>6, <2>7, <2>8, <2>10 DEF Candles!Sound
<1> QED BY <1>1, <1>2

LEMMA HoursAreAccounted ==
  ASSUME read \in Streamed, NEW h \in TradeHours, NEW a, OpenHour(read, h, a)
  PROVE  Candles!Accounted(a, Candles!BlockOf(a))
<1>1. PICK T : T = Candles!Traded(a)
  OBVIOUS
<1>2. T \subseteq Candles!Buckets
  BY <1>1, TradedBuckets
<1>3. Cardinality(T) + Cardinality(Candles!Buckets \ T) = Cardinality(Candles!Buckets)
  <2>1. IsFiniteSet(Candles!Buckets) /\ IsFiniteSet(T) /\ IsFiniteSet(Candles!Buckets \ T)
    BY <1>2, BucketsAreFinite, FS_Subset
  <2>2. /\ Cardinality(T) \in Nat /\ Cardinality(Candles!Buckets) \in Nat
        /\ Cardinality(Candles!Buckets \ T) \in Nat
    BY <2>1, FS_CardinalityType
  <2>3. Cardinality(Candles!Buckets \ T) =
          Cardinality(Candles!Buckets) - Cardinality(Candles!Buckets \cap T)
    BY <2>1, FS_Difference
  <2>4. Candles!Buckets \cap T = T
    BY <1>2
  <2> QED BY <2>2, <2>3, <2>4
<1>4. PICK block : block = Candles!BlockOf(a)
  OBVIOUS
<1>5. /\ block.valid = Cardinality(T) /\ block.invalid = Cardinality(Candles!Buckets \ T)
      /\ block.total = Candles!Total(a)
  <2>1. /\ Candles!Cardinality(T) = Cardinality(T)
        /\ Candles!Cardinality(Candles!Buckets \ T) = Cardinality(Candles!Buckets \ T)
    BY CountedCandles
  <2> QED BY <1>1, <1>4, <2>1 DEF Candles!BlockOf
<1>6. Candles!Total(a) = a.accepted
  BY TotalOfCounts
<1>7. a.accepted + a.duplicates + a.outside = Len(read)
  BY DEF OpenHour
<1>8. Candles!Cardinality(Candles!Buckets) = Cardinality(Candles!Buckets)
  BY CountedCandles
<1> QED BY <1>3, <1>4, <1>5, <1>6, <1>7, <1>8 DEF Candles!Accounted

(* A finished hour passes every check.                                       *)
LEMMA FinishedHour ==
  ASSUME CandleInv, NEW h \in TradeHours, Candles!Finish(h)
  PROVE  CandleInv'
<1>1. PICK a : a = accumulators[h]
  OBVIOUS
<1>2. /\ read \in Streamed /\ HourIsTrue(read, h, a) /\ a.state = "open"
      /\ accumulators = [g \in TradeHours |-> accumulators[g]]
  BY <1>1 DEF CandleInv, Candles!Finish
<1>3. OpenHour(read, h, a) /\ IsHour(a)
  BY <1>2 DEF HourIsTrue
<1>4. PICK block : block = Candles!BlockOf(a)
  OBVIOUS
<1>5. Candles!Accounted(a, block)
  BY <1>2, <1>3, <1>4, HoursAreAccounted
<1>6. block.observations = a.candles
  BY <1>4 DEF Candles!BlockOf
<1>7. \A b \in Candles!Buckets : IsCandle(read, h, b, Len(read), block.observations[b])
  BY <1>3, <1>6 DEF OpenHour
<1>8. \A b \in Candles!Buckets : Candles!Sound(h, b, block.observations[b])
  BY <1>2, <1>7, CandlesAreSound
<1>9. accumulators' = [accumulators EXCEPT ![h].state = "finished", ![h].block = block] /\ read' = read
  BY <1>1, <1>4, <1>5, <1>8 DEF Candles!Finish
<1>10. PICK q : q = [a EXCEPT !.state = "finished", !.block = block]
  OBVIOUS
<1>11. q = [seen |-> a.seen, candles |-> a.candles, accepted |-> a.accepted, duplicates |-> a.duplicates,
            outside |-> a.outside, state |-> "finished", block |-> block]
  BY <1>3, <1>10 DEF IsHour
<1>12. /\ accumulators' = [g \in TradeHours |-> accumulators'[g]] /\ accumulators'[h] = q
       /\ \A g \in TradeHours : g # h => accumulators'[g] = accumulators[g]
  BY <1>1, <1>2, <1>9, <1>10
<1>13. q.state = "finished" /\ q.block = block /\ IsHour(q)
  BY <1>11 DEF IsHour
<1>14. HourIsTrue(read, h, q)
  <2>1. Len(read) \in 0 .. Len(read)
    BY <1>2 DEF Streamed
  <2>2. \E n \in 0 .. Len(read) : \A b \in Candles!Buckets : IsCandle(read, h, b, n, q.block.observations[b])
    BY <1>7, <1>13, <2>1
  <2> QED BY <1>13, <2>2 DEF HourIsTrue
<1>15. \A g \in TradeHours : HourIsTrue(read, g, accumulators'[g])
  <2>1. \A g \in TradeHours : HourIsTrue(read, g, accumulators[g])
    BY DEF CandleInv
  <2> QED BY <1>12, <1>14, <2>1
<1> QED BY <1>2, <1>9, <1>12, <1>15 DEF CandleInv

LEMMA NextRecord ==
  ASSUME CandleInv, NEW t \in TradeRecords, Candles!Read(t)
  PROVE  CandleInv'
<1>1. /\ read \in Streamed /\ read' = Append(read, t)
      /\ accumulators' = [h \in TradeHours |-> Candles!Consume(h, accumulators[h], t, Len(read))]
  BY DEF CandleInv, Candles!Read
<1>2. PICK u : u = read'
  OBVIOUS
<1>3. u \in Streamed /\ Begins(read, u) /\ Len(u) = Len(read) + 1 /\ u[Len(u)] = t
  BY <1>1, <1>2, OneMore
<1>4. ASSUME NEW h \in TradeHours PROVE HourIsTrue(u, h, accumulators'[h])
  <2>1. HourIsTrue(read, h, accumulators[h])
    BY DEF CandleInv
  <2>2. HourIsTrue(u, h, Candles!Consume(h, accumulators[h], u[Len(u)], Len(read)))
    BY <1>1, <1>3, <2>1, ConsumedHour
  <2>3. accumulators'[h] = Candles!Consume(h, accumulators[h], t, Len(read))
    BY <1>1
  <2> QED BY <1>3, <2>2, <2>3
<1>5. accumulators' = [h \in TradeHours |-> accumulators'[h]]
  BY <1>1
<1> QED BY <1>2, <1>3, <1>4, <1>5 DEF CandleInv

LEMMA CandlesStart ==
  ASSUME Candles!Init
  PROVE  CandleInv
<1>1. read = << >> /\ accumulators = [h \in TradeHours |-> Candles!FreshHour]
  BY DEF Candles!Init
<1>2. read \in Streamed /\ Len(read) = 0
  BY <1>1 DEF Streamed
<1>3. ASSUME NEW h \in TradeHours PROVE HourIsTrue(read, h, accumulators[h])
  <2>1. PICK a : a = accumulators[h] /\ a = Candles!FreshHour
    BY <1>1
  <2>2. Arrived(read, h, 0) = {} /\ \A b : ArrivedIn(read, h, b, 0) = {}
    BY DEF Arrived, ArrivedIn
  <2>3. /\ a.seen = {} /\ a.candles = [b \in Candles!Buckets |-> NoCandle] /\ a.accepted = 0
        /\ a.duplicates = 0 /\ a.outside = 0 /\ a.state = "open" /\ IsHour(a)
    BY <2>1 DEF Candles!FreshHour, IsHour
  <2>4. \A b \in Candles!Buckets : IsCandle(read, h, b, 0, a.candles[b])
    BY <2>2, <2>3 DEF IsCandle
  <2>5. a.accepted = Cardinality(Arrived(read, h, 0))
    BY <2>2, <2>3, FS_EmptySet
  <2>6. a.seen = {read[i] : i \in {i \in 1 .. Len(read) : Candles!InHour(h, read[i])}}
    BY <1>2, <2>3
  <2>7. OpenHour(read, h, a)
    BY <1>2, <2>3, <2>4, <2>5, <2>6 DEF OpenHour
  <2> QED BY <2>1, <2>3, <2>7 DEF HourIsTrue
<1> QED BY <1>1, <1>2, <1>3 DEF CandleInv

LEMMA TruthOfCandles ==
  ASSUME CandleInv
  PROVE  Candles!CandlesAreExact /\ Candles!EveryTradeOnce
<1>1. read \in Streamed /\ Len(read) \in Nat /\ \A h \in TradeHours : HourIsTrue(read, h, accumulators[h])
  BY DEF CandleInv, Streamed
<1>2. ASSUME NEW h \in TradeHours, accumulators[h].state = "open", NEW b \in Candles!Buckets
      PROVE  accumulators[h].candles[b] = Candles!TheCandle(h, b, Len(read))
  <2>1. OpenHour(read, h, accumulators[h])
    BY <1>1, <1>2 DEF HourIsTrue
  <2>2. IsCandle(read, h, b, Len(read), accumulators[h].candles[b])
    BY <2>1 DEF OpenHour
  <2>3. Len(read) \in 0 .. Len(read)
    BY <1>1
  <2> QED BY <1>1, <2>2, <2>3, TheOneCandle
<1>3. ASSUME NEW h \in TradeHours, accumulators[h].state = "finished"
      PROVE  \E n \in 0 .. Len(read) : \A b \in Candles!Buckets :
               accumulators[h].block.observations[b] = Candles!TheCandle(h, b, n)
  <2>1. PICK n \in 0 .. Len(read) :
          \A b \in Candles!Buckets : IsCandle(read, h, b, n, accumulators[h].block.observations[b])
    BY <1>1, <1>3 DEF HourIsTrue
  <2>2. \A b \in Candles!Buckets : accumulators[h].block.observations[b] = Candles!TheCandle(h, b, n)
    BY <1>1, <2>1, TheOneCandle
  <2> QED BY <2>2
<1>4. Candles!CandlesAreExact
  BY <1>2, <1>3 DEF Candles!CandlesAreExact
<1>5. ASSUME NEW h \in TradeHours
      PROVE  /\ accumulators[h].state # "refused"
             /\ accumulators[h].state = "failed" =>
                  \E i, j \in 1 .. Len(read) :
                    /\ Candles!InHour(h, read[i]) /\ Candles!InHour(h, read[j])
                    /\ read[i].id = read[j].id /\ read[i] # read[j]
  BY <1>1 DEF HourIsTrue
<1>6. ASSUME \A h \in TradeHours : accumulators[h].state = "open", NEW i \in 1 .. Len(read)
      PROVE  IF \E h \in TradeHours : Candles!InHour(h, read[i])
             THEN Cardinality({h \in TradeHours : read[i] \in accumulators[h].seen}) = 1
             ELSE {h \in TradeHours : read[i] \in accumulators[h].seen} = {}
  <2>1. PICK Owners : Owners = {h \in TradeHours : read[i] \in accumulators[h].seen}
    OBVIOUS
  <2>2. \A h \in TradeHours : read[i] \in accumulators[h].seen <=> Candles!InHour(h, read[i])
    <3> SUFFICES ASSUME NEW h \in TradeHours
                 PROVE  read[i] \in accumulators[h].seen <=> Candles!InHour(h, read[i])
      OBVIOUS
    <3>1. OpenHour(read, h, accumulators[h])
      BY <1>1, <1>6 DEF HourIsTrue
    <3> QED BY <3>1, SeenTrades
  <2>3. CASE \E h \in TradeHours : Candles!InHour(h, read[i])
    <3>1. PICK h \in TradeHours : Candles!InHour(h, read[i])
      BY <2>3
    <3>2. read[i] \in TradeRecords
      BY <1>1, TradesAreNumbers
    <3>3. \A g \in TradeHours : Candles!InHour(g, read[i]) => g = h
      BY <3>1, <3>2, OneHour
    <3>4. Owners = {h}
      BY <2>1, <2>2, <3>1, <3>3
    <3>5. Cardinality(Owners) = 1
      BY <3>4, FS_Singleton
    <3> QED BY <2>1, <2>3, <3>5
  <2>4. CASE ~\E h \in TradeHours : Candles!InHour(h, read[i])
    BY <2>2, <2>4
  <2> QED BY <2>3, <2>4
<1>7. \A S : Candles!Cardinality(S) = Cardinality(S)
  BY CountedCandles
<1>8. Candles!EveryTradeOnce
  BY <1>5, <1>6, <1>7 DEF Candles!EveryTradeOnce
<1> QED BY <1>4, <1>8

(* Every candle is the one its trades determine, every trade is in one hour, *)
(* an hour fails only over a conflict of its own, and no check refuses one.  *)
THEOREM CandlesTellTheTruth == DataSpec => []CandlesAreTruthful
<1>1. DataInit => CandleInv
  BY CandlesInside, CandlesStart
<1>2. CandleInv /\ [DataNext]_<<stage, dataVars>> => CandleInv'
  <2> SUFFICES ASSUME CandleInv, [DataNext]_<<stage, dataVars>> PROVE CandleInv'
    OBVIOUS
  <2>1. CASE Candles!Next
    <3>1. CASE \E t \in TradeRecords : Candles!Read(t)
      BY <3>1, NextRecord
    <3>2. CASE \E h \in TradeHours : Candles!Finish(h)
      BY <3>2, FinishedHour
    <3> QED BY <2>1, <3>1, <3>2 DEF Candles!Next
  <2>2. CASE UNCHANGED Candles!vars
    <3>1. read' = read /\ accumulators' = accumulators
      BY <2>2 DEF Candles!vars
    <3> QED BY <3>1 DEF CandleInv
  <2> QED BY <2>1, <2>2, CandlesInside
<1>3. CandleInv => CandlesAreTruthful
  BY TruthOfCandles DEF CandlesAreTruthful
<1> QED BY <1>1, <1>2, <1>3, PTL DEF DataSpec

-----------------------------------------------------------------------------
(* The calendar.                                                             *)
LEMMA CalendarInside ==
  (DataInit => Calendar!CalendarInit)
    /\ ([DataNext]_<<stage, dataVars>> => [Calendar!Step]_Calendar!calendarVars)
BY DEF DataInit, DataNext, dataVars, calendarVars, Calendar!calendarVars, Calendar!worldVars, Calendar!pageVars

(* Numbers and records of the calendar.                                      *)
Windows == [first : Nat, last : Nat]
IsWindow(w) ==
  w = Null \/ (w \in Windows /\ w.first \in Calendar!Hours /\ w.last \in Calendar!Hours /\ w.first =< w.last)
Presented == {Ranking[i] : i \in DOMAIN Ranking}

(* What is to be read of the hours of a date, and its calendar, as things are. *)
SourcesOf(d) == [h \in Calendar!History(d) |-> facts[h].sources]
L2Of(d) == [h \in Calendar!History(d) |-> facts[h].l2]
StateOf(h) == Calendar!Classify(Ranking[Calendar!Preferred], facts[h].sources, facts[h].l2, facts[h].price)
CalendarOf(d) ==
  IF enabled = {} THEN [Calendar!NoCalendar EXCEPT !.date = d]
  ELSE [date |-> d, preset |-> Ranking[Calendar!Preferred],
        states |-> [h \in Calendar!HoursOfDate(d) |-> StateOf(h)],
        window |-> Calendar!NewestWindow([h \in Calendar!History(d) |-> StateOf(h)])]

Steps == {"idle", "preset", "sources", "l2", "price", "loaded"}
CalendarTypes ==
  /\ zone \in Zones /\ enabled \subseteq Presented /\ date \in Dates \cup {NoDate}
  /\ refresh.step \in Steps /\ (refresh.step # "idle" => refresh.date \in Dates)
  /\ refresh = [step |-> refresh.step, pending |-> refresh.pending, date |-> refresh.date,
                preset |-> refresh.preset, sources |-> refresh.sources, l2 |-> refresh.l2,
                calendar |-> refresh.calendar]

(* What a load has read is so, unless something asks for another load.       *)
Settled == ~behind /\ ~unreported /\ requests = 0
Loading ==
  \A d \in Dates : refresh.date = d =>
    /\ refresh.step \in {"sources", "l2", "price"} =>
         /\ Calendar!HasBounds(d)
         /\ ~behind => enabled # {} /\ refresh.preset = Ranking[Calendar!Preferred]
    /\ Settled /\ ~refresh.pending =>
         /\ refresh.step \in {"l2", "price"} => refresh.sources = SourcesOf(d)
         /\ refresh.step = "price" => refresh.l2 = L2Of(d)
         /\ refresh.step = "loaded" =>
              refresh.calendar = CalendarOf(d) /\ (enabled # {} => Calendar!HasBounds(d))

(* What a page at rest shows is so.                                          *)
Shown ==
  Settled /\ refresh.step = "idle" /\ ~failed /\ shown # Calendar!NoCalendar =>
    /\ date \in Dates
    /\ \A d \in Dates : date = d =>
         shown = CalendarOf(d) /\ (enabled # {} => Calendar!HasBounds(d))

(* Windows are of hours, and so is what the analysis page takes over.        *)
HandedOver(w, longest) ==
  Calendar!FitHandoff(w.first * HourTicks, (w.last + 1) * HourTicks - 1, longest)
WindowTypes ==
  /\ IsWindow(shown.window) /\ (refresh.step = "loaded" => IsWindow(refresh.calendar.window))
  /\ applied # Null =>
       /\ applied.window # Null /\ IsWindow(applied.window) /\ applied.limit \in RangeLimits
       /\ applied.range = HandedOver(applied.window, applied.limit)

CalendarInv == CalendarTypes /\ Loading /\ Shown /\ WindowTypes

LEMMA CountedHours == \A S : Calendar!Cardinality(S) = Cardinality(S)
BY DEF Calendar!Cardinality, Cardinality

LEMMA OneElement ==
  ASSUME NEW S, IsFiniteSet(S), Cardinality(S) = 1
  PROVE  \E x : S = {x}
BY FS_Singleton

(* Hours and their ticks.                                                    *)
LEMMA TicksOfHours ==
  /\ HourTicks \in Nat \ {0} /\ DayTicks \in Nat \ {0} /\ MaxTick \in Nat
  /\ Calendar!Ticks = 0 .. MaxTick /\ Calendar!Hours \subseteq Nat
  /\ \A t \in Calendar!Ticks : t \div HourTicks \in Calendar!Hours
  /\ \A h \in Calendar!Hours :
       /\ h * HourTicks \in Calendar!Ticks /\ (h * HourTicks) \div HourTicks = h
       /\ (h + 1) * HourTicks - 1 \in Calendar!Ticks
<1>1. HourTicks \in Nat \ {0} /\ DayTicks \in Nat \ {0} /\ MaxTick \in Nat /\ (MaxTick + 1) % HourTicks = 0
  BY CalendarAssumption
<1> DEFINE last == MaxTick \div HourTicks
           all == (MaxTick + 1) \div HourTicks
<1>2. Calendar!Ticks = 0 .. MaxTick /\ Calendar!Hours = 0 .. last
  BY DEF Calendar!Ticks, Calendar!Hours
<1>3. last \in Int /\ HourTicks * last =< MaxTick /\ MaxTick < HourTicks * last + HourTicks
  BY <1>1, Floor
<1>4. all \in Int /\ MaxTick + 1 = HourTicks * all
  <2>1. all \in Int /\ MaxTick + 1 = HourTicks * all + ((MaxTick + 1) % HourTicks)
    BY <1>1, Floor
  <2>2. HourTicks * all \in Int
    BY <1>1, <2>1
  <2> HIDE DEF all
  <2> QED BY <1>1, <2>1, <2>2
<1>5. last >= 0
  <2>1. ~(last < 0)
    BY <1>1, <1>3, Times
  <2> QED BY <1>3, <2>1
<1>6. ASSUME NEW t \in 0 .. MaxTick PROVE t \div HourTicks \in 0 .. last
  <2> DEFINE q == t \div HourTicks
  <2>1. q \in Int /\ HourTicks * q =< t /\ t < HourTicks * q + HourTicks
    BY <1>1, Floor
  <2>2. ~(q < 0)
    BY <1>1, <2>1, Times
  <2>3. ~(last < q)
    BY <1>1, <1>3, <2>1, Times
  <2> QED BY <1>3, <2>1, <2>2, <2>3
<1>7. ASSUME NEW h \in 0 .. last
      PROVE  /\ h * HourTicks \in 0 .. MaxTick /\ (h * HourTicks) \div HourTicks = h
             /\ (h + 1) * HourTicks - 1 \in 0 .. MaxTick
  <2>1. h * HourTicks = HourTicks * h /\ HourTicks * h \in Int /\ (h + 1) * HourTicks = HourTicks * h + HourTicks
    BY <1>1, <1>3
  <2>2. HourTicks * h >= 0
    BY <1>1, <1>3
  <2>3. last < all
    <3>1. ~(all < last + 1)
      BY <1>1, <1>3, <1>4, Times
    <3> QED BY <1>3, <1>4, <3>1
  <2>4. HourTicks * h + HourTicks =< HourTicks * all
    BY <1>1, <1>3, <1>4, <2>3, Times
  <2>5. h * HourTicks \in 0 .. MaxTick /\ (h + 1) * HourTicks - 1 \in 0 .. MaxTick
    BY <1>1, <1>4, <2>1, <2>2, <2>4
  <2>6. h = (HourTicks * h) \div HourTicks
    BY <1>1, <1>3, <2>1, Floor
  <2> QED BY <2>1, <2>5, <2>6
<1> QED BY <1>1, <1>2, <1>3, <1>6, <1>7

LEMMA FloorIsMonotone ==
  ASSUME NEW n \in Nat \ {0}, NEW a \in Int, NEW b \in Int, a =< b
  PROVE  a \div n =< b \div n
<1> DEFINE p == a \div n
           q == b \div n
<1>1. p \in Int /\ n * p =< a /\ q \in Int /\ b < n * q + n
  BY Floor
<1>2. ~(q < p)
  BY <1>1, Times
<1> QED BY <1>1, <1>2

(* Local time.                                                               *)
LEMMA Midnight ==
  ASSUME zone \in Zones, NEW m \in Int, m % DayTicks = 0, Calendar!IsLocalTime(m)
  PROVE  /\ zone \in [Calendar!Ticks -> Int]
         /\ Calendar!LocalToUtc(m) \in Calendar!Ticks
         /\ \A t \in Calendar!Ticks : t < Calendar!LocalToUtc(m) <=> t + zone[t] < m
<1> DEFINE C == Calendar!Candidates(m)
           u == Calendar!LocalToUtc(m)
           local == [t \in 0 .. MaxTick |-> t + zone[t]]
<1>1. MaxTick \in Nat /\ Calendar!Ticks = 0 .. MaxTick
  BY TicksOfHours
<1>2. /\ zone \in [0 .. MaxTick -> Int]
      /\ \A t, w \in 0 .. MaxTick :
            local[w] % DayTicks = 0 /\ (\A v \in 0 .. MaxTick : local[v] = local[w] => v = w)
              => (t < w <=> local[t] < local[w])
  BY CalendarAssumption
<1>3. C = {t \in 0 .. MaxTick : t + zone[t] = m}
  BY <1>1 DEF Calendar!Candidates
<1>4. IsFiniteSet(C)
  <2>1. IsFiniteSet(0 .. MaxTick)
    BY <1>1, FS_Interval
  <2> QED BY <1>3, <2>1, FS_Subset
<1>5. Cardinality(C) = 1
  BY CountedHours DEF Calendar!IsLocalTime
<1>6. PICK x : C = {x}
  BY <1>4, <1>5, OneElement
<1>7. u = x
  <2>1. u = CHOOSE t \in C : TRUE
    BY DEF Calendar!LocalToUtc
  <2> HIDE DEF C, u
  <2> QED BY <1>6, <2>1
<1>8. u \in 0 .. MaxTick /\ u + zone[u] = m /\ \A v \in 0 .. MaxTick : v + zone[v] = m => v = u
  <2> HIDE DEF u
  <2> QED BY <1>3, <1>6, <1>7
<1>9. ASSUME NEW t \in 0 .. MaxTick PROVE t < u <=> t + zone[t] < m
  <2>1. local[u] = m /\ local[t] = t + zone[t]
    BY <1>8
  <2>2. \A v \in 0 .. MaxTick : local[v] = local[u] => v = u
    BY <1>8, <2>1
  <2> HIDE DEF local, u
  <2> QED BY <1>2, <1>8, <2>1, <2>2
<1> QED BY <1>1, <1>2, <1>8, <1>9

LEMMA DayBounds ==
  ASSUME zone \in Zones, NEW d \in Int, Calendar!HasBounds(d)
  PROVE  /\ zone \in [Calendar!Ticks -> Int]
         /\ Calendar!LocalToUtc(d * DayTicks) \in Calendar!Ticks
         /\ Calendar!LocalToUtc((d + 1) * DayTicks) \in Calendar!Ticks
         /\ \A t \in Calendar!Ticks :
              Calendar!LocalDate(t) = d <=>
                Calendar!LocalToUtc(d * DayTicks) =< t /\ t < Calendar!LocalToUtc((d + 1) * DayTicks)
<1> DEFINE m == d * DayTicks
           n == (d + 1) * DayTicks
           a == Calendar!LocalToUtc(m)
           b == Calendar!LocalToUtc(n)
<1>1. DayTicks \in Nat \ {0} /\ Calendar!Ticks \subseteq Int
  BY TicksOfHours
<1>2. /\ m \in Int /\ n \in Int /\ m = DayTicks * d + 0 /\ n = m + DayTicks
      /\ m = DayTicks * d /\ n = DayTicks * (d + 1)
  BY <1>1
<1>3. m % DayTicks = 0 /\ n % DayTicks = 0
  <2>1. ASSUME NEW k \in Int PROVE (DayTicks * k) % DayTicks = 0
    <3>1. DayTicks * k \in Int /\ k = (DayTicks * k) \div DayTicks
      BY <1>1, Floor
    <3>2. DayTicks * k = DayTicks * k + ((DayTicks * k) % DayTicks) /\ (DayTicks * k) % DayTicks \in 0 .. DayTicks - 1
      BY <1>1, <3>1, Floor
    <3> QED BY <1>1, <3>1, <3>2
  <2>2. d + 1 \in Int
    OBVIOUS
  <2> QED BY <1>2, <2>1, <2>2
<1>4. Calendar!IsLocalTime(m) /\ Calendar!IsLocalTime(n)
  BY DEF Calendar!HasBounds
<1>5. /\ zone \in [Calendar!Ticks -> Int] /\ a \in Calendar!Ticks
      /\ \A t \in Calendar!Ticks : t < a <=> t + zone[t] < m
  <2> HIDE DEF m, n
  <2> QED BY <1>2, <1>3, <1>4, Midnight
<1>6. b \in Calendar!Ticks /\ \A t \in Calendar!Ticks : t < b <=> t + zone[t] < n
  <2> HIDE DEF m, n
  <2> QED BY <1>2, <1>3, <1>4, Midnight
<1>7. ASSUME NEW t \in Calendar!Ticks PROVE Calendar!LocalDate(t) = d <=> a =< t /\ t < b
  <2>1. t + zone[t] \in Int
    BY <1>1, <1>5
  <2>2. Calendar!LocalDate(t) = (t + zone[t]) \div DayTicks
    BY DEF Calendar!LocalDate
  <2>3. Calendar!LocalDate(t) = d <=> m =< t + zone[t] /\ t + zone[t] < n
    <3> DEFINE s == t + zone[t]
               k == s \div DayTicks
    <3>3. k \in Int /\ DayTicks * k =< s /\ s < DayTicks * k + DayTicks
      BY <1>1, <2>1, Floor
    <3>4. DayTicks * d =< s /\ s < DayTicks * d + DayTicks => d = k
      BY <1>1, <2>1, Floor
    <3>5. DayTicks * d = m /\ DayTicks * d + DayTicks = n
      BY <1>2
    <3> HIDE DEF s, k, m, n
    <3>1. k = d => m =< s /\ s < n
      BY <3>3, <3>5
    <3>2. m =< s /\ s < n => k = d
      BY <3>4, <3>5
    <3>6. Calendar!LocalDate(t) = k
      BY <2>2 DEF k, s
    <3>7. Calendar!LocalDate(t) = d <=> m =< s /\ s < n
      BY <3>1, <3>2, <3>6
    <3>8. s = t + zone[t]
      BY DEF s
    <3> QED BY <3>7, <3>8
  <2>4. (t < a <=> t + zone[t] < m) /\ (t < b <=> t + zone[t] < n) /\ a \in Int /\ t \in Int
    BY <1>1, <1>5, <1>6
  <2> HIDE DEF a, b, m, n
  <2> QED BY <1>2, <2>1, <2>3, <2>4
<1> QED BY <1>5, <1>6, <1>7

LEMMA DayHours ==
  ASSUME zone \in Zones, NEW d \in Int, Calendar!HasBounds(d), NEW t \in Calendar!Ticks,
         Calendar!LocalDate(t) = d
  PROVE  /\ Calendar!QueryBounds(d)[1] =< Calendar!FloorToHour(t)
         /\ Calendar!FloorToHour(t) < Calendar!QueryBounds(d)[2]
         /\ Calendar!QueryBounds(d)[1] \in Int /\ Calendar!QueryBounds(d)[2] \in Int
<1> DEFINE a == Calendar!LocalToUtc(d * DayTicks)
           b == Calendar!LocalToUtc((d + 1) * DayTicks)
<1>1. a \in Calendar!Ticks /\ b \in Calendar!Ticks /\ a =< t /\ t < b
  BY DayBounds
<1>2. HourTicks \in Nat \ {0} /\ Calendar!Ticks \subseteq Int
  BY TicksOfHours
<1>3. /\ Calendar!QueryBounds(d) = <<a \div HourTicks, (b + HourTicks - 1) \div HourTicks>>
      /\ Calendar!FloorToHour(t) = t \div HourTicks
  BY DEF Calendar!QueryBounds, Calendar!FloorToHour, Calendar!CeilToHour
<1> HIDE DEF a, b
<1>4. a \in Int /\ b \in Int /\ t \in Int /\ t + HourTicks \in Int /\ b + HourTicks - 1 \in Int
  BY <1>1, <1>2
<1>5. a \div HourTicks \in Int /\ (b + HourTicks - 1) \div HourTicks \in Int
  BY <1>2, <1>4, Floor
<1>6. a \div HourTicks =< t \div HourTicks
  BY <1>1, <1>2, <1>4, FloorIsMonotone
<1>7. (t + HourTicks) \div HourTicks =< (b + HourTicks - 1) \div HourTicks
  <2>1. t + HourTicks =< b + HourTicks - 1
    BY <1>1, <1>2, <1>4
  <2> QED BY <1>2, <1>4, <2>1, FloorIsMonotone
<1>8. (t + HourTicks) \div HourTicks = t \div HourTicks + 1
  <2> DEFINE q == t \div HourTicks
  <2>1. q \in Int /\ HourTicks * q =< t /\ t < HourTicks * q + HourTicks
    BY <1>2, <1>4, Floor
  <2> HIDE DEF q
  <2>2. HourTicks * (q + 1) = HourTicks * q + HourTicks /\ HourTicks * q \in Int /\ q + 1 \in Int
    BY <1>2, <2>1, Times
  <2>3. HourTicks * (q + 1) =< t + HourTicks /\ t + HourTicks < HourTicks * (q + 1) + HourTicks
    BY <1>2, <1>4, <2>1, <2>2
  <2>4. q + 1 = (t + HourTicks) \div HourTicks
    BY <1>2, <1>4, <2>2, <2>3, Floor
  <2> QED BY <2>4 DEF q
<1>9. t \div HourTicks \in Int
  BY <1>2, <1>4, Floor
<1> QED BY <1>3, <1>5, <1>6, <1>7, <1>8, <1>9

LEMMA HoursOfADate ==
  ASSUME zone \in Zones, NEW d \in Int, Calendar!HasBounds(d)
  PROVE  Calendar!HoursOfDate(d) = {h \in Calendar!Hours : Calendar!LocalDate(h * HourTicks) = d}
<1>1. Calendar!HoursOfDate(d) = {h \in Calendar!History(d) : Calendar!LocalDate(h * HourTicks) = d}
  BY DEF Calendar!HoursOfDate
<1>2. Calendar!History(d) =
        Calendar!Hours \intersect ((Calendar!QueryBounds(d)[1] - Lookback) .. (Calendar!QueryBounds(d)[2] - 1))
  BY DEF Calendar!History
<1>3. ASSUME NEW h \in Calendar!Hours, Calendar!LocalDate(h * HourTicks) = d PROVE h \in Calendar!History(d)
  <2>1. h * HourTicks \in Calendar!Ticks /\ (h * HourTicks) \div HourTicks = h /\ h \in Nat
    BY TicksOfHours
  <2>2. Calendar!FloorToHour(h * HourTicks) = h
    BY <2>1 DEF Calendar!FloorToHour
  <2>3. /\ Calendar!QueryBounds(d)[1] =< h /\ h < Calendar!QueryBounds(d)[2]
        /\ Calendar!QueryBounds(d)[1] \in Int /\ Calendar!QueryBounds(d)[2] \in Int
    BY <1>3, <2>1, <2>2, DayHours
  <2>4. Lookback \in Nat
    BY CalendarAssumption
  <2> QED BY <1>2, <2>1, <2>3, <2>4
<1> QED BY <1>1, <1>2, <1>3

(* The preset that is shown.                                                 *)
LEMMA Preferring ==
  ASSUME enabled \subseteq Presented, enabled # {}
  PROVE  Calendar!Preferred \in DOMAIN Ranking /\ Ranking[Calendar!Preferred] \in enabled
<1> DEFINE chosen == {i \in 1 .. Len(Ranking) : Ranking[i] \in enabled}
<1>1. Ranking \in Seq(Presented) /\ DOMAIN Ranking = 1 .. Len(Ranking) /\ Len(Ranking) \in Nat
  BY CalendarAssumption DEF Presented
<1>2. chosen # {} /\ chosen \in SUBSET Nat
  BY <1>1 DEF Presented
<1>3. Calendar!Preferred = CHOOSE x \in chosen : \A y \in chosen : x =< y
  BY <1>2 DEF Calendar!Preferred, Calendar!SelectInSeq, Calendar!Min
<1> HIDE DEF chosen
<1>4. \E x \in chosen : \A y \in chosen : x =< y
  BY <1>2, Least
<1>5. Calendar!Preferred \in chosen
  BY <1>3, <1>4
<1> QED BY <1>1, <1>5 DEF chosen

LEMMA PresetsHaveMarkets ==
  ASSUME NEW p \in Presented
  PROVE  IsFiniteSet(Markets[p]) /\ Markets[p] # {} /\ p # Null
BY CalendarAssumption DEF Presented

(* An hour is "analyzable" when nothing that an analysis needs is missing.   *)
LEMMA Analyzable ==
  ASSUME NEW p \in Presented, NEW sources, NEW l2, NEW rate
  PROVE  Calendar!Classify(p, sources, l2, rate) = "analyzable" <=>
           /\ rate # Null /\ rate > 0
           /\ \A m \in Markets[p] :
                /\ l2[m] # Null /\ l2[m] > 0
                /\ Calendar!Cardinality(Markets[p]) > 1 => l2[m] = FullHour
<1> DEFINE M == Markets[p]
           there == \A m \in M : l2[m] # Null
           valid == Calendar!ValidSeconds(p, l2) > 0
           paid == rate > 0
<1>1. IsFiniteSet(M) /\ M # {} /\ FullHour \in Nat \ {0}
  BY CalendarAssumption, PresetsHaveMarkets
<1>2. Calendar!Classify(p, sources, l2, rate) = "analyzable" <=> there /\ rate # Null /\ valid /\ paid
  <2> HIDE DEF valid, paid
  <2> QED BY DEF Calendar!Classify, valid, paid
<1>3. Calendar!Cardinality(M) \in Nat /\ Calendar!Cardinality(M) # 0
  BY <1>1, CountedHours, FS_CardinalityType, FS_EmptySet
<1>4. CASE Calendar!Cardinality(M) = 1
  <2>1. PICK x : M = {x}
    BY <1>1, <1>4, CountedHours, OneElement
  <2>2. Calendar!ValidSeconds(p, l2) = IF l2[x] = Null THEN 0 ELSE l2[x]
    BY <1>4, <2>1 DEF Calendar!ValidSeconds
  <2>3. there /\ valid <=> \A m \in M : l2[m] # Null /\ l2[m] > 0
    BY <2>1, <2>2
  <2> QED BY <1>2, <1>4, <2>3
<1>5. CASE Calendar!Cardinality(M) > 1
  <2>1. Calendar!ValidSeconds(p, l2) = IF \A m \in M : l2[m] = FullHour THEN FullHour ELSE 0
    BY <1>3, <1>5 DEF Calendar!ValidSeconds
  <2>2. there /\ valid <=> \A m \in M : l2[m] # Null /\ l2[m] > 0 /\ l2[m] = FullHour
    BY <1>1, <2>1
  <2> QED BY <1>2, <1>5, <2>2
<1> QED BY <1>3, <1>4, <1>5

(* The newest window.                                                        *)
LEMMA Greatest ==
  ASSUME NEW n \in Nat, NEW S \in SUBSET (0 .. n), S # {}
  PROVE  \E x \in S : \A y \in S : y =< x
<1> DEFINE T == {n - x : x \in S}
<1>1. T \in SUBSET Nat /\ T # {}
  <2>1. \A x \in S : n - x \in Nat
    OBVIOUS
  <2> QED BY <2>1
<1>2. PICK m \in T : \A k \in T : m =< k
  BY <1>1, Least
<1>3. PICK x \in S : m = n - x
  BY <1>2
<1>4. \A y \in S : n - x =< n - y
  BY <1>2, <1>3
<1> QED BY <1>3, <1>4

LEMMA WindowOfHours ==
  ASSUME NEW states, DOMAIN states \subseteq Calendar!Hours,
         NEW w, w = Calendar!NewestWindow(states),
         NEW good, good = {h \in DOMAIN states : states[h] = "analyzable"}
  PROVE  /\ IsWindow(w)
         /\ w = Null <=> good = {}
         /\ good # {} =>
              /\ w.first .. w.last \subseteq good /\ w.first - 1 \notin good
              /\ \A h \in good : ~(h > w.last)
<1>1. MaxTick \div HourTicks \in Nat /\ Calendar!Hours = 0 .. (MaxTick \div HourTicks)
  <2>1. 0 \in Calendar!Ticks
    BY TicksOfHours
  <2>2. 0 \div HourTicks \in Calendar!Hours /\ Calendar!Hours = 0 .. (MaxTick \div HourTicks)
    BY <2>1, TicksOfHours DEF Calendar!Hours
  <2>3. HourTicks \in Nat \ {0} /\ MaxTick \in Nat
    BY TicksOfHours
  <2>4. MaxTick \div HourTicks \in Int
    BY <2>3
  <2> QED BY <2>2, <2>4
<1>2. good \subseteq Calendar!Hours /\ good \subseteq Nat
  BY <1>1
<1>3. CASE good = {}
  <2>1. w = Null
    BY <1>3 DEF Calendar!NewestWindow
  <2> QED BY <1>3, <2>1 DEF IsWindow
<1>4. CASE good # {}
  <2>1. PICK n \in good : \A g \in good : g =< n
    BY <1>1, <1>2, <1>4, Greatest
  <2> DEFINE newest == CHOOSE h \in good : \A g \in good : g =< h
             T == {h \in good : h .. newest \subseteq good}
             first == CHOOSE h \in good : h .. newest \subseteq good /\ h - 1 \notin good
  <2>2. newest \in good /\ \A g \in good : g =< newest
    BY <2>1
  <2>3. w = [first |-> first, last |-> newest]
    BY <1>4 DEF Calendar!NewestWindow
  <2> HIDE DEF newest
  <2>4. T \in SUBSET Nat /\ T # {}
    <3>1. newest .. newest \subseteq good
      BY <1>2, <2>2
    <3> QED BY <1>2, <2>2, <3>1
  <2>5. PICK f \in T : \A g \in T : f =< g
    BY <2>4, Least
  <2>6. f - 1 \notin good
    <3> SUFFICES ASSUME f - 1 \in good PROVE FALSE
      OBVIOUS
    <3>1. f \in Nat /\ f - 1 \in Nat /\ newest \in Nat
      BY <1>2, <2>2, <2>4, <2>5
    <3>2. f .. newest \subseteq good
      BY <2>5
    <3>3. (f - 1) .. newest \subseteq good
      BY <3>1, <3>2
    <3>4. f - 1 \in T
      BY <3>3
    <3>5. f =< f - 1
      BY <2>5, <3>4
    <3> QED BY <3>1, <3>5
  <2>7. first \in good /\ first .. newest \subseteq good /\ first - 1 \notin good
    <3>1. f \in good /\ f .. newest \subseteq good
      BY <2>5
    <3> HIDE DEF T
    <3> QED BY <2>6, <3>1
  <2> HIDE DEF first
  <2>8. first =< newest
    BY <2>2, <2>7
  <2>9. PICK v : v = [first |-> first, last |-> newest]
    OBVIOUS
  <2>10. w = v /\ v.first = first /\ v.last = newest /\ v \in Windows
    BY <1>2, <2>2, <2>3, <2>7, <2>9 DEF Windows
  <2>11. Null \notin Windows
    BY CalendarAssumption DEF Windows
  <2>12. w # Null /\ IsWindow(w)
    BY <1>2, <2>2, <2>7, <2>8, <2>10, <2>11 DEF IsWindow
  <2>13. \A h \in good : ~(h > newest)
    BY <1>2, <2>2
  <2> QED BY <1>4, <2>7, <2>10, <2>12, <2>13
<1> QED BY <1>3, <1>4

(* What does not change with the zone, the presets and the facts.            *)
LEMMA SameDays ==
  ASSUME zone' = zone, NEW d
  PROVE  /\ Calendar!HasBounds(d)' = Calendar!HasBounds(d) /\ Calendar!History(d)' = Calendar!History(d)
         /\ Calendar!HoursOfDate(d)' = Calendar!HoursOfDate(d)
<1>1. Calendar!HasBounds(d)' = Calendar!HasBounds(d)
  BY DEF Calendar!HasBounds, Calendar!IsLocalTime, Calendar!Candidates
<1>2. Calendar!History(d)' = Calendar!History(d) /\ Calendar!HoursOfDate(d)' = Calendar!HoursOfDate(d)
  BY DEF Calendar!History, Calendar!HoursOfDate, Calendar!QueryBounds, Calendar!LocalToUtc,
         Calendar!Candidates, Calendar!LocalDate
<1> QED BY <1>1, <1>2

LEMMA SamePreferred ==
  ASSUME enabled' = enabled
  PROVE  Calendar!Preferred' = Calendar!Preferred
BY DEF Calendar!Preferred, Calendar!SelectInSeq, Calendar!Min

LEMMA SameCalendar ==
  ASSUME facts' = facts, enabled' = enabled, zone' = zone, NEW d
  PROVE  CalendarOf(d)' = CalendarOf(d) /\ SourcesOf(d)' = SourcesOf(d) /\ L2Of(d)' = L2Of(d)
<1> DEFINE Cal(none, q, s, w) ==
      IF none THEN [Calendar!NoCalendar EXCEPT !.date = d]
      ELSE [date |-> d, preset |-> Ranking[q], states |-> s, window |-> Calendar!NewestWindow(w)]
<1>1. \A h : StateOf(h)' = StateOf(h)
  BY SamePreferred DEF StateOf
<1>2. Calendar!History(d)' = Calendar!History(d) /\ Calendar!HoursOfDate(d)' = Calendar!HoursOfDate(d)
  BY SameDays
<1>3. Calendar!Preferred' = Calendar!Preferred
  BY SamePreferred
<1>4. PICK s : s = [h \in Calendar!HoursOfDate(d) |-> StateOf(h)]
  OBVIOUS
<1>5. PICK w : w = [h \in Calendar!History(d) |-> StateOf(h)]
  OBVIOUS
<1>6. [h \in Calendar!HoursOfDate(d) |-> StateOf(h)]' = s
  BY <1>1, <1>2, <1>4
<1>7. [h \in Calendar!History(d) |-> StateOf(h)]' = w
  BY <1>1, <1>2, <1>5
<1>8. CalendarOf(d) = Cal(enabled = {}, Calendar!Preferred, s, w)
  BY <1>4, <1>5 DEF CalendarOf
<1>9. CalendarOf(d)' = Cal(enabled = {}, Calendar!Preferred, s, w)
  BY <1>3, <1>6, <1>7 DEF CalendarOf
<1>10. SourcesOf(d)' = SourcesOf(d) /\ L2Of(d)' = L2Of(d)
  BY <1>2 DEF SourcesOf, L2Of
<1> QED BY <1>8, <1>9, <1>10

(* Init.                                                                     *)
LEMMA CalendarStarts == Calendar!CalendarInit => CalendarInv
<1> SUFFICES ASSUME Calendar!CalendarInit PROVE CalendarInv
  OBVIOUS
<1>1. enabled \subseteq Presented
  BY DEF Calendar!CalendarInit, Calendar!ToSet, Presented
<1>2. refresh.step = "idle" /\ CalendarTypes
  BY <1>1 DEF Calendar!CalendarInit, Calendar!NoRefresh, CalendarTypes, Steps
<1>3. shown.window = Null /\ applied = Null /\ shown = Calendar!NoCalendar
  BY DEF Calendar!CalendarInit, Calendar!NoCalendar
<1>4. Loading /\ Shown
  BY <1>2, <1>3 DEF Loading, Shown
<1>5. WindowTypes
  BY <1>2, <1>3 DEF WindowTypes, IsWindow
<1> QED BY <1>2, <1>4, <1>5 DEF CalendarInv

(* A step after which something asks for a load, or a preset has changed.    *)
LEMMA Unsettling ==
  ASSUME CalendarInv, ~Settled', zone' = zone, refresh' = refresh, shown' = shown, applied' = applied,
         date' \in Dates \cup {NoDate}, enabled' \subseteq Presented,
         behind' \/ (behind' = behind /\ enabled' = enabled)
  PROVE  CalendarInv'
<1>1. CalendarTypes'
  BY DEF CalendarInv, CalendarTypes
<1>2. WindowTypes'
  BY DEF CalendarInv, WindowTypes, IsWindow, HandedOver, Calendar!Hours
<1>3. Shown'
  BY DEF Shown
<1>4. Loading'
  <2> SUFFICES ASSUME NEW d \in Dates, refresh.date = d, refresh.step \in {"sources", "l2", "price"}
               PROVE  /\ Calendar!HasBounds(d)'
                      /\ ~behind' => enabled' # {} /\ refresh.preset = Ranking[Calendar!Preferred']
    BY DEF Loading
  <2>1. Calendar!HasBounds(d) /\ (~behind => enabled # {} /\ refresh.preset = Ranking[Calendar!Preferred])
    BY DEF CalendarInv, Loading
  <2>2. Calendar!HasBounds(d)'
    BY <2>1, SameDays
  <2>3. enabled' = enabled => Calendar!Preferred' = Calendar!Preferred
    BY SamePreferred
  <2> QED BY <2>1, <2>2, <2>3
<1> QED BY <1>1, <1>2, <1>3, <1>4 DEF CalendarInv

LEMMA Asking ==
  ASSUME CalendarInv,
         \/ Calendar!Click \/ Calendar!Complete
         \/ \E d \in Dates \cup {NoDate} : Calendar!ChangeDate(d)
  PROVE  CalendarInv'
<1>1. /\ requests' = 1 /\ zone' = zone /\ refresh' = refresh /\ shown' = shown /\ applied' = applied
      /\ date' \in Dates \cup {NoDate} /\ behind' = behind /\ enabled' = enabled
  BY DEF Calendar!Click, Calendar!Complete, Calendar!ChangeDate, Calendar!worldVars, CalendarInv, CalendarTypes
<1>2. ~Settled' /\ enabled' \subseteq Presented
  BY <1>1 DEF Settled, CalendarInv, CalendarTypes
<1> QED BY <1>1, <1>2, Unsettling

LEMMA Changing ==
  ASSUME CalendarInv,
         \/ \E h \in Changeable, sources \in Archives : Calendar!ChangeSources(h, sources)
         \/ \E h \in Changeable, n \in RowSeconds :
              Calendar!StorePrice(h, n) \/ \E m \in DOMAIN Component : Calendar!StoreL2(h, m, n)
         \/ \E i \in DOMAIN Ranking :
              Calendar!TogglePreset(Ranking[i]) \/ Calendar!DeletePreset(Ranking[i])
  PROVE  CalendarInv'
<1>1. \/ unreported' /\ behind' = behind /\ enabled' = enabled
      \/ behind' /\ \E p \in Presented : enabled' = enabled \union {p} \/ enabled' = enabled \ {p}
  <2>1. ASSUME NEW h, NEW fact, Calendar!Change(h, fact)
        PROVE unreported' /\ behind' = behind /\ enabled' = enabled
    BY <2>1 DEF Calendar!Change
  <2>2. ASSUME NEW p, Calendar!TogglePreset(p) \/ Calendar!DeletePreset(p)
        PROVE behind' /\ (enabled' = enabled \union {p} \/ enabled' = enabled \ {p})
    BY <2>2 DEF Calendar!TogglePreset, Calendar!DeletePreset, Calendar!ChangePreset
  <2> QED BY <2>1, <2>2 DEF Calendar!ChangeSources, Calendar!StorePrice, Calendar!StoreL2, Presented
<1>2. /\ zone' = zone /\ refresh' = refresh /\ shown' = shown /\ applied' = applied
      /\ date' = date
  BY DEF Calendar!ChangeSources, Calendar!StorePrice, Calendar!StoreL2, Calendar!Change,
         Calendar!TogglePreset, Calendar!DeletePreset, Calendar!ChangePreset, Calendar!pageVars
<1>3. ~Settled'
  BY <1>1 DEF Settled
<1>4. date' \in Dates \cup {NoDate} /\ enabled' \subseteq Presented
  <2>1. enabled \subseteq Presented /\ date \in Dates \cup {NoDate}
    BY DEF CalendarInv, CalendarTypes
  <2> QED BY <1>1, <1>2, <2>1
<1>5. behind' \/ (behind' = behind /\ enabled' = enabled)
  BY <1>1
<1> QED BY <1>2, <1>3, <1>4, <1>5, Unsettling

(* A step of a load changes only what the load has, and may end it.          *)
LEMMA LoadStep ==
  ASSUME CalendarInv, zone' = zone, facts' = facts, enabled' = enabled, unreported' = unreported,
         date' = date, applied' = applied, shown' = shown, CalendarTypes', Loading',
         refresh'.step = "idle" => failed',
         refresh'.step = "loaded" => IsWindow(refresh'.calendar.window)
  PROVE  CalendarInv'
<1>1. Shown'
  BY DEF Shown
<1>2. WindowTypes'
  BY DEF CalendarInv, WindowTypes, IsWindow, HandedOver, Calendar!Hours
<1> QED BY <1>1, <1>2 DEF CalendarInv

LEMMA LoadsOf ==
  ASSUME NEW d
  PROVE  Calendar!LoadOf(d) = [step |-> "preset", pending |-> FALSE, date |-> d, preset |-> Null,
                               sources |-> Null, l2 |-> Null, calendar |-> Null]
<1>1. PICK r : r = [step |-> "idle", pending |-> FALSE, date |-> Null, preset |-> Null,
                    sources |-> Null, l2 |-> Null, calendar |-> Null]
  OBVIOUS
<1>2. Calendar!LoadOf(d) = [r EXCEPT !.step = "preset", !.date = d]
  BY <1>1 DEF Calendar!LoadOf, Calendar!NoRefresh
<1>4. PICK q : q = [r EXCEPT !.step = "preset", !.date = d]
  OBVIOUS
<1>5. q = [step |-> "preset", pending |-> FALSE, date |-> d, preset |-> Null,
           sources |-> Null, l2 |-> Null, calendar |-> Null]
  BY <1>1, <1>4
<1> QED BY <1>2, <1>4, <1>5

LEMMA Beginning == ASSUME CalendarInv, Calendar!BeginRefresh PROVE CalendarInv'
<1>1. /\ zone' = zone /\ facts' = facts /\ enabled' = enabled /\ unreported' = unreported /\ behind' = behind
      /\ date' = date /\ applied' = applied /\ shown' = shown
  BY DEF Calendar!BeginRefresh, Calendar!worldVars
<1>2. CASE refresh.step # "idle"
  <2>1. refresh' = [refresh EXCEPT !.pending = TRUE]
    BY <1>2 DEF Calendar!BeginRefresh
  <2>2. PICK r : r = refresh'
    OBVIOUS
  <2>3. r = [step |-> refresh.step, pending |-> TRUE, date |-> refresh.date, preset |-> refresh.preset,
             sources |-> refresh.sources, l2 |-> refresh.l2, calendar |-> refresh.calendar]
    BY <2>1, <2>2 DEF CalendarInv, CalendarTypes
  <2>4. CalendarTypes'
    BY <1>1, <2>2, <2>3 DEF CalendarInv, CalendarTypes
  <2>5. Loading'
    <3>1. ASSUME NEW d \in Dates, refresh'.date = d
          PROVE  /\ refresh'.pending
                 /\ refresh'.step \in {"sources", "l2", "price"} =>
                      /\ Calendar!HasBounds(d)'
                      /\ ~behind' => enabled' # {} /\ refresh'.preset = Ranking[Calendar!Preferred']
      BY <1>1, <2>2, <2>3, <3>1, SameDays, SamePreferred DEF CalendarInv, Loading
    <3> QED BY <3>1 DEF Loading
  <2>6. IsWindow(refresh.calendar.window) \/ refresh.step # "loaded"
    BY DEF CalendarInv, WindowTypes
  <2> QED BY <1>1, <1>2, <2>2, <2>3, <2>4, <2>5, <2>6, LoadStep
<1>3. CASE refresh.step = "idle" /\ date = NoDate
  <2>1. failed' /\ refresh' = refresh
    BY <1>3 DEF Calendar!BeginRefresh
  <2>2. CalendarTypes'
    BY <1>1, <2>1 DEF CalendarInv, CalendarTypes
  <2>3. Loading'
    BY <1>3, <2>1 DEF Loading
  <2> QED BY <1>1, <1>3, <2>1, <2>2, <2>3, LoadStep
<1>4. CASE refresh.step = "idle" /\ date # NoDate
  <2>1. refresh' = Calendar!LoadOf(date)
    BY <1>4 DEF Calendar!BeginRefresh
  <2>2. PICK r : r = refresh'
    OBVIOUS
  <2>3. r = [step |-> "preset", pending |-> FALSE, date |-> date, preset |-> Null,
             sources |-> Null, l2 |-> Null, calendar |-> Null]
    BY <2>1, <2>2, LoadsOf
  <2>4. CalendarTypes'
    BY <1>1, <1>4, <2>2, <2>3 DEF CalendarInv, CalendarTypes, Steps
  <2>5. Loading'
    BY <2>2, <2>3 DEF Loading
  <2> QED BY <1>1, <2>2, <2>3, <2>4, <2>5, LoadStep
<1> QED BY <1>2, <1>3, <1>4

LEMMA PresetRead == ASSUME CalendarInv, Calendar!ReadPreset PROVE CalendarInv'
<1>1. /\ zone' = zone /\ facts' = facts /\ enabled' = enabled /\ unreported' = unreported /\ ~behind'
      /\ date' = date /\ applied' = applied /\ shown' = shown
      /\ refresh.step = "preset" /\ Calendar!HasBounds(refresh.date) /\ refresh.date \in Dates
  BY DEF Calendar!ReadPreset, Calendar!Reading, CalendarInv, CalendarTypes
<1>2. PICK r : r = refresh'
  OBVIOUS
<1>3. CASE enabled = {}
  <2>1. r = [refresh EXCEPT !.step = "loaded",
                            !.calendar = [Calendar!NoCalendar EXCEPT !.date = refresh.date]]
    BY <1>2, <1>3 DEF Calendar!ReadPreset, Calendar!Reading
  <2>2. PICK c : c = [Calendar!NoCalendar EXCEPT !.date = refresh.date]
    OBVIOUS
  <2>3. r = [step |-> "loaded", pending |-> refresh.pending, date |-> refresh.date,
             preset |-> refresh.preset, sources |-> refresh.sources, l2 |-> refresh.l2, calendar |-> c]
    BY <2>1, <2>2 DEF CalendarInv, CalendarTypes
  <2>4. CalendarTypes'
    BY <1>1, <1>2, <2>3 DEF CalendarInv, CalendarTypes, Steps
  <2>5. Loading'
    <3>1. CalendarOf(refresh.date) = c
      BY <1>3, <2>2 DEF CalendarOf
    <3>2. ASSUME NEW d \in Dates, refresh.date = d
          PROVE  CalendarOf(d)' = c
      BY <1>1, <3>1, <3>2, SameCalendar
    <3> QED BY <1>1, <1>2, <1>3, <2>3, <3>2 DEF Loading
  <2>6. IsWindow(c.window)
    BY <2>2 DEF IsWindow, Calendar!NoCalendar
  <2> QED BY <1>1, <1>2, <2>3, <2>4, <2>5, <2>6, LoadStep
<1>4. CASE enabled # {}
  <2>1. r = [refresh EXCEPT !.step = "sources", !.preset = Ranking[Calendar!Preferred]]
    BY <1>2, <1>4 DEF Calendar!ReadPreset, Calendar!Reading
  <2>2. PICK p : p = Ranking[Calendar!Preferred]
    OBVIOUS
  <2>3. r = [step |-> "sources", pending |-> refresh.pending, date |-> refresh.date, preset |-> p,
             sources |-> refresh.sources, l2 |-> refresh.l2, calendar |-> refresh.calendar]
    BY <2>1, <2>2 DEF CalendarInv, CalendarTypes
  <2>4. CalendarTypes'
    BY <1>1, <1>2, <2>3 DEF CalendarInv, CalendarTypes, Steps
  <2>5. Loading'
    <3>1. ASSUME NEW d \in Dates, refresh.date = d
          PROVE  Calendar!HasBounds(d)' /\ p = Ranking[Calendar!Preferred']
      BY <1>1, <2>2, <3>1, SameDays, SamePreferred
    <3> QED BY <1>1, <1>2, <1>4, <2>3, <3>1 DEF Loading
  <2> QED BY <1>1, <1>2, <2>3, <2>4, <2>5, LoadStep
<1> QED BY <1>3, <1>4

LEMMA SourcesRead == ASSUME CalendarInv, Calendar!ReadSources PROVE CalendarInv'
<1>1. /\ zone' = zone /\ facts' = facts /\ enabled' = enabled /\ unreported' = unreported /\ behind' = behind
      /\ date' = date /\ applied' = applied /\ shown' = shown /\ requests' = requests
      /\ refresh.step = "sources"
  BY DEF Calendar!ReadSources, Calendar!Reading
<1>2. PICK r : r = refresh'
  OBVIOUS
<1>3. PICK s : s = SourcesOf(refresh.date)
  OBVIOUS
<1>4. r = [refresh EXCEPT !.step = "l2", !.sources = s]
  BY <1>2, <1>3 DEF Calendar!ReadSources, Calendar!Reading, SourcesOf
<1>5. r = [step |-> "l2", pending |-> refresh.pending, date |-> refresh.date,
           preset |-> refresh.preset, sources |-> s, l2 |-> refresh.l2, calendar |-> refresh.calendar]
  BY <1>4 DEF CalendarInv, CalendarTypes
<1>6. CalendarTypes'
  BY <1>1, <1>2, <1>5 DEF CalendarInv, CalendarTypes, Steps
<1>7. Loading'
  <2>1. ASSUME NEW d \in Dates, refresh.date = d
        PROVE  /\ Calendar!HasBounds(d)'
               /\ ~behind' => enabled' # {} /\ refresh.preset = Ranking[Calendar!Preferred']
               /\ SourcesOf(d)' = s
    <3>1. Calendar!HasBounds(d) /\ (~behind => enabled # {} /\ refresh.preset = Ranking[Calendar!Preferred])
      BY <1>1, <2>1 DEF CalendarInv, Loading
    <3> QED BY <1>1, <1>3, <2>1, <3>1, SameDays, SamePreferred, SameCalendar
  <2> QED BY <1>2, <1>5, <2>1 DEF Loading
<1> QED BY <1>1, <1>2, <1>5, <1>6, <1>7, LoadStep

LEMMA L2Read == ASSUME CalendarInv, Calendar!ReadL2 PROVE CalendarInv'
<1>1. /\ zone' = zone /\ facts' = facts /\ enabled' = enabled /\ unreported' = unreported /\ behind' = behind
      /\ date' = date /\ applied' = applied /\ shown' = shown /\ requests' = requests
      /\ refresh.step = "l2"
  BY DEF Calendar!ReadL2, Calendar!Reading
<1>2. PICK r : r = refresh'
  OBVIOUS
<1>3. PICK s : s = L2Of(refresh.date)
  OBVIOUS
<1>4. r = [refresh EXCEPT !.step = "price", !.l2 = s]
  BY <1>2, <1>3 DEF Calendar!ReadL2, Calendar!Reading, L2Of
<1>5. r = [step |-> "price", pending |-> refresh.pending, date |-> refresh.date,
           preset |-> refresh.preset, sources |-> refresh.sources, l2 |-> s, calendar |-> refresh.calendar]
  BY <1>4 DEF CalendarInv, CalendarTypes
<1>6. CalendarTypes'
  BY <1>1, <1>2, <1>5 DEF CalendarInv, CalendarTypes, Steps
<1>7. Loading'
  <2>1. ASSUME NEW d \in Dates, refresh.date = d
        PROVE  /\ Calendar!HasBounds(d)'
               /\ ~behind' => enabled' # {} /\ refresh.preset = Ranking[Calendar!Preferred']
               /\ SourcesOf(d)' = SourcesOf(d) /\ L2Of(d)' = s
               /\ Settled' /\ ~refresh.pending => refresh.sources = SourcesOf(d)
    <3>1. /\ Calendar!HasBounds(d)
          /\ ~behind => enabled # {} /\ refresh.preset = Ranking[Calendar!Preferred]
          /\ Settled /\ ~refresh.pending => refresh.sources = SourcesOf(d)
      BY <1>1, <2>1 DEF CalendarInv, Loading
    <3>2. Settled' <=> Settled
      BY <1>1 DEF Settled
    <3> QED BY <1>1, <1>3, <2>1, <3>1, <3>2, SameDays, SamePreferred, SameCalendar
  <2> QED BY <1>2, <1>5, <2>1 DEF Loading
<1> QED BY <1>1, <1>2, <1>5, <1>6, <1>7, LoadStep

(* What a load builds of what it has read.                                   *)
LEMMA Building ==
  ASSUME NEW d, refresh.date = d
  PROVE  /\ IsWindow(Calendar!Built.window)
         /\ /\ refresh.sources = SourcesOf(d) /\ refresh.l2 = L2Of(d) /\ enabled # {}
            /\ refresh.preset = Ranking[Calendar!Preferred]
            => Calendar!Built = CalendarOf(d)
<1> DEFINE H == Calendar!History(d)
           D == Calendar!HoursOfDate(d)
           Made(h) == Calendar!Classify(refresh.preset, refresh.sources[h], refresh.l2[h], facts[h].price)
<1>1. H \subseteq Calendar!Hours /\ D \subseteq H
  BY DEF Calendar!History, Calendar!HoursOfDate
<1>2. PICK x : x = [h \in H |-> Made(h)]
  OBVIOUS
<1>3. PICK y : y = [h \in D |-> x[h]]
  OBVIOUS
<1>4. Calendar!Built = [date |-> d, preset |-> refresh.preset, states |-> y, window |-> Calendar!NewestWindow(x)]
  BY <1>2, <1>3 DEF Calendar!Built
<1>5. IsWindow(Calendar!NewestWindow(x))
  BY <1>1, <1>2, WindowOfHours
<1>6. ASSUME refresh.sources = SourcesOf(d), refresh.l2 = L2Of(d), enabled # {},
             refresh.preset = Ranking[Calendar!Preferred]
      PROVE  Calendar!Built = CalendarOf(d)
  <2>1. ASSUME NEW h \in H PROVE Made(h) = StateOf(h)
    <3>1. refresh.sources[h] = facts[h].sources /\ refresh.l2[h] = facts[h].l2
      BY <1>6 DEF SourcesOf, L2Of
    <3> QED BY <1>6, <3>1 DEF StateOf
  <2> HIDE DEF Made
  <2>2. x = [h \in H |-> StateOf(h)]
    BY <1>2, <2>1
  <2>3. y = [h \in D |-> StateOf(h)]
    BY <1>1, <1>3, <2>2
  <2>4. CalendarOf(d) = [date |-> d, preset |-> refresh.preset, states |-> y, window |-> Calendar!NewestWindow(x)]
    BY <1>6, <2>2, <2>3 DEF CalendarOf
  <2> QED BY <1>4, <2>4
<1>7. Calendar!Built.window = Calendar!NewestWindow(x)
  BY <1>4
<1> QED BY <1>5, <1>6, <1>7

LEMMA PricesRead == ASSUME CalendarInv, Calendar!ReadPrices PROVE CalendarInv'
<1>1. /\ zone' = zone /\ facts' = facts /\ enabled' = enabled /\ unreported' = unreported /\ behind' = behind
      /\ date' = date /\ applied' = applied /\ shown' = shown /\ requests' = requests
      /\ refresh.step = "price"
  BY DEF Calendar!ReadPrices, Calendar!Reading
<1>2. PICK r : r = refresh'
  OBVIOUS
<1>3. PICK c : c = Calendar!Built
  OBVIOUS
<1>4. PICK q : q = Calendar!LoadOf(refresh.date)
  OBVIOUS
<1>5. r = [q EXCEPT !.step = "loaded", !.calendar = c, !.pending = refresh.pending]
  BY <1>2, <1>3, <1>4 DEF Calendar!ReadPrices, Calendar!Reading
<1>6. r = [step |-> "loaded", pending |-> refresh.pending, date |-> refresh.date, preset |-> Null,
           sources |-> Null, l2 |-> Null, calendar |-> c]
  <2>1. q = [step |-> "preset", pending |-> FALSE, date |-> refresh.date, preset |-> Null,
             sources |-> Null, l2 |-> Null, calendar |-> Null]
    BY <1>4, LoadsOf
  <2> QED BY <1>5, <2>1
<1>7. CalendarTypes'
  BY <1>1, <1>2, <1>6 DEF CalendarInv, CalendarTypes, Steps
<1>8. Loading'
  <2>1. ASSUME NEW d \in Dates, refresh.date = d, Settled, ~refresh.pending
        PROVE  c = CalendarOf(d)' /\ Calendar!HasBounds(d)'
    <3>1. /\ Calendar!HasBounds(d) /\ refresh.sources = SourcesOf(d) /\ refresh.l2 = L2Of(d)
          /\ enabled # {} /\ refresh.preset = Ranking[Calendar!Preferred]
      BY <1>1, <2>1 DEF CalendarInv, Loading, Settled
    <3>2. c = CalendarOf(d)
      BY <1>3, <2>1, <3>1, Building
    <3> QED BY <1>1, <3>1, <3>2, SameDays, SameCalendar
  <2>2. Settled' <=> Settled
    BY <1>1 DEF Settled
  <2> QED BY <1>2, <1>6, <2>1, <2>2 DEF Loading
<1>9. IsWindow(c.window)
  BY <1>3, Building
<1> QED BY <1>1, <1>2, <1>6, <1>7, <1>8, <1>9, LoadStep

LEMMA Finishing == ASSUME CalendarInv, Calendar!FinishLoad PROVE CalendarInv'
<1>1. /\ zone' = zone /\ facts' = facts /\ enabled' = enabled /\ unreported' = unreported /\ behind' = behind
      /\ date' = date /\ applied' = applied /\ requests' = requests
      /\ refresh.step = "loaded" /\ refresh.date \in Dates
  BY DEF Calendar!FinishLoad, Calendar!worldVars, CalendarInv, CalendarTypes
<1>2. PICK r : r = refresh'
  OBVIOUS
<1>3. PICK q : q = Calendar!NoRefresh
  OBVIOUS
<1>4. q = [step |-> "idle", pending |-> FALSE, date |-> Null, preset |-> Null,
           sources |-> Null, l2 |-> Null, calendar |-> Null]
  BY <1>3 DEF Calendar!NoRefresh
<1>5. PICK l : l = [step |-> "preset", pending |-> FALSE, date |-> date, preset |-> Null,
                    sources |-> Null, l2 |-> Null, calendar |-> Null]
  OBVIOUS
<1>6. \/ date = NoDate /\ failed' /\ r = q /\ shown' = shown
      \/ date # NoDate /\ date # refresh.date /\ r = l /\ shown' = shown
      \/ date # NoDate /\ date = refresh.date /\ shown' = refresh.calendar
           /\ ((refresh.pending /\ r = l) \/ (~refresh.pending /\ r = q))
  <2>1. Calendar!LoadOf(date) = l
    BY <1>5, LoadsOf
  <2> QED BY <1>2, <1>3, <2>1 DEF Calendar!FinishLoad, Calendar!Publish
<1>7. CalendarTypes'
  BY <1>1, <1>2, <1>4, <1>5, <1>6 DEF CalendarInv, CalendarTypes, Steps
<1>8. Loading'
  BY <1>2, <1>4, <1>5, <1>6 DEF Loading
<1>9. WindowTypes'
  <2>1. IsWindow(shown.window) /\ IsWindow(refresh.calendar.window)
    BY <1>1 DEF CalendarInv, WindowTypes
  <2>2. refresh'.step # "loaded"
    BY <1>2, <1>4, <1>5, <1>6
  <2>3. IsWindow(shown'.window)
    BY <1>6, <2>1
  <2> QED BY <1>1, <2>2, <2>3 DEF CalendarInv, WindowTypes, IsWindow, HandedOver, Calendar!Hours
<1>10. Shown'
  <2> SUFFICES ASSUME Settled', r.step = "idle", ~failed'
               PROVE  /\ date \in Dates
                      /\ \A d \in Dates : date = d =>
                           shown' = CalendarOf(d)' /\ (enabled' # {} => Calendar!HasBounds(d)')
    BY <1>1, <1>2 DEF Shown
  <2>1. date = refresh.date /\ shown' = refresh.calendar /\ ~refresh.pending
    BY <1>5, <1>6
  <2>2. Settled
    BY <1>1 DEF Settled
  <2>3. ASSUME NEW d \in Dates, date = d
        PROVE  shown' = CalendarOf(d)' /\ (enabled' # {} => Calendar!HasBounds(d)')
    <3>1. refresh.calendar = CalendarOf(d) /\ (enabled # {} => Calendar!HasBounds(d))
      BY <1>1, <2>1, <2>2, <2>3 DEF CalendarInv, Loading
    <3> QED BY <1>1, <2>1, <3>1, SameDays, SameCalendar
  <2> QED BY <1>1, <2>1, <2>3
<1> QED BY <1>7, <1>8, <1>9, <1>10 DEF CalendarInv

LEMMA Failing == ASSUME CalendarInv, Calendar!FailLoad PROVE CalendarInv'
<1>1. /\ zone' = zone /\ facts' = facts /\ enabled' = enabled /\ unreported' = unreported /\ behind' = behind
      /\ date' = date /\ applied' = applied /\ shown' = shown /\ failed'
  BY DEF Calendar!FailLoad, Calendar!worldVars
<1>2. PICK q : q = Calendar!NoRefresh
  OBVIOUS
<1>3. q = [step |-> "idle", pending |-> FALSE, date |-> Null, preset |-> Null,
           sources |-> Null, l2 |-> Null, calendar |-> Null]
  BY <1>2 DEF Calendar!NoRefresh
<1>4. refresh' = q
  BY <1>2 DEF Calendar!FailLoad
<1>5. CalendarTypes'
  BY <1>1, <1>3, <1>4 DEF CalendarInv, CalendarTypes, Steps
<1>6. Loading'
  BY <1>3, <1>4 DEF Loading
<1>7. refresh'.step = "idle"
  BY <1>3, <1>4
<1> QED BY <1>1, <1>5, <1>6, <1>7, LoadStep

LEMMA HandingOff ==
  ASSUME CalendarInv, NEW longest \in RangeLimits, Calendar!HandOff(longest)
  PROVE  CalendarInv'
<1>1. /\ zone' = zone /\ facts' = facts /\ enabled' = enabled /\ unreported' = unreported /\ behind' = behind
      /\ date' = date /\ refresh' = refresh /\ shown' = shown /\ failed' = failed /\ requests' = requests
      /\ shown.window # Null
  BY DEF Calendar!HandOff, Calendar!worldVars
<1>2. PICK a : a = applied'
  OBVIOUS
<1>3. a = [preset |-> shown.preset, window |-> shown.window, limit |-> longest,
           range |-> HandedOver(shown.window, longest)]
  BY <1>2 DEF Calendar!HandOff, HandedOver
<1>4. CalendarTypes'
  BY <1>1 DEF CalendarInv, CalendarTypes
<1>5. Settled' <=> Settled
  BY <1>1 DEF Settled
<1>6. Loading'
  <2>1. ASSUME NEW d \in Dates
        PROVE  /\ Calendar!HasBounds(d)' = Calendar!HasBounds(d)
               /\ SourcesOf(d)' = SourcesOf(d) /\ L2Of(d)' = L2Of(d) /\ CalendarOf(d)' = CalendarOf(d)
               /\ Calendar!Preferred' = Calendar!Preferred
    BY <1>1, SameDays, SameCalendar, SamePreferred
  <2> QED BY <1>1, <1>5, <2>1 DEF CalendarInv, Loading
<1>7. Shown'
  <2>1. ASSUME NEW d \in Dates
        PROVE  Calendar!HasBounds(d)' = Calendar!HasBounds(d) /\ CalendarOf(d)' = CalendarOf(d)
    BY <1>1, SameDays, SameCalendar
  <2>2. Calendar!NoCalendar' = Calendar!NoCalendar
    BY DEF Calendar!NoCalendar
  <2> QED BY <1>1, <1>5, <2>1, <2>2 DEF CalendarInv, Shown
<1>8. WindowTypes'
  <2>1. IsWindow(shown.window) /\ (refresh.step = "loaded" => IsWindow(refresh.calendar.window))
    BY DEF CalendarInv, WindowTypes
  <2>2. a.window # Null /\ IsWindow(a.window) /\ a.limit \in RangeLimits /\ a.range = HandedOver(a.window, a.limit)
    BY <1>1, <1>3, <2>1
  <2> QED BY <1>1, <1>2, <2>1, <2>2 DEF WindowTypes, IsWindow, HandedOver, Calendar!Hours
<1> QED BY <1>4, <1>6, <1>7, <1>8 DEF CalendarInv

LEMMA CalendarGoesOn == CalendarInv /\ [Calendar!Step]_Calendar!calendarVars => CalendarInv'
<1> SUFFICES ASSUME CalendarInv, [Calendar!Step]_Calendar!calendarVars PROVE CalendarInv'
  OBVIOUS
<1>1. CASE Calendar!Step
  BY <1>1, Asking, Changing, Beginning, PresetRead, SourcesRead, L2Read, PricesRead, Finishing, Failing,
     HandingOff DEF Calendar!Step
<1>2. CASE UNCHANGED Calendar!calendarVars
  <2>1. /\ zone' = zone /\ facts' = facts /\ enabled' = enabled /\ unreported' = unreported
        /\ behind' = behind /\ date' = date /\ refresh' = refresh /\ shown' = shown /\ failed' = failed
        /\ requests' = requests /\ applied' = applied
    BY <1>2 DEF Calendar!calendarVars, Calendar!worldVars, Calendar!pageVars
  <2>2. Settled' <=> Settled
    BY <2>1 DEF Settled
  <2>3. ASSUME NEW d \in Dates
        PROVE  /\ Calendar!HasBounds(d)' = Calendar!HasBounds(d)
               /\ SourcesOf(d)' = SourcesOf(d) /\ L2Of(d)' = L2Of(d) /\ CalendarOf(d)' = CalendarOf(d)
    BY <2>1, SameDays, SameCalendar
  <2>4. Calendar!Preferred' = Calendar!Preferred
    BY <2>1, SamePreferred
  <2>5. CalendarTypes'
    BY <2>1 DEF CalendarInv, CalendarTypes
  <2>6. Loading'
    BY <2>1, <2>2, <2>3, <2>4 DEF CalendarInv, Loading
  <2>7. Shown'
    BY <2>1, <2>2, <2>3 DEF CalendarInv, Shown, Calendar!NoCalendar
  <2>8. WindowTypes'
    BY <2>1 DEF CalendarInv, WindowTypes, IsWindow, HandedOver, Calendar!Hours
  <2> QED BY <2>5, <2>6, <2>7, <2>8 DEF CalendarInv
<1> QED BY <1>1, <1>2

(* What a page at rest shows.                                                *)
LEMMA CanBeAnalysed ==
  ASSUME enabled \subseteq Presented, enabled # {}, shown.preset = Ranking[Calendar!Preferred], NEW h
  PROVE  StateOf(h) = "analyzable" <=> Calendar!CanAnalyse(h)
<1>1. PICK p \in Presented : p = Ranking[Calendar!Preferred]
  BY Preferring DEF Presented
<1>2. StateOf(h) = Calendar!Classify(p, facts[h].sources, facts[h].l2, facts[h].price)
  BY <1>1 DEF StateOf
<1>3. StateOf(h) = "analyzable" <=>
        /\ facts[h].price # Null /\ facts[h].price > 0
        /\ \A m \in Markets[p] :
             /\ facts[h].l2[m] # Null /\ facts[h].l2[m] > 0
             /\ Calendar!Cardinality(Markets[p]) > 1 => facts[h].l2[m] = FullHour
  BY <1>2, Analyzable
<1>4. shown.preset = p
  BY <1>1
<1> QED BY <1>3, <1>4 DEF Calendar!CanAnalyse

LEMMA CurrentCalendar ==
  ASSUME CalendarInv
  PROVE  Calendar!CalendarIsCurrent /\ Calendar!WindowIsNewest
<1> SUFFICES ASSUME Calendar!AtRest
             PROVE  Calendar!CalendarIsCurrent /\ Calendar!WindowIsNewest
  BY DEF Calendar!CalendarIsCurrent, Calendar!WindowIsNewest
<1>1. zone \in Zones /\ enabled \subseteq Presented
  BY DEF CalendarInv, CalendarTypes
<1>2. date \in Dates /\ shown = CalendarOf(date) /\ (enabled # {} => Calendar!HasBounds(date))
  <2>1. Settled /\ refresh.step = "idle" /\ ~failed /\ shown # Calendar!NoCalendar
    BY DEF Calendar!AtRest, Settled
  <2>2. date \in Dates
    BY <2>1 DEF CalendarInv, Shown
  <2>3. PICK d \in Dates : d = date
    BY <2>2
  <2>4. shown = CalendarOf(d) /\ (enabled # {} => Calendar!HasBounds(d))
    BY <2>1, <2>3 DEF CalendarInv, Shown
  <2> QED BY <2>2, <2>3, <2>4
<1>3. PICK d \in Int : d = date
  BY <1>2, CalendarAssumption
<1>4. CASE enabled = {}
  <2>1. PICK c : c = [Calendar!NoCalendar EXCEPT !.date = d]
    OBVIOUS
  <2>2. shown = c
    BY <1>2, <1>3, <1>4, <2>1 DEF CalendarOf
  <2>3. c.date = d /\ c.preset = Null
    BY <2>1 DEF Calendar!NoCalendar
  <2> QED BY <1>3, <1>4, <2>2, <2>3 DEF Calendar!CalendarIsCurrent, Calendar!WindowIsNewest
<1>5. CASE enabled # {}
  <2>1. PICK p : p = Ranking[Calendar!Preferred]
    OBVIOUS
  <2>2. PICK s : s = [h \in Calendar!HoursOfDate(d) |-> StateOf(h)]
    OBVIOUS
  <2>3. PICK x : x = [h \in Calendar!History(d) |-> StateOf(h)]
    OBVIOUS
  <2>4. PICK w : w = Calendar!NewestWindow(x)
    OBVIOUS
  <2>5. shown = [date |-> d, preset |-> p, states |-> s, window |-> w]
    BY <1>2, <1>3, <1>5, <2>1, <2>2, <2>3, <2>4 DEF CalendarOf
  <2>6. shown.date = d /\ shown.preset = p /\ shown.states = s /\ shown.window = w
    BY <2>5
  <2>7. \A h : StateOf(h) = Calendar!StateNow(h)
    BY <2>1, <2>6 DEF StateOf, Calendar!StateNow
  <2>8. s = [h \in {h \in Calendar!Hours : Calendar!LocalDate(h * HourTicks) = d} |-> Calendar!StateNow(h)]
    <3>1. Calendar!HoursOfDate(d) = {h \in Calendar!Hours : Calendar!LocalDate(h * HourTicks) = d}
      BY <1>1, <1>2, <1>3, <1>5, HoursOfADate
    <3> QED BY <2>2, <2>7, <3>1
  <2>9. Calendar!CalendarIsCurrent
    BY <1>3, <1>5, <2>1, <2>6, <2>8 DEF Calendar!CalendarIsCurrent
  <2>16. PICK good : good = {h \in DOMAIN x : x[h] = "analyzable"}
    OBVIOUS
  <2>10. DOMAIN x = Calendar!History(d) /\ Calendar!History(d) \subseteq Calendar!Hours
    BY <2>3 DEF Calendar!History
  <2>11. \A h \in Calendar!History(d) : h \in good <=> Calendar!CanAnalyse(h)
    BY <1>1, <1>5, <2>1, <2>3, <2>6, <2>10, <2>16, CanBeAnalysed
  <2>12. /\ w = Null <=> good = {}
         /\ good # {} =>
              /\ w.first .. w.last \subseteq good /\ w.first - 1 \notin good
              /\ \A h \in good : ~(h > w.last)
    BY <2>4, <2>10, <2>16, WindowOfHours
  <2>13. good \subseteq Calendar!History(d)
    BY <2>10, <2>16
  <2>14. IF w = Null THEN \A h \in Calendar!History(d) : ~Calendar!CanAnalyse(h)
         ELSE /\ \A h \in w.first .. w.last : Calendar!CanAnalyse(h)
              /\ \A h \in Calendar!History(d) :
                   h > w.last \/ h = w.first - 1 => ~Calendar!CanAnalyse(h)
    BY <2>11, <2>12, <2>13
  <2>15. Calendar!WindowIsNewest
    BY <1>3, <2>6, <2>14 DEF Calendar!WindowIsNewest
  <2> QED BY <2>9, <2>15
<1> QED BY <1>4, <1>5

(* What the analysis page takes over.                                        *)
LEMMA NewestHandoff ==
  ASSUME CalendarInv
  PROVE  Calendar!HandoffIsNewest
<1> SUFFICES ASSUME applied # Null PROVE Calendar!HandoffIsNewest
  BY DEF Calendar!HandoffIsNewest
<1>1. PICK a, b, longest \in Nat :
        /\ a = applied.window.first /\ b = applied.window.last /\ longest = applied.limit
        /\ a \in Calendar!Hours /\ b \in Calendar!Hours /\ a =< b
        /\ applied.range = Calendar!FitHandoff(a * HourTicks, (b + 1) * HourTicks - 1, longest)
  <2>1. applied.limit \in Nat
    BY CalendarAssumption DEF CalendarInv, WindowTypes
  <2>2. IsWindow(applied.window) /\ applied.window # Null /\ applied.range = HandedOver(applied.window, applied.limit)
    BY DEF CalendarInv, WindowTypes
  <2>3. Calendar!Hours \subseteq Nat
    BY TicksOfHours
  <2> QED BY <2>1, <2>2, <2>3 DEF IsWindow, HandedOver
<1> DEFINE n == HourTicks
           covered == {t \in Calendar!Ticks : Calendar!FloorToHour(t) \in a .. b}
<1>2. PICK s, e \in Calendar!Ticks : s = a * n /\ e = (b + 1) * n - 1
  BY <1>1, TicksOfHours
<1>3. n \in Nat \ {0} /\ Calendar!Ticks = 0 .. MaxTick /\ MaxTick \in Nat /\ s \in Int /\ e \in Int
  BY <1>2, TicksOfHours
<1>4. s = n * a /\ e = n * b + n - 1 /\ n * a \in Int /\ n * b \in Int
  <2>1. a \in Int /\ b \in Int /\ b + 1 \in Int
    BY <1>1
  <2>2. n * a \in Int /\ n * b \in Int /\ n * (b + 1) = n * b + n
    BY <1>3, <2>1, Times
  <2>3. a * n = n * a /\ (b + 1) * n = n * (b + 1)
    BY <1>3, <2>1
  <2>4. s = n * a
    BY <1>2, <2>3
  <2>5. e = n * (b + 1) - 1
    BY <1>2, <2>3
  <2>6. e = (n * b + n) - 1
    BY <2>2, <2>5
  <2>7. (n * b + n) - 1 = n * b + n - 1
    BY <1>3, <2>2
  <2> QED BY <2>2, <2>4, <2>6, <2>7
<1>5. s =< e + 1
  <2>1. n * a =< n * b
    <3>1. a \in Int /\ b \in Int /\ a =< b
      BY <1>1
    <3> QED BY <1>3, <3>1, TimesIsMonotone
  <2> QED BY <1>3, <1>4, <2>1
<1>6. covered = s .. e
  <2>1. ASSUME NEW t \in Calendar!Ticks PROVE Calendar!FloorToHour(t) \in a .. b <=> s =< t /\ t =< e
    <3> DEFINE q == t \div n
    <3>1. q \in Int /\ n * q \in Int /\ n * q =< t /\ t < n * q + n /\ t \in Int
      BY <1>3, Floor, Times
    <3>2. Calendar!FloorToHour(t) = q
      BY DEF Calendar!FloorToHour
    <3> HIDE DEF q
    <3>3. q \in a .. b => s =< t /\ t =< e
      <4> SUFFICES ASSUME q \in a .. b PROVE s =< t /\ t =< e
        OBVIOUS
      <4>3. a \in Int /\ b \in Int /\ a =< q /\ q =< b
        BY <1>1
      <4>1. n * a =< n * q
        BY <1>3, <3>1, <4>3, TimesIsMonotone
      <4>2. n * q =< n * b
        BY <1>3, <3>1, <4>3, TimesIsMonotone
      <4> QED BY <1>3, <1>4, <3>1, <4>1, <4>2
    <3>4. s =< t /\ t =< e => q \in a .. b
      <4> SUFFICES ASSUME s =< t, t =< e PROVE q \in a .. b
        OBVIOUS
      <4>1. ~(q < a)
        <5>1. a \in Int
          BY <1>1
        <5>2. q < a => n * q + n =< n * a
          BY <1>3, <3>1, <5>1, Times
        <5> QED BY <1>3, <1>4, <3>1, <5>1, <5>2
      <4>2. ~(b < q)
        <5>1. b \in Int
          BY <1>1
        <5>2. b < q => n * b + n =< n * q
          BY <1>3, <3>1, <5>1, Times
        <5> QED BY <1>3, <1>4, <3>1, <5>1, <5>2
      <4> QED BY <1>1, <3>1, <4>1, <4>2
    <3> QED BY <3>2, <3>3, <3>4
  <2> QED BY <1>2, <1>3, <2>1
<1>7. PICK u, v \in Int : applied.range = <<u, v>> /\ v = e /\ ((u = s /\ e - s + 1 =< longest)
                                          \/ (u = e - longest + 1 /\ ~(e - s + 1 =< longest)))
  <2>1. applied.range = IF e - s + 1 =< longest THEN <<s, e>> ELSE <<e - longest + 1, e>>
    BY <1>1, <1>2 DEF Calendar!FitHandoff
  <2>2. e - longest + 1 \in Int
    BY <1>3
  <2> QED BY <1>3, <2>1, <2>2
<1>8. applied.range[1] = u /\ applied.range[2] = v
  BY <1>7
<1> HIDE DEF covered
<1>9. u .. v \subseteq covered /\ \A t \in covered, w \in u .. v : t > w => t \in u .. v
  BY <1>3, <1>6, <1>7
<1>10. u .. v = covered \/ Calendar!Cardinality(u .. v) = longest
  <2>1. CASE u = s
    BY <1>6, <1>7, <2>1
  <2>2. CASE u = e - longest + 1
    <3>1. Cardinality(u .. v) = IF u > v THEN 0 ELSE v - u + 1
      BY FS_Interval
    <3>4. v - u + 1 = longest
      BY <1>3, <1>7, <2>2
    <3>5. Cardinality(u .. v) = longest
      BY <1>1, <3>1, <3>4
    <3> QED BY <3>5, CountedHours
  <2> QED BY <1>7, <2>1, <2>2
<1> QED BY <1>1, <1>8, <1>9, <1>10 DEF Calendar!HandoffIsNewest, covered

(* What a date and a range ask for.                                          *)
LEMMA RangeHours ==
  ASSUME NEW start \in Calendar!Ticks, NEW end \in Calendar!Ticks, start < end
  PROVE  /\ start \div HourTicks \in Nat /\ (end - 1) \div HourTicks \in Nat
         /\ start \div HourTicks =< (end - 1) \div HourTicks
         /\ Calendar!IntersectingHours(start, end) = (start \div HourTicks) .. ((end - 1) \div HourTicks)
         /\ {Calendar!FloorToHour(t) : t \in start .. end - 1} =
              (start \div HourTicks) .. ((end - 1) \div HourTicks)
<1> DEFINE n == HourTicks
           a == start \div n
           b == (end - 1) \div n
<1>1. n \in Nat \ {0} /\ MaxTick \in Nat /\ Calendar!Ticks = 0 .. MaxTick /\ Calendar!Hours \subseteq Nat
  BY TicksOfHours
<1>2. start \in Nat /\ end - 1 \in Calendar!Ticks /\ end - 1 \in Nat /\ start =< end - 1
  BY <1>1
<1>3. a \in Calendar!Hours /\ b \in Calendar!Hours
  BY <1>2, TicksOfHours
<1>4. /\ n * a =< start /\ start < n * a + n /\ n * b =< end - 1 /\ end - 1 < n * b + n
      /\ n * a \in Int /\ n * b \in Int
  <2>1. a \in Int /\ b \in Int
    BY <1>1, <1>3
  <2>2. n * a \in Int /\ n * b \in Int
    BY <1>1, <2>1, Times
  <2> QED BY <1>1, <1>2, <2>2, Floor
<1>5. a =< b
  BY <1>1, <1>2, FloorIsMonotone
<1>6. Calendar!FloorToHour(start) = a /\ Calendar!FloorToHour(end - 1) = b
  BY DEF Calendar!FloorToHour
<1>7. Calendar!Hours = 0 .. (MaxTick \div n) /\ MaxTick \div n \in Int
  BY <1>1 DEF Calendar!Hours
<1> HIDE DEF a, b
<1>8. Calendar!IntersectingHours(start, end) = a .. b
  <2>1. Calendar!IntersectingHours(start, end) = {h \in Calendar!Hours : a =< h /\ h =< b}
    BY <1>6 DEF Calendar!IntersectingHours
  <2> QED BY <1>1, <1>3, <1>7, <2>1
<1>9. {Calendar!FloorToHour(t) : t \in start .. end - 1} = a .. b
  <2>1. ASSUME NEW t \in start .. end - 1 PROVE Calendar!FloorToHour(t) \in a .. b
    <3>1. start \in Int /\ end - 1 \in Int /\ t \in Int /\ start =< t /\ t =< end - 1
      BY <1>2
    <3>2. a =< t \div n /\ t \div n =< b
      BY <1>1, <3>1, FloorIsMonotone DEF a, b
    <3>3. t \div n \in Int
      BY <1>1, <3>1, Floor
    <3>4. Calendar!FloorToHour(t) = t \div n
      BY DEF Calendar!FloorToHour
    <3> QED BY <1>1, <1>3, <3>2, <3>3, <3>4
  <2>2. ASSUME NEW h \in a .. b PROVE \E t \in start .. end - 1 : Calendar!FloorToHour(t) = h
    <3>1. CASE h = a
      BY <1>2, <1>6, <3>1
    <3>2. CASE h # a
      <4>1. a \in Int /\ b \in Int /\ h \in Int /\ a < h /\ h =< b
        BY <1>1, <1>3, <3>2
      <4>2. n * a + n =< n * h /\ n * h =< n * b /\ n * h \in Int
        BY <1>1, <4>1, Times, TimesIsMonotone
      <4>3. n * h \in start .. end - 1
        BY <1>1, <1>2, <1>4, <4>2
      <4>4. h = (n * h) \div n
        <5>1. n * h =< n * h /\ n * h < n * h + n
          BY <1>1, <4>2
        <5> QED BY <1>1, <4>1, <4>2, <5>1, Floor
      <4>5. Calendar!FloorToHour(n * h) = h
        BY <4>4 DEF Calendar!FloorToHour
      <4> QED BY <4>3, <4>5
    <3> QED BY <3>1, <3>2
  <2> QED BY <2>1, <2>2
<1>10. a \in Nat /\ b \in Nat
  BY <1>1, <1>3
<1> QED BY <1>5, <1>8, <1>9, <1>10 DEF a, b

LEMMA ExactPlan ==
  ASSUME NEW start \in Calendar!Ticks, NEW end \in Calendar!Ticks, start < end
  PROVE  /\ Calendar!IsInjective(Calendar!PlannedFiles(start, end))
         /\ Calendar!ToSet(Calendar!PlannedFiles(start, end)) =
              {Calendar!FloorToHour(t) : t \in start .. end - 1} \X Calendar!ToSet(Universe)
<1>1. PICK a, b \in Nat : a = start \div HourTicks /\ b = (end - 1) \div HourTicks
  BY RangeHours
<1>2. /\ a =< b /\ Calendar!IntersectingHours(start, end) = a .. b
      /\ {Calendar!FloorToHour(t) : t \in start .. end - 1} = a .. b
  BY <1>1, RangeHours
<1>a. /\ Universe \in Seq({Universe[k] : k \in DOMAIN Universe}) /\ Universe # <<>>
      /\ \A j, k \in DOMAIN Universe : Universe[j] = Universe[k] => j = k
  BY CalendarAssumption
<1>3. PICK n \in Nat \ {0} : n = Len(Universe)
  BY <1>a
<1>4. /\ DOMAIN Universe = 1 .. n
      /\ \A j, k \in 1 .. n : Universe[j] = Universe[k] => j = k
  <2>1. DOMAIN Universe = 1 .. n
    BY <1>a, <1>3
  <2> QED BY <1>a, <2>1
<1>5. PICK c \in Nat \ {0} : c = b - a + 1
  BY <1>2
<1>6. Calendar!Cardinality(a .. b) = c
  BY <1>2, <1>5, CountedHours, FS_Interval
<1>7. c * n \in Nat
  OBVIOUS
<1> DEFINE Hour(i) == a + ((i - 1) \div n)
           Place(i) == ((i - 1) % n) + 1
<1>8. PICK f : f = [i \in 1 .. c * n |-> <<Hour(i), Universe[Place(i)]>>]
  OBVIOUS
<1>9. Calendar!PlannedFiles(start, end) = f
  BY <1>1, <1>2, <1>3, <1>6, <1>8 DEF Calendar!PlannedFiles, Calendar!FloorToHour
<1>10. ASSUME NEW i \in 1 .. c * n
       PROVE  /\ Hour(i) \in a .. b /\ Place(i) \in 1 .. n
              /\ i = n * (Hour(i) - a) + Place(i) /\ n * (Hour(i) - a) \in Int
  <2>1. i - 1 \in Int /\ 0 =< i - 1 /\ i - 1 < c * n
    BY <1>7
  <2>2. PICK q \in Int : q = (i - 1) \div n
    BY <2>1, Floor
  <2>3. PICK r \in 0 .. n - 1 : r = (i - 1) % n
    BY <2>1, Floor
  <2>4. i - 1 = n * q + r /\ n * q =< i - 1 /\ i - 1 < n * q + n
    BY <2>1, <2>2, <2>3, Floor
  <2>5. n * q \in Int /\ c \in Int /\ c * n = n * c /\ n * c \in Int
    BY Times
  <2>6. ~(q < 0)
    <3>1. q < 0 => n * q + n =< n * 0
      BY Times
    <3> QED BY <2>1, <2>4, <2>5, <3>1
  <2>7. ~(c =< q)
    <3>1. c =< q => n * c =< n * q
      BY <2>5, TimesIsMonotone
    <3> QED BY <2>1, <2>4, <2>5, <3>1
  <2>8. Hour(i) = a + q /\ Place(i) = r + 1
    BY <2>2, <2>3
  <2>9. a + q \in a .. b /\ r + 1 \in 1 .. n /\ (a + q) - a = q
    BY <1>5, <2>6, <2>7
  <2>10. i = n * q + (r + 1)
    BY <2>1, <2>4, <2>5
  <2> HIDE DEF Hour, Place
  <2> QED BY <2>5, <2>8, <2>9, <2>10
<1>11. ASSUME NEW h \in a .. b, NEW k \in 1 .. n
       PROVE  \E i \in 1 .. c * n : Hour(i) = h /\ Place(i) = k
  <2>1. PICK q \in Nat : q = h - a /\ q < c /\ h = a + q
    BY <1>5
  <2>2. PICK i : i = n * q + k
    OBVIOUS
  <2>3. n * q \in Int /\ n * q + n =< n * c /\ 0 =< n * q /\ n * c \in Int /\ c * n = n * c
    <3>1. n * q \in Int /\ n * q + n =< n * c /\ n * c \in Int
      BY <2>1, Times
    <3>2. n * 0 =< n * q
      BY TimesIsMonotone
    <3> QED BY <3>1, <3>2
  <2>4. i \in 1 .. c * n /\ i - 1 \in Int /\ n * q =< i - 1 /\ i - 1 < n * q + n
    BY <1>7, <2>2, <2>3
  <2>5. q = (i - 1) \div n
    <3>1. PICK s \in Int : s = i - 1
      BY <2>4
    <3>2. q \in Int /\ n * q =< s /\ s < n * q + n
      BY <2>1, <2>4, <3>1
    <3>3. q = s \div n
      BY <3>2, Floor
    <3> QED BY <3>1, <3>3
  <2>6. i - 1 = n * q + ((i - 1) % n) /\ (i - 1) % n \in 0 .. n - 1
    BY <2>4, <2>5, Floor
  <2>7. PICK r \in 0 .. n - 1 : r = (i - 1) % n
    BY <2>6
  <2>8. r + 1 = k
    BY <2>2, <2>3, <2>6, <2>7
  <2>9. Hour(i) = h /\ Place(i) = k
    BY <2>1, <2>5, <2>7, <2>8
  <2> QED BY <2>4, <2>9
<1> HIDE DEF Hour, Place
<1>12. Calendar!IsInjective(f)
  <2> SUFFICES ASSUME NEW i \in 1 .. c * n, NEW j \in 1 .. c * n, f[i] = f[j] PROVE i = j
    BY <1>8 DEF Calendar!IsInjective
  <2>1. Hour(i) = Hour(j) /\ Universe[Place(i)] = Universe[Place(j)]
    BY <1>8
  <2>2. Place(i) \in 1 .. n /\ Place(j) \in 1 .. n
    BY <1>10
  <2>3. Place(i) = Place(j)
    BY <1>4, <2>1, <2>2
  <2>4. i = n * (Hour(i) - a) + Place(i) /\ j = n * (Hour(j) - a) + Place(j)
    BY <1>10
  <2> QED BY <2>1, <2>3, <2>4
<1>13. Calendar!ToSet(f) = (a .. b) \X Calendar!ToSet(Universe)
  <2>1. Calendar!ToSet(f) = {f[i] : i \in 1 .. c * n}
    BY <1>8 DEF Calendar!ToSet
  <2>2. Calendar!ToSet(Universe) = {Universe[k] : k \in 1 .. n}
    BY <1>4 DEF Calendar!ToSet
  <2>3. ASSUME NEW i \in 1 .. c * n PROVE f[i] \in (a .. b) \X Calendar!ToSet(Universe)
    BY <1>8, <1>10, <2>2
  <2>4. ASSUME NEW x \in (a .. b) \X Calendar!ToSet(Universe) PROVE \E i \in 1 .. c * n : f[i] = x
    <3>1. PICK h \in a .. b, k \in 1 .. n : x = <<h, Universe[k]>>
      BY <2>2, <2>4
    <3>2. PICK i \in 1 .. c * n : Hour(i) = h /\ Place(i) = k
      BY <1>11
    <3> QED BY <1>8, <3>1, <3>2
  <2> QED BY <2>1, <2>3, <2>4
<1> QED BY <1>2, <1>9, <1>12, <1>13

LEMMA ExactDatesAndPlans ==
  ASSUME CalendarInv
  PROVE  Calendar!DatesAndPlansAreExact
<1>1. zone \in Zones
  BY DEF CalendarInv, CalendarTypes
<1>2. ASSUME NEW t \in Calendar!Ticks, Calendar!HasBounds(Calendar!LocalDate(t))
      PROVE  /\ Calendar!QueryBounds(Calendar!LocalDate(t))[1] =< Calendar!FloorToHour(t)
             /\ Calendar!FloorToHour(t) < Calendar!QueryBounds(Calendar!LocalDate(t))[2]
  <2>1. DayTicks \in Nat \ {0} /\ Calendar!Ticks = 0 .. MaxTick /\ MaxTick \in Nat
    BY TicksOfHours
  <2>2. zone \in [0 .. MaxTick -> Int]
    BY <1>1, CalendarAssumption
  <2>3. PICK d \in Int : d = Calendar!LocalDate(t)
    BY <2>1, <2>2, Floor DEF Calendar!LocalDate
  <2> QED BY <1>1, <1>2, <2>3, DayHours
<1> QED BY <1>2, ExactPlan DEF Calendar!DatesAndPlansAreExact

(* The calendar is what is so, the window it offers the newest, its handoff  *)
(* the newest part of that, and a date and a range ask for all their hours.  *)
THEOREM CalendarTellsTheTruth == DataSpec => []CalendarIsTruthful
<1>1. DataInit => CalendarInv
  BY CalendarInside, CalendarStarts
<1>2. CalendarInv /\ [DataNext]_<<stage, dataVars>> => CalendarInv'
  BY CalendarInside, CalendarGoesOn
<1>3. CalendarInv => CalendarIsTruthful
  BY CurrentCalendar, NewestHandoff, ExactDatesAndPlans DEF CalendarIsTruthful
<1> QED BY <1>1, <1>2, <1>3, PTL DEF DataSpec
=============================================================================
