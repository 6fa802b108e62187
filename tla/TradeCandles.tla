----------------------------- MODULE TradeCandles -----------------------------
(***************************************************************************)
(* The one-second price candles of adjacent hours, built from one stream of *)
(* trades.                                                                 *)
(*                                                                         *)
(* A trade belongs to the hour of its trade time, whatever archive holds    *)
(* it.  The processing of an hour streams its own archive, and those around *)
(* it on request, in the order of their hours, record by record: here every *)
(* target hour consumes one stream, whatever archives it is read from, in   *)
(* which trades come late, early, repeated, and under an id that already    *)
(* has other content.                                                      *)
(***************************************************************************)
EXTENDS Integers, Sequences, FiniteSets

CONSTANTS
    Targets,        \* target hours, integers
    HourTicks,      \* trade-time ticks of an hour
    BucketTicks,    \* ticks of a one-second bucket
    Trades,         \* records [id, time, price] the archives may hold
    NoCandle,
    StreamLimit     \* bound: records of the stream

Buckets == 0 .. (HourTicks \div BucketTicks) - 1

VARIABLES
    read,       \* the records streamed so far
    hours       \* target -> its accumulator

vars == <<read, hours>>

FreshHour ==
    [seen |-> {}, candles |-> [b \in Buckets |-> NoCandle],
     accepted |-> 0, duplicates |-> 0, outside |-> 0,
     state |-> "open", block |-> NoCandle]

Init ==
    /\ read = <<>>
    /\ hours = [h \in Targets |-> FreshHour]

-----------------------------------------------------------------------------
InHour(h, t) == h * HourTicks =< t.time /\ t.time < (h + 1) * HourTicks

Bucket(h, t) == (t.time - h * HourTicks) \div BucketTicks

(* The order of trades within a candle: trade time, then arrival.            *)
Earlier(j, k) == j[1] < k[1] \/ (j[1] = k[1] /\ j[2] < k[2])

OpenCandle(t, ordinal) ==
    LET key == <<t.time, ordinal>>
    IN  [open |-> t.price, high |-> t.price, low |-> t.price, close |-> t.price,
         first |-> key, last |-> key, count |-> 1]

(* Slip: candles follow the order of arrival.                                *)
ExtendByArrival(c, t, ordinal) ==
    [c EXCEPT !.high = IF t.price > @ THEN t.price ELSE @,
              !.low = IF t.price < @ THEN t.price ELSE @,
              !.close = t.price,
              !.last = <<t.time, ordinal>>,
              !.count = @ + 1]

Extend(c, t, ordinal) ==
    LET key == <<t.time, ordinal>>
        opens == Earlier(key, c.first)
        closes == Earlier(c.last, key)
    IN  [open |-> IF opens THEN t.price ELSE c.open,
         high |-> IF t.price > c.high THEN t.price ELSE c.high,
         low |-> IF t.price < c.low THEN t.price ELSE c.low,
         close |-> IF closes THEN t.price ELSE c.close,
         first |-> IF opens THEN key ELSE c.first,
         last |-> IF closes THEN key ELSE c.last,
         count |-> c.count + 1]

(* The id of a trade was observed with other content.                        *)
Conflicts(a, t) == \E s \in a.seen : s.id = t.id /\ s # t

Accept(h, a, t, ordinal) ==
    LET b == Bucket(h, t)
        c == a.candles[b]
    IN  [a EXCEPT !.seen = @ \cup {t},
                  !.candles[b] = IF c = NoCandle THEN OpenCandle(t, ordinal)
                                 ELSE Extend(c, t, ordinal),
                  !.accepted = @ + 1]

(* Slip: the closing edge belongs to the hour as well.                       *)
ConsumeClosed(h, a, t, ordinal) ==
    IF a.state # "open" THEN a
    ELSE IF ~InHour(h, t) /\ t.time # (h + 1) * HourTicks
         THEN [a EXCEPT !.outside = @ + 1]
    ELSE IF Conflicts(a, t) THEN [a EXCEPT !.state = "failed"]
    ELSE IF t \in a.seen THEN [a EXCEPT !.duplicates = @ + 1]
    ELSE IF InHour(h, t) THEN Accept(h, a, t, ordinal)
    ELSE [a EXCEPT !.seen = @ \cup {t}, !.accepted = @ + 1]

(* One record of the stream.  A record of another hour is counted and        *)
(* otherwise ignored: it is not compared with the ids of this hour.          *)
Consume(h, a, t, ordinal) ==
    IF a.state # "open" THEN a
    ELSE IF ~InHour(h, t) THEN [a EXCEPT !.outside = @ + 1]
    ELSE IF Conflicts(a, t) THEN [a EXCEPT !.state = "failed"]
    ELSE IF t \in a.seen THEN [a EXCEPT !.duplicates = @ + 1]
    ELSE Accept(h, a, t, ordinal)

Read(t) ==
    /\ Len(read) < StreamLimit
    /\ \E h \in Targets : hours[h].state = "open"
    /\ read' = Append(read, t)
    /\ hours' = [h \in Targets |-> Consume(h, hours[h], t, Len(read))]

-----------------------------------------------------------------------------
Traded(a) == {b \in Buckets : a.candles[b] # NoCandle}

Total(a) ==
    LET Sum[S \in SUBSET Traded(a)] ==
            IF S = {} THEN 0
            ELSE LET b == CHOOSE b \in S : TRUE
                 IN  a.candles[b].count + Sum[S \ {b}]
    IN  Sum[Traded(a)]

(* The finished hour: one observation per bucket, invalid without a trade,   *)
(* and its quality summary.                                                  *)
BlockOf(a) ==
    [observations |-> a.candles, valid |-> Cardinality(Traded(a)),
     invalid |-> Cardinality(Buckets \ Traded(a)), total |-> Total(a)]

(* What the construction of an observation refuses.                          *)
Sound(h, b, c) ==
    c # NoCandle =>
        /\ c.count > 0
        /\ c.low =< c.open /\ c.open =< c.high
        /\ c.low =< c.close /\ c.close =< c.high
        /\ c.first[1] =< c.last[1]
        /\ \A k \in {c.first[1], c.last[1]} :
               /\ h * HourTicks + b * BucketTicks =< k
               /\ k < h * HourTicks + (b + 1) * BucketTicks

(* What the construction of the block refuses.                               *)
Accounted(a, block) ==
    /\ a.accepted + a.duplicates + a.outside = Len(read)
    /\ block.total = a.accepted
    /\ block.valid + block.invalid = Cardinality(Buckets)

Finish(h) ==
    /\ hours[h].state = "open"
    /\ LET block == BlockOf(hours[h])
           checked == Accounted(hours[h], block)
                      /\ \A b \in Buckets : Sound(h, b, block.observations[b])
       IN  hours' = IF checked
                    THEN [hours EXCEPT ![h].state = "finished", ![h].block = block]
                    ELSE [hours EXCEPT ![h].state = "refused"]
    /\ UNCHANGED read

Next == (\E t \in Trades : Read(t)) \/ (\E h \in Targets : Finish(h))

Spec == Init /\ [][Next]_vars

-----------------------------------------------------------------------------
(* The arrivals an hour stands for: the first of every trade of its time.    *)
Arrivals(h, n) ==
    {i \in 1 .. n : InHour(h, read[i]) /\ \A j \in 1 .. i - 1 : read[j] # read[i]}

(* The candle of a bucket, from the arrivals alone.                          *)
TheCandle(h, b, n) ==
    LET A == {i \in Arrivals(h, n) : Bucket(h, read[i]) = b}
        key(i) == <<read[i].time, i - 1>>
        first == CHOOSE i \in A : \A j \in A \ {i} : Earlier(key(i), key(j))
        last == CHOOSE i \in A : \A j \in A \ {i} : Earlier(key(j), key(i))
    IN  IF A = {} THEN NoCandle
        ELSE [open |-> read[first].price, close |-> read[last].price,
              high |-> read[CHOOSE i \in A : \A j \in A : read[j].price =< read[i].price].price,
              low |-> read[CHOOSE i \in A : \A j \in A : read[j].price >= read[i].price].price,
              first |-> key(first), last |-> key(last), count |-> Cardinality(A)]

(* While an hour reads, and when it has finished, each of its candles is the  *)
(* one its trades determine: the first and the last in the order of trade     *)
(* time and arrival, every trade once, whatever archive brought it, however   *)
(* often, in whatever order, and whatever else the archives hold.             *)
CandlesAreExact ==
    \A h \in Targets :
        /\ hours[h].state = "open" =>
               \A b \in Buckets : hours[h].candles[b] = TheCandle(h, b, Len(read))
        /\ hours[h].state = "finished" =>
               \E n \in 0 .. Len(read) :
                   \A b \in Buckets :
                       hours[h].block.observations[b] = TheCandle(h, b, n)

(* Adjacent hours that read the same archives share their trades out: none is *)
(* lost at the hour boundary, none is in two hours, an hour fails only over a *)
(* trade of its own, and the checks of a finished hour never refuse one.      *)
EveryTradeOnce ==
    /\ \A h \in Targets :
           /\ hours[h].state # "refused"
           /\ hours[h].state = "failed" =>
                  \E i, j \in 1 .. Len(read) :
                      /\ InHour(h, read[i]) /\ InHour(h, read[j])
                      /\ read[i].id = read[j].id /\ read[i] # read[j]
    /\ (\A h \in Targets : hours[h].state = "open") =>
           \A i \in 1 .. Len(read) :
               LET Owners == {h \in Targets : read[i] \in hours[h].seen}
               IN  IF \E h \in Targets : InHour(h, read[i])
                   THEN Cardinality(Owners) = 1
                   ELSE Owners = {}
=============================================================================
