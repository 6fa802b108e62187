----------------------------- MODULE DepthMetrics -----------------------------
(***************************************************************************)
(* The liquidity of a book within a depth band, and the price indexes it is *)
(* read from.                                                              *)
(*                                                                         *)
(* A replay state keeps its levels in a dictionary per side.  Beside each   *)
(* there are a heap that may hold prices that are gone, the best in front,   *)
(* and the live prices in ascending order.  Prices and quantities are exact *)
(* decimals, coefficient times a power of ten; equal ones differ in         *)
(* spelling, as 10 and 10.0 do, and a dictionary takes them for one key.    *)
(***************************************************************************)
EXTENDS Integers, Sequences, FiniteSets, Bags

LOCAL INSTANCE SequencesExt

CONSTANTS
    Snapshots,      \* side -> set of levels, the content of a snapshot
    Changes,        \* [side, price, quantity]; a quantity of zero removes
    Bands,          \* [lower, upper], fractions of the best price
    HeapFloor,      \* a heap no longer than this is not compacted: 64
    Precision,      \* significant digits of an imbalance
    MaxChanges,     \* bound: changes to a book
    Nothing

VARIABLES
    standing,       \* of the book: "uninitialized", "valid", "invalidated"
    live,           \* side -> its levels [price, quantity]
    tops,           \* side -> bag of prices, the heap
    ranges,         \* side -> its live prices, ascending
    observation,    \* what was observed since the book last changed
    changed         \* number of changes

vars == <<standing, live, tops, ranges, observation, changed>>

Sides == {"bid", "ask"}

-----------------------------------------------------------------------------
(* Exact decimals.                                                         *)
Decimal(c, e) == [c |-> c, e |-> e]
One == Decimal(1, 0)

(* The value in units of 10^-n, for decimals of at most n digits behind the  *)
(* point.                                                                   *)
At(d, n) == IF d.c = 0 THEN 0 ELSE d.c * 10 ^ (d.e + n)
Units(d) == At(d, 5)
Equal(x, y) == Units(x) = Units(y)
Below(x, y) == Units(x) < Units(y)

(* Slip: a zero keeps its scale.                                             *)
PartsOfZero(d) == d

(* The scale of a zero means nothing.                                        *)
Parts(d) == IF d.c = 0 THEN Decimal(0, 0) ELSE d

Product(x, y) == Decimal(Parts(x).c * Parts(y).c, Parts(x).e + Parts(y).e)

Aligned(x, e) == x.c * 10 ^ (x.e - e)

(* x + sign * y.                                                            *)
Combined(x, y, sign) ==
    LET p == Parts(x)
        q == Parts(y)
        e == IF p.e < q.e THEN p.e ELSE q.e
    IN  Decimal(Aligned(p, e) + sign * Aligned(q, e), e)

(* The quotient to so many significant digits, a half to the even digit.     *)
Quotient(n, t) ==
    LET e == IF n.e < t.e THEN n.e ELSE t.e
        a == IF n.c < 0 THEN -Aligned(n, e) ELSE Aligned(n, e)
        b == Aligned(t, e)
        k == CHOOSE i \in 0 .. 6 : /\ a * 10 ^ i >= b * 10 ^ (Precision - 1)
                                   /\ i = 0 \/ a * 10 ^ (i - 1) < b * 10 ^ (Precision - 1)
        whole == (a * 10 ^ k) \div b
        rest == (a * 10 ^ k) % b
        up == 2 * rest > b \/ (2 * rest = b /\ whole % 2 = 1)
        digits == IF up THEN whole + 1 ELSE whole
    IN  IF a = 0 THEN Decimal(0, 0)
        ELSE Decimal(IF n.c < 0 THEN -digits ELSE digits, -k)

-----------------------------------------------------------------------------
(* The indexes of a side.                                                   *)
BisectLeft(prices, p) == Cardinality({i \in 1 .. Len(prices) : Below(prices[i], p)})
BisectRight(prices, p) == Cardinality({i \in 1 .. Len(prices) : ~Below(p, prices[i])})

Level(s, p) == {l \in live[s] : Equal(l.price, p)}
Key(s, p) == (CHOOSE l \in Level(s, p) : TRUE).price

Better(s, p, q) == IF s = "bid" THEN Below(q, p) ELSE Below(p, q)

Ascending(prices) == SetToSortSeq(prices, Below)
PricesOf(levels) == {l.price : l \in levels}

EmptySides == [s \in Sides |-> {}]

Init ==
    /\ standing = "uninitialized"
    /\ live = EmptySides
    /\ tops = [s \in Sides |-> EmptyBag]
    /\ ranges = [s \in Sides |-> <<>>]
    /\ observation = Nothing
    /\ changed = 0

Changing ==
    /\ standing # "failed"
    /\ changed < MaxChanges
    /\ changed' = changed + 1
    /\ observation' = Nothing

(* A complete snapshot, or a checkpoint that is restored.                    *)
Snapshot(levels) ==
    /\ Changing
    /\ standing' = "valid"
    /\ live' = levels
    /\ tops' = [s \in Sides |-> SetToBag(PricesOf(levels[s]))]
    /\ ranges' = [s \in Sides |-> Ascending(PricesOf(levels[s]))]

Invalidate ==
    /\ Changing
    /\ standing' = "invalidated"
    /\ live' = EmptySides
    /\ tops' = [s \in Sides |-> EmptyBag]
    /\ ranges' = [s \in Sides |-> <<>>]

(* Slip: a price that is replaced is indexed again.                          *)
IsNewSpelling(s, p) == \A l \in live[s] : l.price # p

IsNew(s, p) == Level(s, p) = {}

UpsertLevel(c) ==
    /\ Changing
    /\ standing = "valid"
    /\ c.quantity.c # 0
    /\ live' = [live EXCEPT ![c.side] =
           IF Level(c.side, c.price) = {}
           THEN @ \cup {[price |-> c.price, quantity |-> c.quantity]}
           ELSE (@ \ Level(c.side, c.price))
                \cup {[price |-> Key(c.side, c.price), quantity |-> c.quantity]}]
    /\ IF IsNew(c.side, c.price)
       THEN /\ tops' = [tops EXCEPT ![c.side] = @ (+) SetToBag({c.price})]
            /\ ranges' = [ranges EXCEPT ![c.side] =
                   InsertAt(@, BisectRight(@, c.price) + 1, c.price)]
       ELSE UNCHANGED <<tops, ranges>>
    /\ UNCHANGED standing

(* Slip: a heap is never compacted.                                          *)
NeverCompacted(heap, levels) == heap

Compacted(heap, levels) ==
    IF BagCardinality(heap) =< HeapFloor \/ BagCardinality(heap) =< 2 * Cardinality(levels)
    THEN heap ELSE SetToBag(PricesOf(levels))

(* Slip: the position after the price is cleared.                            *)
PositionAfter(prices, p) == BisectRight(prices, p) + 1

Position(prices, p) == BisectLeft(prices, p) + 1

(* The level is gone from the dictionary before its position is looked up.   *)
RemoveLevel(c) ==
    LET s == c.side
        at == Position(ranges[s], c.price)
    IN  /\ Changing
        /\ standing = "valid"
        /\ c.quantity.c = 0
        /\ Level(s, c.price) # {}
        /\ live' = [live EXCEPT ![s] = @ \ Level(s, c.price)]
        /\ IF at > Len(ranges[s]) \/ ~Equal(ranges[s][at], c.price)
           THEN standing' = "failed" /\ UNCHANGED <<tops, ranges>>
           ELSE /\ ranges' = [ranges EXCEPT ![s] = RemoveAt(@, at)]
                /\ tops' = [tops EXCEPT ![s] = Compacted(@, live'[s])]
                /\ UNCHANGED standing

-----------------------------------------------------------------------------
(* Slip: only the first price that is gone is taken from the heap.           *)
PoppedOnce(s) ==
    LET best == {p \in BagToSet(tops[s]) : \A q \in BagToSet(tops[s]) : ~Better(s, q, p)}
        gone == {p \in best : Level(s, p) = {}}
    IN  IF gone = {} THEN tops[s] ELSE tops[s] (-) SetToBag({CHOOSE p \in gone : TRUE})

(* Reading the best price takes from the heap all that is better and gone.   *)
Popped(s) ==
    LET kept == {p \in BagToSet(tops[s]) : \E l \in live[s] : ~Better(s, p, l.price)}
    IN  [p \in kept |-> CopiesIn(p, tops[s])]

(* The best price of a heap, of which there may be several spellings.        *)
Best(s, heap) ==
    IF BagToSet(heap) = {} THEN {Nothing}
    ELSE {p \in BagToSet(heap) : \A q \in BagToSet(heap) : ~Better(s, q, p)}

Structure(bid, ask) ==
    CASE bid = Nothing /\ ask = Nothing -> "empty_both"
      [] bid = Nothing /\ ask # Nothing -> "empty_bid"
      [] bid # Nothing /\ ask = Nothing -> "empty_ask"
      [] OTHER -> CASE Below(ask, bid) -> "crossed"
                    [] Equal(ask, bid) -> "locked"
                    [] OTHER -> "normal"

(* Why a second is not usable, Nothing when it is.                           *)
Reason(bid, ask) ==
    IF standing # "valid" THEN standing
    ELSE IF Structure(bid, ask) = "normal" THEN Nothing ELSE Structure(bid, ask)

(* Inclusive intervals of prices, a fraction of the best price away from it. *)
Intervals(bid, ask, band) ==
    [bid |-> <<Product(bid, Combined(One, band.upper, -1)),
               Product(bid, Combined(One, band.lower, -1))>>,
     ask |-> <<Product(ask, Combined(One, band.lower, 1)),
               Product(ask, Combined(One, band.upper, 1))>>]

(* Slip: the upper end of an interval is not in it.                          *)
Within(prices, interval) ==
    SubSeq(prices, BisectLeft(prices, interval[1]) + 1, BisectLeft(prices, interval[2]))

(* The live prices of an interval, found by bisection.                       *)
Slice(prices, interval) ==
    SubSeq(prices, BisectLeft(prices, interval[1]) + 1, BisectRight(prices, interval[2]))

(* Slip: the total so far is not brought to a finer scale.                   *)
AddUnaligned(sum, term) ==
    IF sum = Nothing THEN term
    ELSE IF term.e < sum.e THEN Decimal(sum.c + term.c, term.e)
    ELSE Decimal(sum.c + Aligned(term, sum.e), sum.e)

(* One more term, at the finer scale of the two.                             *)
Add(sum, term) ==
    IF sum = Nothing THEN term
    ELSE IF term.e < sum.e THEN Decimal(Aligned(sum, term.e) + term.c, term.e)
    ELSE Decimal(sum.c + Aligned(term, sum.e), sum.e)

Notional(s, p) == LET l == CHOOSE l \in Level(s, p) : TRUE IN Product(l.price, l.quantity)

Liquidity(s, interval) ==
    LET prices == Slice(ranges[s], interval)
        sum == FoldLeft(LAMBDA total, p : Add(total, Notional(s, p)), Nothing, prices)
    IN  [liquidity |-> IF sum = Nothing THEN Decimal(0, 0) ELSE sum, levels |-> Len(prices)]

Depth(bid, ask, band) ==
    LET intervals == Intervals(bid, ask, band)
        bids == Liquidity("bid", intervals.bid)
        asks == Liquidity("ask", intervals.ask)
        total == Combined(bids.liquidity, asks.liquidity, 1)
    IN  [intervals |-> intervals, bid |-> bids, ask |-> asks, total |-> total,
         imbalance |-> IF total.c = 0 THEN Nothing
                       ELSE Quotient(Combined(bids.liquidity, asks.liquidity, -1), total)]

(* What the construction of intervals and of a result refuses.               *)
SoundDepth(d) ==
    /\ \A s \in Sides : d.intervals[s][1].c > 0 /\ ~Below(d.intervals[s][2], d.intervals[s][1])
    /\ \A s \in Sides : d[s].liquidity.c >= 0
    /\ d.total.c = 0 \/ (~Below(d.imbalance, Decimal(-1, 0)) /\ ~Below(One, d.imbalance))

(* What the construction of an observation refuses: without a reason it is of *)
(* a usable book and has a depth, with one it has none.                      *)
SoundObservation(o) ==
    IF o.reason # Nothing THEN o.depth = Nothing
    ELSE /\ standing = "valid"
         /\ Structure(o.best.bid, o.best.ask) = "normal"
         /\ SoundDepth(o.depth)
         /\ Equal(o.depth.total, Combined(o.depth.bid.liquidity, o.depth.ask.liquidity, 1))
         /\ (o.depth.total.c = 0) <=> (o.depth.imbalance = Nothing)

(* The observation of a second: of a book that is usable, its depth.         *)
Observe(band) ==
    /\ standing # "failed"
    /\ observation = Nothing
    /\ tops' = [s \in Sides |-> Popped(s)]
    /\ \E bid \in Best("bid", tops'["bid"]), ask \in Best("ask", tops'["ask"]) :
           LET reason == Reason(bid, ask)
               o == [best |-> [bid |-> bid, ask |-> ask], reason |-> reason, band |-> band,
                     depth |-> IF reason = Nothing THEN Depth(bid, ask, band) ELSE Nothing]
           IN  IF SoundObservation(o) THEN observation' = o /\ UNCHANGED standing
               ELSE standing' = "failed" /\ UNCHANGED observation
    /\ UNCHANGED <<live, ranges, changed>>

(* The scan of a band is cancelled; the heaps were read.                     *)
CancelObserve ==
    /\ standing = "valid"
    /\ tops' = [s \in Sides |-> Popped(s)]
    /\ UNCHANGED <<standing, live, ranges, observation, changed>>

Next ==
    \/ \E levels \in Snapshots : Snapshot(levels)
    \/ Invalidate
    \/ \E c \in Changes : UpsertLevel(c) \/ RemoveLevel(c)
    \/ \E band \in Bands : Observe(band)
    \/ CancelObserve
    \/ (changed = MaxChanges \/ standing = "failed") /\ UNCHANGED vars

-----------------------------------------------------------------------------
(* The indexes of a side never diverge from its dictionary: the range index  *)
(* is its prices in order, the heap has each of them, and what the heap has   *)
(* beside them is bounded by the number of levels.                          *)
IndexesAgree ==
    /\ standing # "failed"
    /\ \A s \in Sides :
           /\ Len(ranges[s]) = Cardinality(live[s])
           /\ {Units(p) : p \in ToSet(ranges[s])} = {Units(l.price) : l \in live[s]}
           /\ \A i \in 1 .. Len(ranges[s]) - 1 : Below(ranges[s][i], ranges[s][i + 1])
           /\ {Units(l.price) : l \in live[s]} \subseteq {Units(p) : p \in BagToSet(tops[s])}
           /\ LET n == BagCardinality(tops[s]) - Cardinality(live[s])
              IN  n =< HeapFloor \/ n =< 2 * Cardinality(live[s])

(* The best prices of a side as its levels have them.                        *)
IsBest(s, p) ==
    IF live[s] = {} THEN p = Nothing
    ELSE /\ p # Nothing
         /\ Level(s, p) # {}
         /\ \A l \in live[s] : ~Better(s, l.price, p)

(* The levels of a band: no closer to the best price than its lower and no    *)
(* farther than its upper fraction, both in hundredths, both ends included.  *)
LevelsOf(s, best, band) ==
    LET sign == IF s = "bid" THEN -1 ELSE 1
        edge(f) == At(best, 2) * (100 + sign * At(f, 2))
        low == IF s = "bid" THEN edge(band.upper) ELSE edge(band.lower)
        high == IF s = "bid" THEN edge(band.lower) ELSE edge(band.upper)
    IN  {l \in live[s] : low =< At(l.price, 2) * 100 /\ At(l.price, 2) * 100 =< high}

ValueOf(levels) ==
    FoldLeft(LAMBDA sum, l : sum + At(l.price, 2) * At(l.quantity, 2), 0, SetToSeq(levels))

(* An observation is of the book as it is: the best prices, why it is not     *)
(* usable, and, when it is, the exact value of the levels of its band on each  *)
(* side, with an imbalance of the right sign that is off by half of its last   *)
(* digit at most.                                                          *)
ObservationIsExact ==
    (observation # Nothing) =>
        LET o == observation
            reference(s) == ValueOf(LevelsOf(s, o.best[s], o.band))
        IN  /\ \A s \in Sides : IsBest(s, o.best[s])
            /\ (o.reason = Nothing) <=> /\ standing = "valid"
                                        /\ o.best.bid # Nothing /\ o.best.ask # Nothing
                                        /\ Below(o.best.bid, o.best.ask)
            /\ (o.depth # Nothing) <=> (o.reason = Nothing)
            /\ o.depth # Nothing =>
                 LET d == o.depth
                     difference == reference("bid") - reference("ask")
                     total == reference("bid") + reference("ask")
                 IN  /\ \A s \in Sides :
                          /\ At(d[s].liquidity, 4) = reference(s)
                          /\ d[s].levels = Cardinality(LevelsOf(s, o.best[s], o.band))
                     /\ At(d.total, 4) = total
                     /\ (d.imbalance = Nothing) <=> (total = 0)
                     /\ d.imbalance # Nothing =>
                          LET scale == 10 ^ (-d.imbalance.e)
                              off == d.imbalance.c * total - difference * scale
                          IN  /\ 2 * off =< total
                              /\ -2 * off =< total
                              /\ (d.imbalance.c = 0) <=> (difference = 0)

(* An interval has no more digits than its best price and its fractions.     *)
IntervalsAreLean ==
    (observation # Nothing /\ observation.depth # Nothing) =>
        \A s \in Sides, i \in {1, 2} :
            LET f == IF (s = "bid") <=> (i = 1) THEN observation.band.upper
                     ELSE observation.band.lower
            IN  observation.depth.intervals[s][i].e >= observation.best[s].e + (IF f.c = 0 THEN 0 ELSE f.e)
=============================================================================
