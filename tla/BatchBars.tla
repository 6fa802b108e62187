------------------------------ MODULE BatchBars ------------------------------
(***************************************************************************)
(* The other way to bars: the seconds of a range, all in memory, bucketed   *)
(* at a timeframe with an anchor of its own, each bar with the statistics   *)
(* of its coverage; and the values a chart draws from finished bars.  Both  *)
(* are compared with the streamed view of AnalysisView.                     *)
(***************************************************************************)
EXTENDS AnalysisView

CONSTANT Registry   \* timeframes [seconds, anchor], finest first

-----------------------------------------------------------------------------
(* Timeframes.  A request is in half seconds, everything else in seconds.  *)

(* Slip: an instant before the anchor is rounded towards it.                 *)
FloorTowardsAnchor(half, t) ==
    LET d == half - 2 * t.anchor
        n == IF d < 0 THEN -((-d) \div (2 * t.seconds)) ELSE d \div (2 * t.seconds)
    IN  t.anchor + n * t.seconds

Floor(half, t) == t.anchor + ((half - 2 * t.anchor) \div (2 * t.seconds)) * t.seconds

(* Both bars that hold a closed endpoint are included.                       *)
Snapped(r, t) == [start |-> Floor(r[1], t), end |-> Floor(r[2], t) + t.seconds]

Buckets(s, t) ==
    [i \in 1 .. ((s.end - s.start) \div t.seconds) |->
        [start |-> s.start + (i - 1) * t.seconds, end |-> s.start + i * t.seconds]]

(* The finest that fits the budget, or the coarsest.                         *)
ChartTimeframe(r, budget) ==
    LET Fitting == {i \in DOMAIN Registry : Len(Buckets(Snapped(r, Registry[i]), Registry[i])) =< budget}
    IN  IF Fitting = {} THEN Last(Registry) ELSE Registry[Min(Fitting)]

-----------------------------------------------------------------------------
(* Bars of one channel from its observations, in order of time.            *)

(* o: [at, value], the value Null when invalid; missing seconds have none.   *)
Within(obs, b) == SelectSeq(obs, LAMBDA o : b.start =< o.at /\ o.at < b.end)

(* Slip: an invalid observation does not extend the run of missing seconds.  *)
CountFresh(c, o) ==
    LET gap == o.at - c.cursor
        run == IF o.value # Null THEN 0 ELSE 1
    IN  [cursor |-> o.at + 1, valid |-> c.valid + (IF o.value # Null THEN 1 ELSE 0),
         run |-> run, longest |-> Max({c.longest, c.run + gap, run})]

Count(c, o) ==
    LET gap == o.at - c.cursor
        run == IF o.value # Null THEN 0 ELSE c.run + gap + 1
    IN  [cursor |-> o.at + 1, valid |-> c.valid + (IF o.value # Null THEN 1 ELSE 0),
         run |-> run, longest |-> Max({c.longest, c.run + gap, run})]

Coverage(obs, b) ==
    LET c == FoldLeft(Count, [cursor |-> b.start, valid |-> 0, run |-> 0, longest |-> 0], obs)
    IN  [observed |-> Len(obs), valid |-> c.valid, invalid |-> (b.end - b.start) - c.valid,
         missing |-> (b.end - b.start) - Len(obs),
         longest |-> Max({c.longest, c.run + (b.end - c.cursor)})]

ValidValues(obs) ==
    LET valid == SelectSeq(obs, LAMBDA o : o.value # Null)
    IN  [i \in DOMAIN valid |-> valid[i].value]

Running(values, of(_)) == FoldLeft(LAMBDA c, v : Extend(c, of(v)), Null, values)

(* A liquidity bar is as good as its last second; its candles are of all.    *)
L2Bar(obs, b) ==
    LET inside == Within(obs, b)
        values == ValidValues(inside)
        endpoint == IF inside # <<>> /\ Last(inside).at = b.end - 1 THEN Last(inside).value ELSE Null
    IN  [coverage |-> Coverage(inside, b),
         quality |-> IF endpoint = Null THEN "invalid"
                     ELSE IF Coverage(inside, b).invalid = 0 THEN "valid" ELSE "degraded",
         pair |-> endpoint,
         bid |-> Running(values, LAMBDA v : v[1]), ask |-> Running(values, LAMBDA v : v[2]),
         total |-> Running(values, LAMBDA v : v[1] + v[2]),
         delta |-> Running(values, LAMBDA v : v[1] - v[2])]

PriceBar(obs, b) ==
    LET inside == Within(obs, b)
        values == ValidValues(inside)
    IN  [coverage |-> Coverage(inside, b),
         quality |-> IF values = <<>> THEN "invalid"
                     ELSE IF Coverage(inside, b).invalid = 0 THEN "valid" ELSE "degraded",
         price |-> IF values = <<>> THEN Null ELSE MergeCandles(values)]

-----------------------------------------------------------------------------
(* What a chart draws, one value a bar; Null is a gap.                     *)
MapShare(bar, f(_)) == IF bar.share = Null THEN Null ELSE [i \in 1 .. 4 |-> f(bar.share[i])]

Imbalance(bar) == MapShare(bar, LAMBDA s : 2 * s - Scale)

(* Slip: the high of the bid's share becomes the high of the ask's.          *)
AskShareUnswapped(bar) == MapShare(bar, LAMBDA s : Scale - s)

AskShare(bar) ==
    LET flipped == MapShare(bar, LAMBDA s : Scale - s)
    IN  IF flipped = Null THEN Null ELSE <<flipped[1], flipped[3], flipped[2], flipped[4]>>

Closes(bar) == IF bar.share = Null THEN Null ELSE <<bar.share[4], Scale - bar.share[4]>>

(* The change from the bar before, when both bars have a liquidity.          *)
Changed(bars, i, f(_, _)) ==
    IF i = 1 \/ bars[i].bid = Null \/ bars[i - 1].bid = Null THEN Null
    ELSE f(bars[i - 1], bars[i])

TotalChange(bars, i) == Changed(bars, i, LAMBDA a, b : b.total[4] - a.total[4])
DeltaChange(bars, i) == Changed(bars, i, LAMBDA a, b : b.delta[4] - a.delta[4])
ImbalanceChange(bars, i) ==
    Changed(bars, i, LAMBDA a, b : IF Null \in {a.share, b.share} THEN Null
                                   ELSE 2 * (b.share[4] - a.share[4]))

(* Ratios as <<numerator, denominator>>.                                     *)
TotalChangeRatio(bars, i) ==
    Changed(bars, i, LAMBDA a, b : IF a.total[4] = 0 THEN Null
                                   ELSE <<b.total[4] - a.total[4], a.total[4]>>)
SideChangeRatio(bars, i) ==
    Changed(bars, i, LAMBDA a, b : IF 0 \in {a.bid[4], a.ask[4]} THEN Null
                                   ELSE <<b.bid[4] * a.ask[4] - b.ask[4] * a.bid[4],
                                          a.bid[4] * a.ask[4]>>)

-----------------------------------------------------------------------------
(* Observations of a finished load of one market, from its digest's lines.   *)
Observations(in, kind, valueAt(_, _)) ==
    LET lines == SelectSeq(in.lines, LAMBDA l : l[1] = kind /\ l[3] # Null)
        hour(l) == [i \in 1 .. HourSeconds |->
                       [at |-> l[2] * HourSeconds + i - 1, value |-> valueAt(l[3], i - 1)]]
    IN  FlattenSeq([i \in DOMAIN lines |-> hour(lines[i])])

Alone(in, m) ==
    [in EXCEPT !.lines = [i \in DOMAIN @ |-> IF @[i][1] = "l2" THEN <<"l2", @[i][2], @[i][3][m]>>
                                             ELSE @[i]]]

ComponentsOf(in) == UNION {DOMAIN in.lines[i][3] : i \in {j \in DOMAIN in.lines : in.lines[j][1] = "l2"}}

(* For one market, the bars of the batch are the streamed ones wherever a    *)
(* bucket is whole; a bar is good exactly when every second is, and a run    *)
(* inside a bar that is longer than the threshold lies in a reported region. *)
BatchAgrees ==
    load.phase = "loaded" /\ Cardinality(ComponentsOf(load.projection.input)) = 1 =>
        LET p == load.projection
            m == CHOOSE x \in ComponentsOf(p.input) : TRUE
            obs == Observations(Alone(p.input, m), "l2", L2At)
            prices == Observations(p.input, "price", PriceAt)
            clean == \A i \in DOMAIN prices : prices[i].value # Broken
        IN  \A i \in DOMAIN p.bars :
                LET b == [start |-> p.bars[i].start, end |-> p.bars[i].start + p.tf]
                    whole == p.from =< b.start /\ b.end =< p.to
                    l2 == L2Bar(obs, b)
                    price == PriceBar(prices, b)
                IN  whole =>
                        /\ \A f \in {"bid", "ask", "total", "delta"} : l2[f] = p.bars[i][f]
                        /\ (l2.quality = "valid") = (l2.coverage.valid = p.tf)
                        /\ l2.coverage.longest > L2Warning /\ ~p.l2Truncated =>
                               \E j \in DOMAIN p.l2 : p.l2[j][1] < b.end /\ b.start < p.l2[j][2]
                        /\ p.status \in {"loaded", "missing"} /\ clean =>
                               /\ price.price = p.bars[i].price
                               /\ (price.coverage.longest > PriceWarning /\ ~p.priceTruncated) =>
                                      \E j \in DOMAIN p.price :
                                          p.price[j][1] < b.end /\ b.start < p.price[j][2]

(* The longest run is the longest set of neighbouring seconds without a      *)
(* valid observation.                                                        *)
CoverageIsExact ==
    load.phase = "loaded" =>
        LET p == load.projection
            in == p.input
        IN  \A m \in ComponentsOf(in), i \in DOMAIN p.bars :
                LET obs == Observations(Alone(in, m), "l2", L2At)
                    b == [start |-> p.bars[i].start, end |-> p.bars[i].start + p.tf]
                    valid == {obs[j].at : j \in {k \in DOMAIN obs : obs[k].value # Null}}
                    runs == {r \in (b.start .. b.end) \X (b.start .. b.end) :
                                r[1] =< r[2] /\ (r[1] .. (r[2] - 1)) \cap valid = {}}
                IN  L2Bar(obs, b).coverage.longest = Max({r[2] - r[1] : r \in runs})

(* Each metric of a bar is the candle, or the change, of the same quantity   *)
(* taken second by second.                                                   *)
MetricsAreExact ==
    load.phase = "loaded" =>
        LET p == load.projection
            in == p.input
            line(h) == in.lines[CHOOSE i \in DOMAIN in.lines :
                                    in.lines[i][1] = "l2" /\ in.lines[i][2] = h][3]
            Valid(i) == {e \in in.from .. (in.to - 1) :
                            e \div p.tf = p.bars[i].start \div p.tf /\ Sums(line(HourOf(e)), e) # Null}
            bid(e) == Sums(line(HourOf(e)), e)[1]
            ask(e) == Sums(line(HourOf(e)), e)[2]
            askPart(e) == (Scale * ask(e)) \div (bid(e) + ask(e))
            drawn(V, f(_)) == <<f(Min(V)), Max({f(e) : e \in V}), Min({f(e) : e \in V}), f(Max(V))>>
        IN  \A i \in DOMAIN p.bars :
                LET V == Valid(i)
                    U == IF i = 1 THEN {} ELSE Valid(i - 1)
                    change(f(_)) == IF {} \in {U, V} THEN Null ELSE f(Max(V)) - f(Max(U))
                    shared == V # {} /\ \A e \in V : bid(e) + ask(e) # 0
                IN  /\ AskShare(p.bars[i]) = IF shared THEN drawn(V, askPart) ELSE Null
                    /\ Imbalance(p.bars[i]) =
                           IF shared THEN drawn(V, LAMBDA e : Scale - 2 * askPart(e)) ELSE Null
                    /\ shared => Closes(p.bars[i]) = <<Scale - askPart(Max(V)), askPart(Max(V))>>
                    /\ TotalChange(p.bars, i) = change(LAMBDA e : bid(e) + ask(e))
                    /\ DeltaChange(p.bars, i) = change(LAMBDA e : bid(e) - ask(e))
                    /\ ImbalanceChange(p.bars, i) # Null =>
                           ImbalanceChange(p.bars, i) = change(LAMBDA e : Scale - 2 * askPart(e))
                    /\ TotalChangeRatio(p.bars, i) # Null =>
                           TotalChangeRatio(p.bars, i)[1] = TotalChange(p.bars, i)
                    /\ (SideChangeRatio(p.bars, i) = Null) =
                           (U = {} \/ V = {} \/ bid(Max(U)) = 0 \/ ask(Max(U)) = 0)

(* A snapped range is all the bars that meet the closed request, and no      *)
(* more; the chart's timeframe is the finest whose bars fit.                 *)
SnapIsExact ==
    load = Idle =>
        \A r \in {x \in Requests : x[1] =< x[2]}, i \in DOMAIN Registry :
            LET t == Registry[i]
                Meets(k) == 2 * (t.anchor + k * t.seconds) =< r[2]
                            /\ r[1] < 2 * (t.anchor + (k + 1) * t.seconds)
                Near == -20 .. 20
                buckets == Buckets(Snapped(r, t), t)
            IN  /\ {buckets[j].start : j \in DOMAIN buckets} =
                       {t.anchor + k * t.seconds : k \in {n \in Near : Meets(n)}}
                /\ \A n \in MaxBars :
                       Len(buckets) =< n => ChartTimeframe(r, n).seconds =< t.seconds
=============================================================================
