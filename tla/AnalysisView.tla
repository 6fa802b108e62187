----------------------------- MODULE AnalysisView -----------------------------
(***************************************************************************)
(* The loading of a chart: the stored hours of the component markets and of *)
(* the price are read, chunk by chunk, and folded second by second into     *)
(* viewing bars, outage regions and the digest that names the result.       *)
(* Other operations write and delete hours meanwhile, so a read answers any *)
(* content the hour may have.                                               *)
(*                                                                         *)
(* A component market contributes at the seconds at which it is valid; the  *)
(* sum of the contributions is exact.  Price is optional: a price hour that *)
(* cannot be read ends the trust in the price from its first requested      *)
(* second on, and nothing else.  A row the session verified decodes.        *)
(***************************************************************************)
EXTENDS Integers, Sequences, FiniteSets, FiniteSetsExt, SequencesExt

CONSTANTS
    Markets,        \* a preset has some of them as its components
    HourSeconds,
    L2Hours,        \* contents a stored liquidity hour may have
    L2At(_, _),     \* the <<bid, ask>> of a content at an offset, or Null
    PriceHours,     \* contents a stored price hour may have
    PriceAt(_, _),  \* the candle of a content at an offset, Null, or Broken
    Broken,         \* a second called valid that has no candle
    Timeframes,     \* supported bar lengths, increasing, each divides the next
    Scale,          \* a common multiple of the totals: shares are exact
    Requests,       \* closed ranges <<start, end>>, in half seconds
    Asked,          \* timeframes a user asks for; Null is Auto
    MaxBars,        \* bar budgets
    ChunkHours,
    L2Warning, PriceWarning, MaxRegions,
    Null

VARIABLE load

vars == <<load>>

-----------------------------------------------------------------------------
(* The range and the timeframe.                                            *)

(* Each closed endpoint owns the whole second that contains it.              *)
Slots(r) == [from |-> r[1] \div 2, to |-> r[2] \div 2 + 1]

BarCount(from, to, tf) == ((to - 1) \div tf) - (from \div tf) + 1

Fits(tf, from, to, budget) == BarCount(from, to, tf) =< budget

(* The asked timeframe, or the finest that fits; Null refuses the request.   *)
Selected(asked, from, to, budget) ==
    LET Fitting == {i \in DOMAIN Timeframes : Fits(Timeframes[i], from, to, budget)}
    IN  IF asked # Null THEN (IF Fits(asked, from, to, budget) THEN asked ELSE Null)
        ELSE IF Fitting = {} THEN Null ELSE Timeframes[Min(Fitting)]

-----------------------------------------------------------------------------
(* The seconds.                                                            *)

HourOf(e) == e \div HourSeconds
Offset(e) == e % HourSeconds

(* contents: component market -> content or Null, of one hour.               *)
Contributing(contents, e) ==
    {m \in DOMAIN contents : contents[m] # Null /\ L2At(contents[m], Offset(e)) # Null}

Sums(contents, e) ==
    LET C == Contributing(contents, e)
        side(i) == FoldSet(LAMBDA m, sum : sum + L2At(contents[m], Offset(e))[i], 0, C)
    IN  IF C = {} THEN Null ELSE <<side(1), side(2)>>

(* Some but not all of several markets contribute.                           *)
Partial(contents, e) == Contributing(contents, e) \notin {{}, DOMAIN contents}

-----------------------------------------------------------------------------
(* Bars.                                                                   *)

(* Slip: the close is the last extreme.                                      *)
ExtendToExtreme(c, v) ==
    IF c = Null THEN <<v, v, v, v>>
    ELSE IF v > c[2] THEN <<c[1], v, c[3], v>>
    ELSE IF v < c[3] THEN <<c[1], c[2], v, v>>
    ELSE c

Extend(c, v) ==
    IF c = Null THEN <<v, v, v, v>>
    ELSE <<c[1], IF v > c[2] THEN v ELSE c[2], IF v < c[3] THEN v ELSE c[3], v>>

ExtendPrice(c, p) ==
    IF c = Null THEN p
    ELSE <<c[1], IF p[2] > c[2] THEN p[2] ELSE c[2], IF p[3] < c[3] THEN p[3] ELSE c[3], p[4]>>

Empty == [seconds |-> 0, bid |-> Null, ask |-> Null, total |-> Null, delta |-> Null,
          share |-> Null, shared |-> TRUE, price |-> Null]

Add(bar, pair, price) ==
    LET priced == [bar EXCEPT !.seconds = @ + 1,
                              !.price = IF price = Null THEN @ ELSE ExtendPrice(@, price)]
        total == pair[1] + pair[2]
    IN  IF pair = Null THEN priced
        ELSE [priced EXCEPT
                !.bid = Extend(@, pair[1]), !.ask = Extend(@, pair[2]),
                !.total = Extend(@, total), !.delta = Extend(@, pair[1] - pair[2]),
                !.shared = @ /\ total # 0,
                !.share = IF ~bar.shared \/ total = 0 THEN Null
                          ELSE Extend(@, (Scale * pair[1]) \div total)]

Flushed(bucket, tf, bar) ==
    [start |-> bucket * tf, seconds |-> bar.seconds, bid |-> bar.bid, ask |-> bar.ask,
     total |-> bar.total, delta |-> bar.delta, price |-> bar.price, share |-> bar.share]

(* bars: the finished ones, the open bucket and its bar.                     *)
Fold(b, tf, e, pair, price) ==
    LET k == e \div tf
    IN  IF b.bucket = k THEN [b EXCEPT !.bar = Add(@, pair, price)]
        ELSE [bucket |-> k, bar |-> Add(Empty, pair, price),
              done |-> IF b.bucket = Null THEN <<>>
                       ELSE Append(b.done, Flushed(b.bucket, tf, b.bar))]

NoBars == [bucket |-> Null, bar |-> Empty, done |-> <<>>]

BarsOf(b, tf) == Append(b.done, Flushed(b.bucket, tf, b.bar))

-----------------------------------------------------------------------------
(* Outages: runs of seconds longer than a threshold, the first MaxRegions.   *)
NoOutage == [since |-> Null, regions |-> <<>>, truncated |-> FALSE]

CloseRun(o, e, threshold) ==
    IF o.since = Null THEN o
    ELSE IF e - o.since =< threshold THEN [o EXCEPT !.since = Null]
    ELSE IF Len(o.regions) >= MaxRegions THEN [o EXCEPT !.since = Null, !.truncated = TRUE]
    ELSE [o EXCEPT !.since = Null, !.regions = Append(@, <<o.since, e>>)]

(* Slip: the run goes on over a usable second.                               *)
ObserveLate(o, e, usable, threshold) ==
    IF usable THEN CloseRun(o, e + 1, threshold)
    ELSE IF o.since = Null THEN [o EXCEPT !.since = e]
    ELSE o

Observe(o, e, usable, threshold) ==
    IF usable THEN CloseRun(o, e, threshold)
    ELSE IF o.since = Null THEN [o EXCEPT !.since = e]
    ELSE o

-----------------------------------------------------------------------------
(* Loading.                                                                *)

(* The seconds of an hour, one after the other; a second that is valid and   *)
(* has no candle ends the trust in the price.                                *)
Second(l, contents, content, e) ==
    LET pair == Sums(contents, e)
        slot == IF content = Null \/ ~l.tracking THEN Null ELSE PriceAt(content, Offset(e))
        tracking == l.tracking /\ slot # Broken
        price == IF slot = Broken THEN Null ELSE slot
    IN  [l EXCEPT
            !.usable = @ + (IF pair = Null THEN 0 ELSE 1),
            !.partial = @ + (IF Partial(contents, e) THEN 1 ELSE 0),
            !.l2 = Observe(@, e, pair # Null /\ ~Partial(contents, e), L2Warning),
            !.price = IF tracking THEN Observe(@, e, price # Null, PriceWarning) ELSE @,
            !.tracking = tracking,
            !.status = IF slot = Broken THEN "corrupt" ELSE @,
            !.trusted = IF slot = Broken THEN e ELSE @,
            !.bars = Fold(@, l.tf, e, pair, price)]

Distrust(l, status, e) == [l EXCEPT !.tracking = FALSE, !.status = status, !.trusted = e]

(* The price hour as the repository answers: the content of its row, Null,   *)
(* or a failure, "corrupt" when the row does not verify.                     *)
ReadPrice(l, low, high, answer) ==
    IF ~l.tracking \/ answer = Null THEN [load |-> l, content |-> Null]
    ELSE IF answer \in {"failed", "corrupt"}
    THEN [load |-> Distrust(l, answer, low), content |-> Null]
    ELSE LET line == [l EXCEPT !.lines = Append(@, <<"price", low \div HourSeconds, answer>>)]
         IN  [load |-> [line EXCEPT !.found = TRUE], content |-> answer]

(* One hour of the range, with the liquidity rows the chunk read for it.     *)
Hour(l, contents, answer) ==
    LET low == IF l.from > l.hour * HourSeconds THEN l.from ELSE l.hour * HourSeconds
        end == (l.hour + 1) * HourSeconds
        high == IF l.to < end THEN l.to ELSE end
        lined == [l EXCEPT !.lines = Append(@, <<"l2", l.hour, contents>>)]
        read == ReadPrice(lined, low, high, answer)
        seconds == [i \in 1 .. (high - low) |-> low + i - 1]
    IN  [FoldLeft(LAMBDA a, e : Second(a, contents, read.content, e), read.load, seconds)
            EXCEPT !.hour = @ + 1]

LastHour(l) == (l.to - 1) \div HourSeconds

(* What is left of a load once its last hour is folded: the projection, with *)
(* the outcome that completes its digest.                                    *)
Projection(l) ==
    LET l2 == CloseRun(l.l2, l.to, L2Warning)
        price == IF l.tracking THEN CloseRun(l.price, l.to, PriceWarning) ELSE NoOutage
        status == IF l.status # Null THEN l.status ELSE IF l.found THEN "loaded" ELSE "missing"
    IN  [from |-> l.from, to |-> l.to, tf |-> l.tf, maxBars |-> l.budget,
         bars |-> BarsOf(l.bars, l.tf), usable |-> l.usable,
         unusable |-> (l.to - l.from) - l.usable, partial |-> l.partial,
         l2 |-> l2.regions, l2Truncated |-> l2.truncated,
         price |-> price.regions, priceTruncated |-> price.truncated, status |-> status,
         input |-> [from |-> l.from, to |-> l.to, lines |-> l.lines, trusted |-> l.trusted,
                    status |-> status]]

-----------------------------------------------------------------------------
(* A finished projection is made coarser without reading again.            *)
MergeCandles(cs) ==
    [i \in 1 .. 4 |-> CASE i = 1 -> cs[1][1]
                        [] i = 2 -> Max({cs[j][2] : j \in DOMAIN cs})
                        [] i = 3 -> Min({cs[j][3] : j \in DOMAIN cs})
                        [] i = 4 -> Last(cs)[4]]

Present(bars, channel) ==
    LET having == SelectSeq(bars, LAMBDA b : b[channel] # Null)
    IN  [i \in DOMAIN having |-> having[i][channel]]

MergeChannel(bars, channel) ==
    IF Present(bars, channel) = <<>> THEN Null ELSE MergeCandles(Present(bars, channel))

(* Slip: a finer bar without a share is left out.                            *)
MergeShareFiltered(bars) == MergeChannel(bars, "share")

MergeShare(bars) ==
    IF \E i \in DOMAIN bars : bars[i].bid # Null /\ bars[i].share = Null THEN Null
    ELSE MergeChannel(bars, "share")

Merged(bars, start) ==
    [start |-> start, seconds |-> FoldLeft(LAMBDA n, b : n + b.seconds, 0, bars),
     bid |-> MergeChannel(bars, "bid"), ask |-> MergeChannel(bars, "ask"),
     total |-> MergeChannel(bars, "total"), delta |-> MergeChannel(bars, "delta"),
     price |-> MergeChannel(bars, "price"), share |-> MergeShare(bars)]

(* Null when the timeframe is finer, or its bars do not fit the budget.      *)
Coarsen(p, tf, budget) ==
    IF tf % p.tf # 0 \/ ~Fits(tf, p.from, p.to, budget) THEN Null
    ELSE IF tf = p.tf THEN [p EXCEPT !.maxBars = budget]
    ELSE LET first == p.from \div tf
             group(k) == SelectSeq(p.bars, LAMBDA b : b.start \div tf = k)
         IN  [p EXCEPT !.tf = tf, !.maxBars = budget,
                       !.bars = [i \in 1 .. BarCount(p.from, p.to, tf) |->
                                    Merged(group(first + i - 1), (first + i - 1) * tf)]]

-----------------------------------------------------------------------------
Idle == [phase |-> "idle"]

Init == load = Idle

Begin(components, request, asked, budget) ==
    LET s == Slots(request)
        tf == Selected(asked, s.from, s.to, budget)
    IN  /\ load = Idle
        /\ request[1] =< request[2]
        /\ load' = IF tf = Null THEN [phase |-> "refused"]
                   ELSE [phase |-> "loading", components |-> components, from |-> s.from,
                         to |-> s.to, tf |-> tf, budget |-> budget,
                         hour |-> HourOf(s.from), chunkEnd |-> HourOf(s.from),
                         chunk |-> <<>>, lines |-> <<>>, bars |-> NoBars, l2 |-> NoOutage,
                         price |-> NoOutage, tracking |-> TRUE, status |-> Null,
                         found |-> FALSE, trusted |-> s.to, usable |-> 0, partial |-> 0]

Loading == load.phase = "loading" /\ load.hour =< LastHour(load)

(* One session reads the liquidity rows of a chunk of hours; a row that does *)
(* not verify, or a session that fails, ends the whole load.                 *)
ReadChunk ==
    LET end == Min({LastHour(load) + 1, load.hour + ChunkHours})
    IN  /\ Loading
        /\ load.hour = load.chunkEnd
        /\ \/ \E read \in [load.hour .. (end - 1) -> [load.components -> L2Hours \cup {Null}]] :
                load' = [load EXCEPT !.chunk = read, !.chunkEnd = end]
           \/ load' = [phase |-> "failed"]

(* A session of its own reads the price of the hour, which may fail.         *)
ReadHour(answer) ==
    /\ Loading
    /\ load.hour < load.chunkEnd
    /\ load' = Hour(load, load.chunk[load.hour], answer)

Finish ==
    /\ load.phase = "loading" /\ load.hour > LastHour(load)
    /\ load' = [phase |-> "loaded", projection |-> Projection(load)]

(* Stop, or the timeframe or the budget of the finished chart is changed.    *)
Stop ==
    /\ Loading
    /\ load' = [phase |-> "stopped"]

Change(tf, budget) ==
    /\ load.phase = "loaded"
    /\ Coarsen(load.projection, tf, budget) \notin {Null, load.projection}
    /\ load' = [load EXCEPT !.projection = Coarsen(load.projection, tf, budget)]

(* A preset has one component for each of its markets, at least one.         *)
Components == SUBSET Markets \ {{}}

Next ==
    \/ \E c \in Components, r \in Requests, tf \in Asked, n \in MaxBars :
            Begin(c, r, tf, n)
    \/ ReadChunk \/ Finish \/ Stop
    \/ \E a \in PriceHours \cup {Null, "failed", "corrupt"} : ReadHour(a)
    \/ \E tf \in Asked \ {Null}, n \in MaxBars : Change(tf, n)

-----------------------------------------------------------------------------
(* The view an input determines, told without reading order: what a digest   *)
(* names, its lines and its outcome, gives every bar, region and count.      *)

View(in, tf) ==
    LET Seconds == in.from .. (in.to - 1)
        lines(kind, h) == {i \in DOMAIN in.lines : in.lines[i][1] = kind /\ in.lines[i][2] = h}
        line(kind, h) == in.lines[CHOOSE i \in lines(kind, h) : TRUE][3]
        pair == [e \in Seconds |-> Sums(line("l2", HourOf(e)), e)]
        whole == [e \in Seconds |-> pair[e] # Null /\ ~Partial(line("l2", HourOf(e)), e)]
        priceOf == [e \in Seconds |->
            IF e >= in.trusted \/ lines("price", HourOf(e)) = {} THEN Null
            ELSE PriceAt(line("price", HourOf(e)), Offset(e))]
        candle(S, value(_)) ==
            IF S = {} THEN Null
            ELSE <<value(Min(S)), Max({value(e) : e \in S}), Min({value(e) : e \in S}), value(Max(S))>>
        bar(k) ==
            LET B == {e \in Seconds : e \div tf = k}
                V == {e \in B : pair[e] # Null}
                P == {e \in B : priceOf[e] # Null}
                total(e) == pair[e][1] + pair[e][2]
            IN  [start |-> k * tf, seconds |-> Cardinality(B),
                 bid |-> candle(V, LAMBDA e : pair[e][1]), ask |-> candle(V, LAMBDA e : pair[e][2]),
                 total |-> candle(V, total), delta |-> candle(V, LAMBDA e : pair[e][1] - pair[e][2]),
                 share |-> IF \E e \in V : total(e) = 0 THEN Null
                           ELSE candle(V, LAMBDA e : (Scale * pair[e][1]) \div total(e)),
                 price |-> IF P = {} THEN Null
                           ELSE <<priceOf[Min(P)][1], Max({priceOf[e][2] : e \in P}),
                                  Min({priceOf[e][3] : e \in P}), priceOf[Max(P)][4]>>]
        runs(usable, threshold) ==
            {r \in Seconds \X (Seconds \cup {in.to}) :
                /\ r[2] - r[1] > threshold
                /\ \A e \in r[1] .. (r[2] - 1) : ~usable[e]
                /\ r[1] = in.from \/ usable[r[1] - 1]
                /\ r[2] = in.to \/ usable[r[2]]}
        inOrder(R) == SetToSortSeq(R, LAMBDA a, b : a[1] < b[1])
        kept(R) == SubSeq(inOrder(R), 1, Min({MaxRegions, Cardinality(R)}))
        l2Runs == runs(whole, L2Warning)
        trusted == in.status \in {"loaded", "missing"}
        priceRuns == IF trusted THEN runs([e \in Seconds |-> priceOf[e] # Null], PriceWarning)
                     ELSE {}
        first == in.from \div tf
    IN  [bars |-> [i \in 1 .. BarCount(in.from, in.to, tf) |-> bar(first + i - 1)],
         usable |-> Cardinality({e \in Seconds : pair[e] # Null}),
         unusable |-> Cardinality({e \in Seconds : pair[e] = Null}),
         partial |-> Cardinality({e \in Seconds : pair[e] # Null /\ ~whole[e]}),
         l2 |-> kept(l2Runs), l2Truncated |-> Cardinality(l2Runs) > MaxRegions,
         price |-> kept(priceRuns), priceTruncated |-> Cardinality(priceRuns) > MaxRegions]

(* The digest a projection carries names its input: whatever the chunks were *)
(* and whoever wrote between them, the input alone gives the projection, at  *)
(* the timeframe it was loaded at and at every coarser one it was merged to. *)
ViewIsItsInput ==
    load.phase = "loaded" =>
        LET p == load.projection
            v == View(p.input, p.tf)
        IN  /\ \A f \in DOMAIN v : p[f] = v[f]
            /\ (p.input.trusted < p.to) => p.status \in {"failed", "corrupt"}
            /\ BarCount(p.from, p.to, p.tf) =< p.maxBars
=============================================================================
