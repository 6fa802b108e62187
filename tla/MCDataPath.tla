------------------------------ MODULE MCDataPath ------------------------------
(* The small instances of the path of an hour from its archives to its rows.  *)
(* One behaviour is of one stage, and the variables of the others rest in an  *)
(* initial state. To the stages of DataPath it adds:                          *)
(*   replay: the order-book replays of MCReplay;                              *)
(*   rows: the rows of an hour, written, damaged and read;                    *)
(*   chart: the loading of a chart from the rows of its range;                *)
(*   depth: the indexes of a book, and the liquidity of a band of it.          *)
EXTENDS MCReplay, DataPath, TLC

CONSTANTS d1, d2, p1, p2, s1, s2, None, Refused, Broken

VARIABLES
  written, stored, kindOf, damages,
  load,
  standing, live, tops, ranges, observation, changed

replayVars == <<part, feedVars, otherVars, anyVars, binanceVars>>
rowVars == <<written, stored, kindOf, damages>>
depthVars == <<standing, live, tops, ranges, observation, changed>>

-----------------------------------------------------------------------------
(* Trades of two adjacent hours of two buckets each: out of order within a    *)
(* bucket, on the hour boundary, of other hours, and with an id that recurs.  *)
Trade(i, t, p) == [id |-> i, time |-> t, price |-> p]

OfTwoHours ==
  {Trade(1, 3, 1), Trade(2, 4, 2), Trade(2, 4, 3), Trade(3, 5, 1),
   Trade(4, 4, 1), Trade(4, 7, 2), Trade(5, 8, 2), Trade(6, 2, 3)}

-----------------------------------------------------------------------------
(* Decimals of equal value in several spellings, and rows of each kind that   *)
(* hold the same numbers, other numbers, and the spellings of one another.    *)
D(digits, exponent) == [digits |-> digits, exponent |-> exponent]
One == D(<<1>>, 0)
OneToo == D(<<1, 0>>, -1)
Ten == D(<<1, 0>>, 0)

PriceAt(d, n) ==
  [open |-> d, high |-> Ten, low |-> d, close |-> Ten, quality |-> "valid", reason |-> Null,
   count |-> n]
NoPrice ==
  [open |-> Null, high |-> Null, low |-> Null, close |-> Null, quality |-> "no_data",
   reason |-> "no_trades", count |-> 0]
DepthAt(b, a, n) == [bid |-> b, ask |-> a, quality |-> "valid", reason |-> Null, count |-> n]
NoDepth == [bid |-> Null, ask |-> Null, quality |-> "invalid", reason |-> "gap", count |-> 0]

ObservedHours(k) ==
  IF k = "price"
  THEN {<<PriceAt(One, 1), NoPrice>>, <<PriceAt(OneToo, 1), NoPrice>>, <<PriceAt(Ten, 2), NoPrice>>}
  ELSE {<<DepthAt(One, Ten, 1), DepthAt(Ten, D(<<0>>, -2), 1)>>,
        <<DepthAt(OneToo, Ten, 1), DepthAt(Ten, D(<<0>>, 0), 1)>>,
        <<DepthAt(Ten, One, 2), NoDepth>>, <<DepthAt(Ten, Ten, 1), NoDepth>>}

Blocks ==
  INSTANCE HourBlocks WITH
    Slots <- {s1, s2}, TextLimit <- 5, CountLimit <- 3, Hours <- ObservedHours, MaxDamage <- 2,
    Decimals <- {One, OneToo, Ten, D(<<1>>, 1), D(<<1, 0, 1>>, -1), D(<<1, 2>>, -3), D(<<1>>, -1),
                 D(<<0>>, 0), D(<<0>>, -2), D(<<1, 0, 0>>, -4), D(<<1>>, -2)}

-----------------------------------------------------------------------------
(* Hours of two seconds.  A second is valid in both, in one or in no market,  *)
(* has a total of zero, has no trade, or a candle that is broken.             *)
DepthIn(content, offset) ==
  CASE content = "full" -> IF offset = 0 THEN <<1, 3>> ELSE <<2, 2>>
    [] content = "late" -> IF offset = 0 THEN Null ELSE <<0, 0>>
CandleIn(content, offset) ==
  IF offset = 0 THEN <<2, 3, 1, 2>> ELSE IF content = "broken" THEN Broken ELSE <<1, 4, 1, 3>>
Bar(seconds, anchor) == [seconds |-> seconds, anchor |-> anchor]

Chart ==
  INSTANCE BatchBars WITH
    Markets <- {"m1", "m2"}, HourSeconds <- 2, L2Hours <- {"full", "late"}, L2At <- DepthIn,
    PriceHours <- {"whole", "broken"}, PriceAt <- CandleIn, Timeframes <- <<1, 2, 4>>, Scale <- 24,
    Requests <- {<<1, 6>>, <<2, 5>>, <<1, 0>>}, Asked <- {1, 4, Null}, MaxBars <- {2, 4},
    ChunkHours <- 1, L2Warning <- 1, PriceWarning <- 1, MaxRegions <- 1,
    Registry <- <<Bar(1, 0), Bar(2, 0), Bar(7, 4)>>

-----------------------------------------------------------------------------
(* Two hours of one chain.  The last is a seed and may stop being one; the    *)
(* first may be missing; the worker has to do with the last.                  *)
Seed == [checkpoint |-> TRUE, valid |-> TRUE]
NoSeed == [checkpoint |-> FALSE, valid |-> TRUE]

TwoHours == <<p1, p2>>
OneChain == [k \in {p1, p2} |-> d1]
SeedOrNot == {Seed, NoSeed}
LastIsSeed == {p1 :> NoSeed @@ p2 :> Seed, p1 :> Null @@ p2 :> Seed}

-----------------------------------------------------------------------------
(* Hours of two ticks and days of two hours, in a zone of a half hour and in   *)
(* one whose clocks change.  Hours of one market and of two, with all their    *)
(* rows, with a gap in one of them, and with archives only.                  *)
Archive(status, file) == [status |-> status, file |-> file]
There == Archive("downloaded", TRUE)
HourOf(books, trades, l1, l2, p) ==
  [sources |-> [books |-> books, trades |-> trades], l2 |-> [m1 |-> l1, m2 |-> l2], price |-> p]
BooksOf(a, b) == [m1 |-> a, m2 |-> b]
Whole == HourOf(BooksOf(There, There), There, 2, 2, 2)
OfOne == HourOf(BooksOf(There, Null), There, 2, 1, 1)
Bare == HourOf(BooksOf(There, Archive("missing", FALSE)), There, 2, Null, Null)

HalfHour == [t \in 0 .. 13 |-> 1]

HalfHourOrChange ==
  {HalfHour, [t \in 0 .. 13 |-> IF t < 6 THEN 0 ELSE 2], [t \in 0 .. 13 |-> IF t < 7 THEN 2 ELSE 0]}
NewestFirst == <<p2, p1>>
OneAndTwo == p1 :> {"m1"} @@ p2 :> {"m1", "m2"}
FirstIsP1 == [m1 |-> p1, m2 |-> Null]
WithGap == [h \in 0 .. 6 |-> IF h = 3 THEN Bare ELSE Whole]
WithOneMarket == [h \in 0 .. 6 |-> IF h \in {1, 4} THEN OfOne ELSE Whole]
GapOrOneMarket == {WithGap, WithOneMarket}
ThereOrNot ==
  {[books |-> BooksOf(There, There), trades |-> Archive("missing", FALSE)],
   [books |-> BooksOf(There, Null), trades |-> Archive("processed", TRUE)]}
BooksAndTrades == <<"orderbook", "trades">>

-----------------------------------------------------------------------------
(* A book of two prices a side, and changes that remove and re-insert them in  *)
(* another spelling, lock and cross the book and empty its sides.            *)
N(c, e) == [c |-> c, e |-> e]
LevelAt(p, q) == [price |-> p, quantity |-> q]
Change(s, p, q) == [side |-> s, price |-> p, quantity |-> q]
Zero == N(0, -3)

Metrics ==
  INSTANCE DepthMetrics WITH
    Snapshots <- {[bid |-> {LevelAt(N(10, 0), N(1, 0)), LevelAt(N(9, 0), N(25, -2))},
                   ask |-> {LevelAt(N(11, 0), N(1, 0)), LevelAt(N(121, -1), N(2, 0))}]},
    Changes <- {Change("bid", N(100, -1), N(3, 0)), Change("bid", N(10, 0), N(0, 0)),
                Change("bid", N(8, 0), N(15, -1)), Change("bid", N(8, 0), Zero),
                Change("bid", N(9, 0), Zero), Change("bid", N(11, 0), N(1, 1)),
                Change("ask", N(110, -1), N(0, 0)), Change("ask", N(121, -1), Zero),
                Change("ask", N(11, 0), N(75, -2)), Change("ask", N(99, -1), N(1, 0))},
    Bands <- {[lower |-> Zero, upper |-> N(1, -1)], [lower |-> N(10, -2), upper |-> N(2, -1)]},
    HeapFloor <- 2, Precision <- 2, MaxChanges <- 6, Nothing <- Null

-----------------------------------------------------------------------------
PathInit ==
  /\ stage \in DataStages \union {"replay", "rows", "chart", "depth"}
  /\ DataInit
  /\ date = 1 /\ enabled # {p2}
  /\ zone # HalfHour => facts[3] = Whole /\ enabled = {p1, p2}
  /\ stage # "calendar" =>
       /\ enabled = {p1} /\ facts[3] = Bare
       /\ zone = HalfHour
  /\ stage # "bucket" => exclusive
  /\ stage # "bucket" \/ ~exclusive => origin[p1] = Null
  /\ MCInit
  /\ stage # "replay" => part = "feed"
  /\ Blocks!Init
  /\ stage # "rows" =>
       \A s \in {s1, s2} : kindOf[s] = "price" /\ written[s] = <<PriceAt(One, 1), NoPrice>>
  /\ Chart!Init /\ Metrics!Init

(* The sources of a page, the presets of a run and the contents of an archive *)
(* are interchangeable: the first that is met has the first name.            *)
Unmet ==
  {s \in DOMAIN row : /\ row[s].digest = Null
                      /\ \A h \in RunHours : price[h] = Null \/ s[2] \notin DOMAIN price[h]}

FirstNames ==
  /\ stage = "run" /\ runs = 0 => run'.preset # p2
  /\ stage = "run" => \A s \in Unmet : row'[s].digest # d2
  /\ stage = "page" /\ loader.last = Null /\ loader'.last # Null => loader'.last.source = s1

PathNext ==
  \/ /\ DataNext /\ FirstNames
     /\ UNCHANGED <<replayVars, rowVars, load, depthVars>>
  \/ /\ UNCHANGED <<stage, dataVars>>
     /\ \/ /\ stage = "replay" /\ MCNext
           /\ UNCHANGED <<rowVars, load, depthVars>>
        \/ /\ stage = "rows" /\ Blocks!Next
           /\ UNCHANGED <<replayVars, load, depthVars>>
        \/ /\ stage = "chart" /\ Chart!Next
           /\ UNCHANGED <<replayVars, rowVars, depthVars>>
        \/ /\ stage = "depth" /\ Metrics!Next
           /\ UNCHANGED <<replayVars, rowVars, load>>

PathSpec ==
  /\ PathInit
  /\ [][PathNext]_<<stage, dataVars, replayVars, rowVars, load, depthVars>>

-----------------------------------------------------------------------------
(* The price indexes of a book agree with its levels, and an observation of it *)
(* has the exact liquidity of its band.  A row of an hour that can be read      *)
(* reads as it was written, and two rows are equal, byte for byte, exactly when *)
(* they hold the same numbers.                                                *)
ObservationsAreExact ==
  /\ stage = "depth" =>
       Metrics!IndexesAgree /\ Metrics!ObservationIsExact /\ Metrics!IntervalsAreLean
  /\ stage = "rows" => Blocks!RowReadsAsWritten /\ Blocks!EncodingIsCanonical

(* A chart is what the input its digest names determines, at every           *)
(* timeframe it is merged to, and so is each metric drawn from it; and        *)
(* bucketing the seconds in memory gives the bars, the coverage and the range *)
(* that streaming them gives.                                                *)
ChartIsItsInput ==
  stage = "chart" =>
    /\ Chart!ViewIsItsInput /\ Chart!MetricsAreExact
    /\ Chart!BatchAgrees /\ Chart!CoverageIsExact /\ Chart!SnapIsExact

(* Replays of a feed of any order agree, and those of Binance are exact.      *)
AnyReplayIsExact == stage = "replay" => AgreeOnAnything /\ BinanceIsExact
=============================================================================
