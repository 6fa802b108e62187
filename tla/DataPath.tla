------------------------------- MODULE DataPath -------------------------------
(***************************************************************************)
(* Stages of the path of the data to a page. One behaviour is of one stage, *)
(* and the variables of the others rest in an initial state:                 *)
(*   requests: the requests for archives and their limiter;                  *)
(*   run: processing runs, next to what changes the rows they read;          *)
(*   bucket: the publication of hours in a bucket, and its migration;        *)
(*   page: a page that polls the loader and shows what it loaded;            *)
(*   candles: the price candles of adjacent hours from one stream of trades; *)
(*   calendar: the calendar of the hours that are there;                     *)
(*   another: whatever stage a module that extends this one adds.            *)
(***************************************************************************)
EXTENDS Integers, FiniteSets, Sequences

CONSTANTS
  Downloads, Limits, Window, MaxAttempts, Backoff, MaxBackoff, Delays, MaxTime, \* of requests
  RunHours, Digests, Presets, MaxRuns, MaxEvents,                     \* of the run
  Plan, Chain, Contents, Holdings, Chained, Lost, Unknown,            \* of the bucket
  MaxSends, MaxMigrations, MaxUpsets,
  Inputs, Timeframes, MaxLoads, MaxTasks,                             \* of the page
  TradeHours, TradeHourTicks, BucketTicks, TradeRecords, NoCandle, StreamLimit,   \* of candles
  HourTicks, DayTicks, MaxTick, Zones, Ranking, Markets, Component,   \* of the calendar
  FullHour, Worlds, Archives, RowSeconds, Changeable, Dates, NoDate,
  Lookback, RangeLimits, Universe, MaxChanges,
  Null

(* Of requests: a limiter admits something in some time, and a download tries *)
(* at least once.                                                            *)
ASSUME RequestAssumption ==
  /\ Limits \subseteq Nat \ {0} /\ Window \in Nat \ {0} /\ MaxAttempts \in Nat \ {0}
  /\ Null \notin Limits

(* Of the run: its range has hours, and no content is what means no content.  *)
ASSUME RunAssumption ==
  /\ RunHours \subseteq Int /\ IsFiniteSet(RunHours)
  /\ Null \notin Digests /\ \A G \in SUBSET RunHours : Null \notin [G -> Digests]

(* Of the bucket: a plan is a sequence of keys, the worker works on some of    *)
(* them, and no reference is what means none or an unknown one.              *)
ASSUME BucketAssumption ==
  LET keys == {Plan[i] : i \in DOMAIN Plan}
      references == [version : Nat, publication : [artifact : Nat, manifest : Nat]]
  IN /\ Plan \in Seq(keys) /\ Chained \subseteq keys /\ Holdings \subseteq [keys -> Contents \union {Null}]
     /\ Lost \notin Contents /\ Null # Unknown /\ Null \notin references /\ Unknown \notin references

(* Of the page: nothing it handles is what means nothing.                    *)
ASSUME PageAssumption ==
  Null \notin Inputs /\ Null \notin [op : Nat, tf : Timeframes]

(* Of candles: buckets of whole ticks fill an hour, and no candle is what      *)
(* means none.                                                               *)
ASSUME CandleAssumption ==
  /\ TradeHours \subseteq Int /\ TradeHourTicks \in Nat \ {0} /\ BucketTicks \in Nat \ {0}
  /\ TradeHourTicks % BucketTicks = 0
  /\ \A t \in TradeRecords : t.time \in Int /\ t.price \in Int
  /\ NoCandle \notin [open : Int, high : Int, low : Int, close : Int,
                      first : Int \X Nat, last : Int \X Nat, count : Nat]

(* Of the calendar: a day has whole hours' ticks, a midnight that exists once  *)
(* in a zone divides the instants before it from those after it, a preset has *)
(* a market, and no value is what means nothing.                             *)
ASSUME CalendarAssumption ==
  /\ HourTicks \in Nat \ {0} /\ DayTicks \in Nat \ {0} /\ MaxTick \in Nat
  /\ (MaxTick + 1) % HourTicks = 0
  /\ \A offset \in Zones :
       LET local == [t \in 0 .. MaxTick |-> t + offset[t]]
       IN /\ offset \in [0 .. MaxTick -> Int]
          /\ \A t, u \in 0 .. MaxTick :
               local[u] % DayTicks = 0 /\ (\A v \in 0 .. MaxTick : local[v] = local[u] => v = u)
                 => (t < u <=> local[t] < local[u])
  /\ Ranking \in Seq({Ranking[i] : i \in DOMAIN Ranking})
  /\ \A i \in DOMAIN Ranking : IsFiniteSet(Markets[Ranking[i]]) /\ Markets[Ranking[i]] # {}
  /\ FullHour \in Nat \ {0} /\ RangeLimits \subseteq Nat /\ Dates \subseteq Int /\ Lookback \in Nat
  /\ Universe \in Seq({Universe[k] : k \in DOMAIN Universe}) /\ Universe # <<>>
  /\ \A j, k \in DOMAIN Universe : Universe[j] = Universe[k] => j = k
  /\ Null \notin {Ranking[i] : i \in DOMAIN Ranking} /\ Null \notin Dates
  /\ Null \notin [first : Nat, last : Nat]

VARIABLES
  stage,
  now, limit, admissions, queue, sleep, download, granted,
  row, book, price, run, runs, events,
  exclusive, object, origin, pub, remembered, seen, results, migration, journals, upsets,
  loader, page, window, tasks,
  read, accumulators,
  zone, facts, enabled, changes, unreported, behind, date, requests, refresh, shown, failed, applied

requestVars == <<now, limit, admissions, queue, sleep, download, granted>>
runVars == <<row, book, price, run, runs, events>>
bucketVars ==
  <<exclusive, object, origin, pub, remembered, seen, results, migration, journals, upsets>>
pageVars == <<loader, page, window, tasks>>
candleVars == <<read, accumulators>>
calendarVars ==
  <<zone, facts, enabled, changes, unreported, behind, date, requests, refresh, shown, failed,
    applied>>
dataVars == <<requestVars, runVars, bucketVars, pageVars, candleVars, calendarVars>>

Admission == INSTANCE RequestAdmission WITH None <- Null
Processing == INSTANCE ProcessingRun WITH Hours <- RunHours, None <- Null
Bucket ==
  INSTANCE B2Publication WITH
    Sources <- Holdings, source <- origin, MaxAttempts <- MaxSends, MaxRuns <- MaxMigrations
Page == INSTANCE ChartPublication WITH Sources <- Inputs
Candles ==
  INSTANCE TradeCandles WITH
    hours <- accumulators, Targets <- TradeHours, HourTicks <- TradeHourTicks,
    Trades <- TradeRecords
Calendar ==
  INSTANCE AvailabilityCalendar WITH
    Presets <- Ranking, Sources <- Archives, Seconds <- RowSeconds, Limits <- RangeLimits, Nothing <- Null

-----------------------------------------------------------------------------
DataStages == {"requests", "run", "bucket", "page", "candles", "calendar"}

DataInit ==
  /\ Admission!Init /\ Processing!Init /\ Bucket!Init /\ Page!Init
  /\ Candles!Init /\ Calendar!CalendarInit

DataNext ==
  /\ UNCHANGED stage
  /\ \/ /\ stage = "requests" /\ Admission!Next
        /\ UNCHANGED <<runVars, bucketVars, pageVars, candleVars, calendarVars>>
     \/ /\ stage = "run" /\ Processing!Next
        /\ UNCHANGED <<requestVars, bucketVars, pageVars, candleVars, calendarVars>>
     \/ /\ stage = "bucket" /\ Bucket!Next
        /\ UNCHANGED <<requestVars, runVars, pageVars, candleVars, calendarVars>>
     \/ /\ stage = "page" /\ Page!Next
        /\ UNCHANGED <<requestVars, runVars, bucketVars, candleVars, calendarVars>>
     \/ /\ stage = "candles" /\ Candles!Next
        /\ UNCHANGED <<requestVars, runVars, bucketVars, pageVars, calendarVars>>
     \/ /\ stage = "calendar" /\ Calendar!Step
        /\ UNCHANGED <<requestVars, runVars, bucketVars, pageVars, candleVars>>

DataSpec == stage \in DataStages /\ DataInit /\ [][DataNext]_<<stage, dataVars>>

-----------------------------------------------------------------------------
(* No window of time has more requests than the limit, the limiter remembers  *)
(* what it admitted, it sleeps only when it has to, and every attempt of a    *)
(* download is one admission.                                                *)
RequestsAreLimited ==
  stage = "requests" =>
    /\ Admission!WindowIsKept /\ Admission!MemoryIsExact
    /\ Admission!SleepIsNeeded /\ Admission!AttemptsAreAdmitted

(* No hour of a chain completes after an earlier one failed, and a run called *)
(* "ok" leaves nothing of its plan to do; a trade hour is built from the      *)
(* archives it chose, its source row and its price row agree about that, and  *)
(* a default run that meets a row of the hour's own archive meets its own.    *)
RunIsTruthful ==
  stage = "run" =>
    /\ Processing!ChainsStopAtFailure /\ Processing!OkLeavesNothing
    /\ Processing!SelectionHolds /\ Processing!PriceRowsAgree /\ Processing!DefaultRunsAgree

(* A reference that was returned reads as what was published, a single writer *)
(* leaves one content of a key, the reads of one generation agree, and a      *)
(* journal says of its copies and its seeds what is so.                       *)
BucketIsTruthful ==
  stage = "bucket" =>
    /\ Bucket!PinnedIsPublished /\ Bucket!OneContentPerKey
    /\ Bucket!GenerationAgrees /\ Bucket!JournalIsTrue

(* What a page exports is what its browser shows; a page with nothing left to *)
(* poll overlooked no load that succeeded; and a viewport returns with the    *)
(* load it waits for, or to the source it was captured on.                    *)
PageIsTruthful ==
  stage = "page" =>
    Page!ExportIsShown /\ Page!NoSuccessOverlooked /\ Page!ViewportBelongs

(* Each candle is the one its trades determine, every trade is in one hour,   *)
(* and an hour fails only over a conflict of its own.                        *)
CandlesAreTruthful == stage = "candles" => Candles!CandlesAreExact /\ Candles!EveryTradeOnce

(* A page at rest shows the hours of its date as they are and the newest      *)
(* window that can be analysed; the analysis page takes the newest part of it; *)
(* and a date and a range ask for every hour they touch.                      *)
CalendarIsTruthful ==
  stage = "calendar" =>
    /\ Calendar!CalendarIsCurrent /\ Calendar!WindowIsNewest
    /\ Calendar!HandoffIsNewest /\ Calendar!DatesAndPlansAreExact
=============================================================================
