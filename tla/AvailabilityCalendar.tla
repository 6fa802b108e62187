------------------------- MODULE AvailabilityCalendar -------------------------
(***************************************************************************)
(* What is there of each hour, as the fetch page shows it: the calendar of a *)
(* local date, the newest window of hours that can be analysed, its handoff  *)
(* to the analysis page, and the archives a requested range plans.           *)
(*                                                                         *)
(* Time is in ticks, of which HourTicks make an hour of UTC and DayTicks a   *)
(* local day, and hour h begins at tick h * HourTicks. Local time is UTC plus *)
(* the offset of the zone at that instant. A load runs in a worker thread: it *)
(* reads the preset, the source rows and their files, the L2 rows and the     *)
(* price rows one after the other, while others change them.                *)
(***************************************************************************)
EXTENDS Integers, FiniteSets, SequencesExt

CONSTANTS
    HourTicks, DayTicks, MaxTick,
    Zones,          \* offsets of instants, in ticks
    Presets,        \* presets of one base, the newest first
    Markets,        \* preset -> its markets, each of which has rows of its own
    Component,      \* market -> the preset that its rows belong to
    FullHour,       \* valid seconds of an hour without a gap
    Worlds,         \* initial facts of the hours
    Sources,        \* facts of the archives of an hour
    Seconds,        \* valid seconds of rows
    Changeable,     \* the hours whose facts change
    Dates, NoDate,  \* what the date input holds; NoDate cannot be parsed
    Lookback,       \* hours searched before a date for a window
    Limits,         \* the longest range of the analysis page, in ticks
    Nothing,
    Universe,       \* the archives of one hour, in the order they are planned
    MaxChanges

VARIABLES
    zone,
    facts,      \* hour -> its source rows, its L2 rows and its price row
    enabled,    \* the enabled presets
    changes,    \* changes of facts, presets and dates so far
    unreported, \* facts changed in a run that has not completed
    behind,     \* a preset changed after the last load read the presets
    date,       \* what the date input holds
    requests,   \* refreshes asked for and not begun
    refresh,    \* the refresh that runs
    shown,      \* the calendar on the page
    failed,     \* the last load failed
    applied     \* the range the analysis page took over

worldVars == <<zone, facts, enabled, changes, unreported, behind>>
pageVars == <<date, requests, refresh, shown, failed, applied>>
calendarVars == <<worldVars, pageVars>>

Hours == 0 .. (MaxTick \div HourTicks)
Ticks == 0 .. MaxTick

-----------------------------------------------------------------------------
(* Local time.                                                             *)

LocalDate(t) == (t + zone[t]) \div DayTicks

(* The instants a local time may be: none in a gap, two in an overlap.       *)
Candidates(local) == {t \in Ticks : t + zone[t] = local}

IsLocalTime(local) == Cardinality(Candidates(local)) = 1

LocalToUtc(local) == CHOOSE t \in Candidates(local) : TRUE

FloorToHour(t) == t \div HourTicks

CeilToHour(t) == (t + HourTicks - 1) \div HourTicks

(* Slip: the end of a day is rounded down to an hour as its start is.        *)
BoundsRoundedDown(d) ==
    <<FloorToHour(LocalToUtc(d * DayTicks)), FloorToHour(LocalToUtc((d + 1) * DayTicks))>>

(* The hours that enclose a local day, the second bound excluded.            *)
QueryBounds(d) ==
    <<FloorToHour(LocalToUtc(d * DayTicks)), CeilToHour(LocalToUtc((d + 1) * DayTicks))>>

HasBounds(d) == IsLocalTime(d * DayTicks) /\ IsLocalTime((d + 1) * DayTicks)

(* Slip: the last hour is the one that holds the end of the range.           *)
HoursThroughEnd(start, end) == {h \in Hours : FloorToHour(start) <= h /\ h <= FloorToHour(end)}

(* The hours that intersect the range from start to end, the end excluded.   *)
IntersectingHours(start, end) ==
    {h \in Hours : FloorToHour(start) <= h /\ h <= FloorToHour(end - 1)}

(* The archives of a range: hour by hour, each with the whole universe.      *)
PlannedFiles(start, end) ==
    [i \in 1 .. Cardinality(IntersectingHours(start, end)) * Len(Universe) |->
        <<FloorToHour(start) + ((i - 1) \div Len(Universe)),
          Universe[((i - 1) % Len(Universe)) + 1]>>]

-----------------------------------------------------------------------------
(* One hour. The fact of an archive is the status of its row and whether its  *)
(* file is there, with its size; the fact of a row is its valid seconds.     *)

IsLocal(source) ==
    source # Nothing /\ source.status \in {"downloaded", "processing", "processed"} /\ source.file

(* Slip: a window takes an hour in which any market has a valid second.      *)
AnyValid(p, l2) ==
    IF \E m \in Markets[p] : l2[m] # Nothing /\ l2[m] > 0 THEN FullHour ELSE 0

(* An hour of one market counts with any valid second; an hour of several    *)
(* only when none of them lacks a second.                                   *)
ValidSeconds(p, l2) ==
    IF Cardinality(Markets[p]) = 1
    THEN LET m == CHOOSE m \in Markets[p] : TRUE IN IF l2[m] = Nothing THEN 0 ELSE l2[m]
    ELSE IF \A m \in Markets[p] : l2[m] = FullHour THEN FullHour ELSE 0

(* The status that stands for all the order books of a preset.               *)
CombinedStatus(p, books) ==
    LET rows == {books[m] : m \in Markets[p]} \ {Nothing}
        whole == \A m \in Markets[p] : books[m] # Nothing
    IN CASE rows = {} -> Nothing
         [] Cardinality(Markets[p]) = 1 -> (CHOOSE r \in rows : TRUE).status
         [] Cardinality(Markets[p]) > 1 /\ whole /\ \A r \in rows : IsLocal(r) -> "available"
         [] Cardinality(Markets[p]) > 1 /\ whole /\ \A r \in rows : r.status = "missing" -> "missing"
         [] OTHER -> "partial"

(* What an hour is called, from the source rows, the L2 rows and the price    *)
(* row that a load read of it.                                              *)
Classify(p, sources, l2, price) ==
    LET bookLocal == \A m \in Markets[p] : IsLocal(sources.books[m])
        tradesLocal == IsLocal(sources.trades)
        status == {CombinedStatus(p, sources.books)}
                    \union (IF sources.trades = Nothing THEN {} ELSE {sources.trades.status})
        l2There == \A m \in Markets[p] : l2[m] # Nothing
        priceThere == price # Nothing
    IN CASE l2There /\ priceThere /\ ValidSeconds(p, l2) > 0 /\ price > 0 -> "analyzable"
         [] l2There /\ priceThere /\ ~(ValidSeconds(p, l2) > 0 /\ price > 0) -> "materialized"
         [] ~(l2There /\ priceThere) /\ bookLocal /\ tradesLocal -> "downloaded"
         [] ~(l2There /\ priceThere) /\ ~(bookLocal /\ tradesLocal)
              /\ (l2There \/ priceThere \/ bookLocal \/ tradesLocal) -> "partial"
         [] ~(l2There \/ priceThere \/ bookLocal \/ tradesLocal) /\ "missing" \in status -> "missing"
         [] ~(l2There \/ priceThere \/ bookLocal \/ tradesLocal) /\ "missing" \notin status ->
              IF status \ {Nothing} # {} THEN "partial" ELSE "unknown"

(* Slip: a window goes on over the hours that cannot be analysed.            *)
WindowOverGaps(states) ==
    LET good == {h \in DOMAIN states : states[h] = "analyzable"}
    IN IF good = {} THEN Nothing
       ELSE [first |-> CHOOSE h \in good : \A g \in good : h <= g,
             last |-> CHOOSE h \in good : \A g \in good : g <= h]

(* The newest analysable hour, and the ones before it up to the first gap.   *)
NewestWindow(states) ==
    LET good == {h \in DOMAIN states : states[h] = "analyzable"}
        newest == CHOOSE h \in good : \A g \in good : g <= h
    IN IF good = {} THEN Nothing
       ELSE [first |-> CHOOSE h \in good : h .. newest \subseteq good /\ h - 1 \notin good,
             last |-> newest]

Preferred == SelectInSeq(Presets, LAMBDA p : p \in enabled)

-----------------------------------------------------------------------------
NoRefresh ==
    [step |-> "idle", pending |-> FALSE, date |-> Nothing, preset |-> Nothing,
     sources |-> Nothing, l2 |-> Nothing, calendar |-> Nothing]

NoCalendar == [date |-> Nothing, preset |-> Nothing, states |-> <<>>, window |-> Nothing]

CalendarInit ==
    /\ zone \in Zones
    /\ facts \in Worlds
    /\ enabled \in {{Presets[i]} : i \in DOMAIN Presets} \union {ToSet(Presets)}
    /\ changes = 0
    /\ unreported = FALSE
    /\ behind = FALSE
    /\ date \in Dates
    /\ requests = 1
    /\ refresh = NoRefresh
    /\ shown = NoCalendar
    /\ failed = FALSE
    /\ applied = Nothing

(* Archives and rows change; rows, once stored, only go with their preset.    *)
Change(h, fact) ==
    /\ changes < MaxChanges
    /\ changes' = changes + 1
    /\ facts' = [facts EXCEPT ![h] = fact]
    /\ unreported' = TRUE
    /\ UNCHANGED <<zone, enabled, behind, pageVars>>

ChangeSources(h, sources) ==
    /\ facts[h].sources # sources
    /\ Change(h, [facts[h] EXCEPT !.sources = sources])

StoreL2(h, m, seconds) ==
    /\ facts[h].l2[m] = Nothing
    /\ Change(h, [facts[h] EXCEPT !.l2[m] = seconds])

StorePrice(h, seconds) ==
    /\ facts[h].price = Nothing
    /\ Change(h, [facts[h] EXCEPT !.price = seconds])

ChangePreset(p) ==
    /\ changes < MaxChanges
    /\ changes' = changes + 1
    /\ behind' = TRUE
    /\ UNCHANGED <<zone, unreported, pageVars>>

TogglePreset(p) ==
    /\ ChangePreset(p)
    /\ enabled' = IF p \in enabled THEN enabled \ {p} ELSE enabled \union {p}
    /\ UNCHANGED facts

(* With a preset go its rows, also from the presets it is a market of.       *)
DeletePreset(p) ==
    /\ ChangePreset(p)
    /\ enabled' = enabled \ {p}
    /\ facts' = [h \in Hours |-> [facts[h] EXCEPT !.l2 =
                    [m \in DOMAIN @ |-> IF Component[m] = p THEN Nothing ELSE @[m]]]]

(* A refresh is asked for by the button, by a date, and by every completion of *)
(* a fetch, a processing, an automatic or a remote run; it begins later, and  *)
(* two that have not begun do what one does.                                *)
Click ==
    /\ requests = 0
    /\ requests' = 1
    /\ UNCHANGED <<worldVars, date, refresh, shown, failed, applied>>

Complete ==
    /\ unreported
    /\ unreported' = FALSE
    /\ requests' = 1
    /\ UNCHANGED <<zone, facts, enabled, changes, behind, date, refresh, shown, failed, applied>>

ChangeDate(d) ==
    /\ changes < MaxChanges /\ d # date
    /\ changes' = changes + 1
    /\ date' = d
    /\ requests' = 1
    /\ UNCHANGED <<zone, facts, enabled, unreported, behind, refresh, shown, failed, applied>>

-----------------------------------------------------------------------------
(* A refresh.                                                              *)

LoadOf(d) == [NoRefresh EXCEPT !.step = "preset", !.date = d]

(* Only one refresh runs; another that begins meanwhile leaves it a note.    *)
BeginRefresh ==
    /\ requests > 0
    /\ requests' = 0
    /\ IF refresh.step # "idle"
       THEN refresh' = [refresh EXCEPT !.pending = TRUE] /\ UNCHANGED failed
       ELSE IF date = NoDate
       THEN failed' = TRUE /\ UNCHANGED refresh
       ELSE refresh' = LoadOf(date) /\ UNCHANGED failed
    /\ UNCHANGED <<worldVars, date, shown, applied>>

Reading(step, next) ==
    /\ refresh.step = step
    /\ refresh' = next
    /\ UNCHANGED <<zone, facts, enabled, changes, unreported, date, requests, shown, failed, applied>>

History(d) ==
    LET bounds == QueryBounds(d) IN Hours \intersect ((bounds[1] - Lookback) .. (bounds[2] - 1))

ReadPreset ==
    /\ refresh.step = "preset" /\ HasBounds(refresh.date)
    /\ behind' = FALSE
    /\ Reading("preset",
         IF enabled = {}
         THEN [refresh EXCEPT !.step = "loaded", !.calendar = [NoCalendar EXCEPT !.date = refresh.date]]
         ELSE [refresh EXCEPT !.step = "sources", !.preset = Presets[Preferred]])

ReadSources ==
    /\ Reading("sources",
         [refresh EXCEPT !.step = "l2",
            !.sources = [h \in History(refresh.date) |-> facts[h].sources]])
    /\ UNCHANGED behind

ReadL2 ==
    /\ Reading("l2",
         [refresh EXCEPT !.step = "price", !.l2 = [h \in History(refresh.date) |-> facts[h].l2]])
    /\ UNCHANGED behind

(* Slip: the hours of a date are the ones within its bounds.                 *)
HoursWithinBounds(d) == QueryBounds(d)[1] .. (QueryBounds(d)[2] - 1)

HoursOfDate(d) == {h \in History(d) : LocalDate(h * HourTicks) = d}

(* What the load returns when the prices are read as well.                   *)
Built ==
    LET states == [h \in History(refresh.date) |->
                     Classify(refresh.preset, refresh.sources[h], refresh.l2[h], facts[h].price)]
    IN [date |-> refresh.date, preset |-> refresh.preset,
        states |-> [h \in HoursOfDate(refresh.date) |-> states[h]],
        window |-> NewestWindow(states)]

ReadPrices ==
    /\ Reading("price", [LoadOf(refresh.date) EXCEPT !.step = "loaded", !.calendar = Built,
                                                    !.pending = refresh.pending])
    /\ UNCHANGED behind

(* Slip: the page shows what was loaded, whatever date it is of.             *)
PublishAnyDate ==
    /\ shown' = refresh.calendar
    /\ failed' = FALSE
    /\ refresh' = IF refresh.pending /\ date # NoDate THEN LoadOf(date) ELSE NoRefresh

(* The page takes the calendar, unless its date was changed meanwhile; then,  *)
(* and when a refresh was asked for meanwhile, it loads again.              *)
Publish ==
    IF date = NoDate THEN failed' = TRUE /\ refresh' = NoRefresh /\ UNCHANGED shown
    ELSE IF date # refresh.date THEN refresh' = LoadOf(date) /\ UNCHANGED <<shown, failed>>
    ELSE /\ shown' = refresh.calendar
         /\ failed' = FALSE
         /\ refresh' = IF refresh.pending THEN LoadOf(date) ELSE NoRefresh

FinishLoad ==
    /\ refresh.step = "loaded"
    /\ Publish
    /\ UNCHANGED <<worldVars, date, requests, applied>>

(* A failed load leaves the calendar as it was, and forgets the refresh that  *)
(* was asked for meanwhile; a midnight that does not exist, or exists twice,  *)
(* fails every load of its date.                                            *)
FailLoad ==
    /\ refresh.step # "idle"
    /\ failed' = TRUE
    /\ refresh' = NoRefresh
    /\ UNCHANGED <<worldVars, date, requests, shown, applied>>

-----------------------------------------------------------------------------
(* Slip: a window that is too long keeps its oldest ticks.                   *)
FitOldest(start, closedEnd, limit) ==
    IF closedEnd - start + 1 <= limit THEN <<start, closedEnd>> ELSE <<start, start + limit - 1>>

(* The newest ticks of a window within the limit of the analysis page.       *)
FitHandoff(start, closedEnd, limit) ==
    IF closedEnd - start + 1 <= limit THEN <<start, closedEnd>>
    ELSE <<closedEnd - limit + 1, closedEnd>>

(* The analysis page reloads the presets and takes the window of one that is  *)
(* still enabled, with a closed end; a behaviour ends when it did.           *)
HandOff(limit) ==
    /\ shown.window # Nothing
    /\ shown.preset \in enabled
    /\ applied' = [preset |-> shown.preset, window |-> shown.window, limit |-> limit,
                   range |-> FitHandoff(shown.window.first * HourTicks,
                                        (shown.window.last + 1) * HourTicks - 1, limit)]
    /\ UNCHANGED <<worldVars, date, requests, refresh, shown, failed>>

Step ==
    /\ applied = Nothing
    /\ \/ Click \/ Complete
       \/ BeginRefresh \/ ReadPreset \/ ReadSources \/ ReadL2 \/ ReadPrices \/ FinishLoad \/ FailLoad
       \/ \E d \in Dates \union {NoDate} : ChangeDate(d)
       \/ \E h \in Changeable, sources \in Sources : ChangeSources(h, sources)
       \/ \E h \in Changeable, n \in Seconds :
            StorePrice(h, n) \/ \E m \in DOMAIN Component : StoreL2(h, m, n)
       \/ \E i \in DOMAIN Presets : TogglePreset(Presets[i]) \/ DeletePreset(Presets[i])
       \/ \E limit \in Limits : HandOff(limit)

-----------------------------------------------------------------------------
(* A page at rest whose last load succeeded shows the date its input holds:   *)
(* all the hours that begin on it, each as its rows and files are, unless a   *)
(* run has not completed or a preset changed on another page.               *)
AtRest ==
    /\ shown # NoCalendar /\ refresh.step = "idle" /\ requests = 0 /\ ~failed
    /\ ~unreported /\ ~behind

StateNow(h) == Classify(shown.preset, facts[h].sources, facts[h].l2, facts[h].price)

CalendarIsCurrent ==
    AtRest =>
        /\ shown.date = date
        /\ shown.preset = IF enabled = {} THEN Nothing ELSE Presets[Preferred]
        /\ shown.preset # Nothing =>
             shown.states = [h \in {h \in Hours : LocalDate(h * HourTicks) = date} |-> StateNow(h)]

(* The window it offers has a price and L2 of every market of its preset in   *)
(* each hour, all the same markets in every second when there are several;    *)
(* no newer hour up to the end of the date could be in a window, and none     *)
(* that is older and adjacent was left out.                                 *)
CanAnalyse(h) ==
    /\ facts[h].price # Nothing /\ facts[h].price > 0
    /\ \A m \in Markets[shown.preset] :
          /\ facts[h].l2[m] # Nothing /\ facts[h].l2[m] > 0
          /\ Cardinality(Markets[shown.preset]) > 1 => facts[h].l2[m] = FullHour

WindowIsNewest ==
    AtRest /\ shown.preset # Nothing =>
        IF shown.window = Nothing THEN \A h \in History(date) : ~CanAnalyse(h)
        ELSE /\ \A h \in shown.window.first .. shown.window.last : CanAnalyse(h)
             /\ \A h \in History(date) :
                  h > shown.window.last \/ h = shown.window.first - 1 => ~CanAnalyse(h)

(* The analysis page takes over the newest part of a window that its limit    *)
(* allows, to the last tick of the window.                                  *)
HandoffIsNewest ==
    applied # Nothing =>
        LET covered == {t \in Ticks : FloorToHour(t) \in applied.window.first .. applied.window.last}
            taken == applied.range[1] .. applied.range[2]
        IN /\ taken \subseteq covered
           /\ taken = covered \/ Cardinality(taken) = applied.limit
           /\ \A t \in covered, u \in taken : t > u => t \in taken

(* An instant of a local date lies within the hours that its calendar asks    *)
(* for; and a range plans the archives of every hour it touches, once each.   *)
DatesAndPlansAreExact ==
    shown = NoCalendar /\ refresh = NoRefresh /\ changes = 0 =>
        /\ \A t \in Ticks :
             HasBounds(LocalDate(t)) =>
                 /\ QueryBounds(LocalDate(t))[1] <= FloorToHour(t)
                 /\ FloorToHour(t) < QueryBounds(LocalDate(t))[2]
        /\ \A start, end \in Ticks :
             start < end =>
                 /\ IsInjective(PlannedFiles(start, end))
                 /\ ToSet(PlannedFiles(start, end)) =
                      {FloorToHour(t) : t \in start .. end - 1} \X ToSet(Universe)
=============================================================================
