----------------------------- MODULE ArchiveReader -----------------------------
(***************************************************************************)
(* The streamed reading of one archive: the rows of an order book are put     *)
(* together to events, each delivered as soon as the row after it begins      *)
(* another, and the rows of trades are delivered one by one.                 *)
(*                                                                         *)
(* The archive is chosen row by row. The rows of all batches are one stream,  *)
(* so batches are not in the model. A row says whether its cells convert to   *)
(* what their columns hold; the prices and quantities that follow are what    *)
(* the cells say, and a level is a side with a price.                        *)
(***************************************************************************)
EXTENDS SequencesExt, FiniteSets

CONSTANTS
    NoId,           \* a null sequence field or time
    Levels,         \* a side and a price
    Rows,           \* rows of the order books of each venue
    TradeRows,      \* rows of trades
    MaxRows,        \* rows of an archive
    MaxEventRows,   \* rows of an event
    MaxIssues,      \* issues that a report retains
    ProbeEvery,     \* rows between two questions whether to go on
    Nothing

VARIABLES
    venue,      \* whose archive it is
    content,    \* "orderbook" or "trades"
    rows,       \* the rows read so far
    builder,    \* the event that is being put together
    delivered,  \* the events, or the trades, the consumer got
    report,
    outcome     \* "reading", "done", "failed" or "cancelled"

INSTANCE VenueSequence WITH Venue <- venue

readerVars == <<venue, content, rows, builder, delivered, report, outcome>>

-----------------------------------------------------------------------------
(* What the columns of a row hold, and the rows of an event have in common.  *)
Events ==
    [type : {"snapshot", "update"}, received : Int, time : Int, transaction : Int \cup {NoId},
     timed : BOOLEAN, first : Int \cup {NoId}, final : Int \cup {NoId}, prev : Int \cup {NoId},
     last : Int \cup {NoId}]

BookRows ==
    [type : {"snapshot", "update"}, received : Int, time : Int, transaction : Int \cup {NoId},
     first : Int \cup {NoId}, final : Int \cup {NoId}, prev : Int \cup {NoId},
     last : Int \cup {NoId}, level : Levels, cells : BOOLEAN]

Builders == [event : Events, reset : BOOLEAN, levels : Seq(Levels)]

(* A null field is no number, and nothing under construction no event.       *)
ASSUME ReaderAssumption ==
    /\ NoId \notin Int
    /\ MaxIssues \in Nat
    /\ Rows \in [Venues -> SUBSET BookRows]
    /\ TradeRows \subseteq
         [id : Int, received : Int, time : Int, price : Nat, quantity : Nat, cells : BOOLEAN]
    /\ Nothing \notin Builders /\ Nothing \notin Events

(* A row of an order book. In an opening snapshot of Binance the time of the  *)
(* event stands for a missing transaction time; in a snapshot of OKX -1 for   *)
(* the last id means that the final id holds.                               *)

TransactionTime(row) ==
    IF venue = "binance_futures" /\ row.type = "snapshot" /\ row.transaction = NoId
    THEN row.time ELSE row.transaction

IsReset(row) == venue = "okx_futures" /\ row.type = "snapshot" /\ row.last = -1

LastId(row) == IF IsReset(row) THEN row.final ELSE row.last

(* What the rows of one event have in common.                               *)
EventOf(row) ==
    [type |-> row.type, received |-> row.received, time |-> row.time,
     transaction |-> TransactionTime(row), timed |-> TransactionTime(row) # NoId,
     first |-> row.first, final |-> row.final, prev |-> row.prev, last |-> LastId(row)]

Converts(row) ==
    /\ row.cells
    /\ {row.first, row.final, row.prev, LastId(row)} \subseteq SequenceId
    /\ TransactionTimeOwned(EventOf(row))

IsValid(event) == IF event.type = "snapshot" THEN ValidSnapshot(event) ELSE ValidUpdate(event)

(* Slip: rows belong to one event when their ids agree.                      *)
SameIds(row) ==
    /\ builder # Nothing
    /\ LET e == EventOf(row) IN
         /\ <<e.type, e.first, e.final, e.prev, e.last>> =
              <<builder.event.type, builder.event.first, builder.event.final, builder.event.prev,
                builder.event.last>>

Continues(row) == builder # Nothing /\ EventOf(row) = builder.event

(* Slip: a snapshot may mix rows with and without the sentinel.              *)
Mixing(row) == FALSE

(* Rows of one event that spell its last id in two ways.                     *)
Mixes(row) == Continues(row) /\ IsReset(row) # builder.reset

Fits(row) ==
    /\ row.level \notin ToSet(builder.levels)
    /\ Len(builder.levels) < MaxEventRows

-----------------------------------------------------------------------------
(* The report: what is counted when an event is delivered.                   *)

NoReport == [checks |-> 0, mismatches |-> 0, received |-> 0, times |-> 0, ids |-> 0, skipped |-> 0,
             issues |-> <<>>]

(* Slip: the update before a snapshot is compared with the one after it.      *)
PreviousOfAll ==
    LET updates == {i \in DOMAIN delivered : delivered[i].event.type = "update"}
    IN IF updates = {} THEN Nothing
       ELSE delivered[CHOOSE i \in updates : \A j \in updates : j <= i].event

(* An update is compared with the update right before it; a snapshot begins   *)
(* anew.                                                                    *)
PreviousUpdate ==
    IF delivered # <<>> /\ Last(delivered).event.type = "update"
    THEN Last(delivered).event ELSE Nothing

Compared(e) == e.type = "update" /\ PreviousUpdate # Nothing

(* What is wrong between an event and the ones before it.                     *)
IssuesOf(e) ==
    [received |-> delivered # <<>> /\ e.received < Last(delivered).event.received,
     times |-> delivered # <<>> /\ e.time < Last(delivered).event.time,
     mismatches |-> Compared(e) /\ PredecessorFrontier(e) # ResultingFrontier(PreviousUpdate),
     ids |-> Compared(e) /\ ResultingFrontier(e) < ResultingFrontier(PreviousUpdate)]

(* The issues are counted, and the first of them retained, in the order in     *)
(* which they are found.                                                    *)
Noted(issue, holds) == IF holds THEN <<issue>> ELSE <<>>

Counted(found) ==
    LET one(holds) == IF holds THEN 1 ELSE 0
        all == report.issues \o Noted("received", found.received) \o Noted("times", found.times)
                 \o Noted("mismatches", found.mismatches) \o Noted("ids", found.ids)
    IN [checks |-> report.checks,
        received |-> report.received + one(found.received),
        times |-> report.times + one(found.times),
        mismatches |-> report.mismatches + one(found.mismatches),
        ids |-> report.ids + one(found.ids),
        skipped |-> report.skipped,
        issues |-> SubSeq(all, 1, IF Len(all) < MaxIssues THEN Len(all) ELSE MaxIssues)]

(* finish_event                                                            *)
FinishEvent ==
    IF builder = Nothing THEN UNCHANGED <<delivered, report>>
    ELSE /\ delivered' = Append(delivered, builder)
         /\ report' = [Counted(IssuesOf(builder.event)) EXCEPT
                         !.checks = IF Compared(builder.event) THEN @ + 1 ELSE @]

-----------------------------------------------------------------------------
(* Trades are read of Binance only, which alone owns the price.               *)
ReaderInit ==
    /\ venue \in Venues
    /\ content \in {"orderbook"} \cup (IF venue = "binance_futures" THEN {"trades"} ELSE {})
    /\ rows = <<>>
    /\ builder = Nothing
    /\ delivered = <<>>
    /\ report = NoReport
    /\ outcome = "reading"

Reads(row) ==
    /\ outcome = "reading" /\ Len(rows) < MaxRows
    /\ rows' = Append(rows, row)
    /\ UNCHANGED <<venue, content>>

(* A row that does not convert, that mixes spellings, whose event violates    *)
(* the contract of its venue or that has no place in its event ends the       *)
(* reading; what was being put together is not delivered.                   *)
Refuse(row) ==
    /\ Reads(row)
    /\ content = "orderbook"
    /\ \/ ~Converts(row)
       \/ Converts(row) /\ Mixes(row)
       \/ Converts(row) /\ ~Continues(row) /\ ~IsValid(EventOf(row))
       \/ Converts(row) /\ Continues(row) /\ ~Fits(row)
    /\ outcome' = "failed"
    /\ UNCHANGED <<builder, delivered, report>>

ContinueEvent(row) ==
    /\ Reads(row)
    /\ content = "orderbook"
    /\ Converts(row) /\ ~Mixes(row) /\ Continues(row) /\ Fits(row)
    /\ builder' = [builder EXCEPT !.levels = Append(@, row.level)]
    /\ UNCHANGED <<delivered, report, outcome>>

(* The first row of another event is validated before the event it ends is    *)
(* delivered. The consumer may raise.                                       *)
BeginEvent(row, raises) ==
    /\ Reads(row)
    /\ content = "orderbook"
    /\ Converts(row) /\ ~Continues(row) /\ IsValid(EventOf(row))
    /\ raises => builder # Nothing
    /\ FinishEvent
    /\ builder' = IF raises THEN Nothing
                  ELSE [event |-> EventOf(row), reset |-> IsReset(row), levels |-> <<row.level>>]
    /\ outcome' = IF raises THEN "failed" ELSE "reading"

-----------------------------------------------------------------------------
(* A row of trades. A price of zero marks a row that is no trade; it has to   *)
(* be sound all the same, but its quantity may be zero too.                  *)

(* Slip: a row that marks no trade is skipped before it is validated.        *)
SoundUnlessZero(row) == row.price = 0 \/ (row.cells /\ row.quantity > 0)

SoundTrade(row) == row.cells /\ (row.price > 0 => row.quantity > 0)

TradeIssues(row) ==
    [received |-> delivered # <<>> /\ row.received < Last(delivered).received,
     times |-> delivered # <<>> /\ row.time < Last(delivered).time,
     mismatches |-> FALSE,
     ids |-> delivered # <<>> /\ row.id = Last(delivered).id]

ReadTrade(row) ==
    /\ Reads(row)
    /\ content = "trades"
    /\ IF ~SoundTrade(row)
       THEN outcome' = "failed" /\ UNCHANGED <<delivered, report>>
       ELSE IF row.price = 0
       THEN report' = [report EXCEPT !.skipped = @ + 1] /\ UNCHANGED <<delivered, outcome>>
       ELSE /\ report' = Counted(TradeIssues(row))
            /\ delivered' = Append(delivered, row)
            /\ outcome' \in {"reading", "failed"}
    /\ UNCHANGED builder

-----------------------------------------------------------------------------
(* Slip: the last event of an archive, which no row ends, is forgotten.       *)
EndWithoutEvent ==
    /\ outcome = "reading"
    /\ outcome' \in {"done", "failed"}
    /\ builder' = Nothing
    /\ UNCHANGED <<venue, content, rows, delivered, report>>

(* The end of the file ends the last event. The reading fails when the        *)
(* consumer raises, or when the footer of the file counts other rows; and it   *)
(* may be cancelled even now.                                               *)
EndOfFile ==
    /\ outcome = "reading"
    /\ FinishEvent
    /\ outcome' \in {"done", "failed", "cancelled"}
    /\ builder' = Nothing
    /\ UNCHANGED <<venue, content, rows>>

Cancel ==
    /\ outcome = "reading"
    /\ Len(rows) % ProbeEvery = 0
    /\ outcome' = "cancelled"
    /\ UNCHANGED <<venue, content, rows, builder, delivered, report>>

ReaderNext ==
    \/ \E row \in Rows[venue] :
         \/ Refuse(row) \/ ContinueEvent(row)
         \/ \E raises \in BOOLEAN : BeginEvent(row, raises)
    \/ \E row \in TradeRows : ReadTrade(row)
    \/ EndOfFile \/ Cancel

-----------------------------------------------------------------------------
ReaderSpec == ReaderInit /\ [][ReaderNext]_readerVars

(* The rows of the archive are those of events, each the longest run of rows    *)
(* of one event; an event begins with a row unlike the one before it.          *)
Read == [i \in DOMAIN rows |-> EventOf(rows[i])]

Cuts(read) == {i \in DOMAIN read : i = 1 \/ read[i] # read[i - 1]}

CutsBefore(read, i) == Cardinality({c \in Cuts(read) : c < i})

IsEvent(read, first, last) ==
    /\ first \in Cuts(read) /\ last \in DOMAIN read /\ first <= last
    /\ \A i \in first + 1 .. last : i \notin Cuts(read)
    /\ last = Len(read) \/ last + 1 \in Cuts(read)

(* What is delivered of the rows of an event keeps the contract of its venue,   *)
(* changes no level twice and spells its ids in one way.                      *)
IsWhat(event, first, last) ==
    /\ event.event = Read[first]
    /\ IsValid(event.event)
    /\ event.levels = [i \in 1 .. last - first + 1 |-> rows[first + i - 1].level]
    /\ IsInjective(event.levels)
    /\ \A i \in first .. last : Converts(rows[i]) /\ IsReset(rows[i]) = event.reset

(* The events are delivered in their order, all of them when the archive was   *)
(* read to its end and all but the last while it is read. A row that is refused *)
(* delivers nothing, and a consumer that raises gets nothing more.            *)
EventsAreExact ==
    content = "orderbook" =>
        /\ outcome # "failed" =>
             Len(delivered) =
               Cardinality(Cuts(Read)) - (IF builder = Nothing THEN 0 ELSE 1)
        /\ outcome = "failed" =>
             IF builder = Nothing
             THEN Cardinality(Cuts(Read)) - Len(delivered) \in {0, 1}
             ELSE Len(delivered) = CutsBefore(Read, Len(rows)) - 1
        /\ \A first, last \in DOMAIN rows :
             IsEvent(Read, first, last) /\ CutsBefore(Read, first) < Len(delivered) =>
               IsWhat(delivered[CutsBefore(Read, first) + 1], first, last)

(* A mismatch is counted for each update that does not continue the update     *)
(* right before it, and for nothing else. Without one the updates between two  *)
(* snapshots are a chain, in which ids only grow; and an issue that is counted *)
(* is retained, unless the report is full.                                  *)
Predecessors == [i \in DOMAIN delivered |-> PredecessorFrontier(delivered[i].event)]

Breaks ==
    {i \in DOMAIN delivered :
        /\ i > 1 /\ delivered[i - 1].event.type = "update" /\ delivered[i].event.type = "update"
        /\ Predecessors[i] # delivered[i - 1].event.final}

ReportIsExact ==
    content = "orderbook" =>
        /\ report.mismatches = Cardinality(Breaks)
        /\ report.mismatches = 0 =>
             /\ report.ids = 0
             /\ \A i, j \in DOMAIN delivered :
                  i < j /\ (\A k \in i .. j : delivered[k].event.type = "update") =>
                    delivered[i].event.final <= Predecessors[j]
        /\ report.received = 0 =>
             \A i, j \in DOMAIN delivered :
               i < j => delivered[i].event.received <= delivered[j].event.received
        /\ LET counted == report.received + report.times + report.mismatches + report.ids
           IN Len(report.issues) = IF counted < MaxIssues THEN counted ELSE MaxIssues

(* Every trade is delivered once and in its place, a row that marks none is    *)
(* counted instead, and no row that is not sound passes as one of these.      *)
Trades == {i \in DOMAIN rows : rows[i].cells /\ rows[i].price > 0 /\ rows[i].quantity > 0}

TradesAreExact ==
    content = "trades" =>
        /\ Len(delivered) = Cardinality(Trades)
        /\ \A i \in Trades : delivered[Cardinality({j \in Trades : j <= i})] = rows[i]
        /\ outcome # "failed" =>
             /\ \A i \in DOMAIN rows : rows[i].cells
             /\ Len(rows) = Len(delivered) + report.skipped

(* What the reading of an archive delivers are the events, or the trades, that *)
(* its rows are, and nothing of what it refuses; and what its report says of   *)
(* their order is so.                                                       *)
ReadingIsExact == EventsAreExact /\ ReportIsExact /\ TradesAreExact
=============================================================================
