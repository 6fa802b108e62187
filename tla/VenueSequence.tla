---------------------------- MODULE VenueSequence ----------------------------
(***************************************************************************)
(* The venue-specific sequence contracts of l2shock/ingest/venue_adapter.py *)
(* A normalized order-book event carries four nullable provider sequence   *)
(* fields.  A contract turns them into two frontiers: the predecessor an    *)
(* update must continue from, and the frontier that results from it.        *)
(***************************************************************************)
EXTENDS Integers

CONSTANTS
    Venue,      \* the venue of the one replayed market
    NoId        \* a null sequence field

Venues == {"binance_futures", "bybit", "okx_futures"}

ASSUME VenueAssumption == Venue \in Venues
ASSUME NoIdAssumption == NoId \notin Int

(* A sequence field as the reader delivers it: null or non-negative.        *)
SequenceId == Nat \cup {NoId}

(***************************************************************************)
(* Snapshots.  Binance owns its frontier in last_update_id; Bybit and OKX   *)
(* own it in final_update_id.  Only Bybit may leave the frontier null.      *)
(***************************************************************************)
SnapshotFrontier(e) == IF Venue = "binance_futures" THEN e.last ELSE e.final

TransactionTimeOwned(e) ==
    \/ e.timed
    \/ Venue = "okx_futures"
    \/ Venue = "bybit" /\ e.type = "snapshot"

ValidSnapshot(e) ==
    /\ TransactionTimeOwned(e)
    /\ e.last # NoId
    /\ Venue = "okx_futures" => e.final = e.last
    /\ Venue # "bybit" => SnapshotFrontier(e) # NoId

(***************************************************************************)
(* Updates.  Bybit has no predecessor field: continuity is a step of one.   *)
(***************************************************************************)
PredecessorFrontier(e) ==
    CASE Venue = "binance_futures" -> e.prev
      [] Venue = "bybit"           -> e.final - 1
      [] Venue = "okx_futures"     -> e.last

ResultingFrontier(e) == e.final

ValidUpdate(e) ==
    /\ TransactionTimeOwned(e)
    /\ e.final # NoId
    /\ IF Venue = "binance_futures"
       THEN e.first # NoId /\ e.first =< e.final /\ e.prev # NoId
       ELSE e.last # NoId
    /\ PredecessorFrontier(e) >= 0
    /\ ResultingFrontier(e) > PredecessorFrontier(e)
=============================================================================
