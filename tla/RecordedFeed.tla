----------------------------- MODULE RecordedFeed -----------------------------
(***************************************************************************)
(* The replay composed with the exchange whose book it reconstructs.        *)
(*                                                                         *)
(* Truth[f] is the venue's book at sequence position f.  Every event of the *)
(* replayed symbol that satisfies its contract is genuine: an update leads  *)
(* from the true book at its predecessor to the true book at its resulting  *)
(* frontier, a snapshot is a true book.  The archives may still drop, repeat *)
(* and reorder events at will, and mix in events that break the contract or *)
(* belong to another symbol.                                                *)
(*                                                                         *)
(* A snapshot without a frontier (Bybit) is a true book at TakenAt, a       *)
(* position its record does not carry.  The provider takes it when it opens *)
(* the hour's recording, not before the frontier the previous hour reached. *)
(***************************************************************************)
EXTENDS OrderBookReplay

CONSTANTS
    Positions,      \* sequence positions of the venue
    Truth,          \* its book at each of them
    Recorded,       \* the events this feed's archives may hold
    TakenAt         \* where each snapshot without a frontier was taken

FrontierLess(e) ==
    /\ e.own
    /\ e.type = "snapshot"
    /\ ValidSnapshot(e)
    /\ SnapshotFrontier(e) = NoId

GenuineUpdate(e) ==
    /\ PredecessorFrontier(e) \in Positions
    /\ ResultingFrontier(e) \in Positions
    /\ Truth[ResultingFrontier(e)] =
           ApplyChanges(Truth[PredecessorFrontier(e)], e.changes)

GenuineSnapshot(e, f) ==
    /\ f \in Positions
    /\ Truth[f] = ApplyChanges(EmptyBook, e.changes)

ASSUME TruthAssumption ==
    Positions \subseteq Nat /\ Truth \in [Positions -> Books]

ASSUME RecordedAssumption == Recorded \subseteq Events

ASSUME GenuineAssumption ==
    \A e \in Recorded : e.own =>
        /\ e.type = "update" /\ ValidUpdate(e) => GenuineUpdate(e)
        /\ e.type = "snapshot" /\ ValidSnapshot(e) =>
               GenuineSnapshot(e, IF FrontierLess(e) THEN TakenAt[e]
                                  ELSE SnapshotFrontier(e))

-----------------------------------------------------------------------------
VARIABLES
    settled,            \* the book is exact once the frontier reaches this
    checkpointSettled   \* the same for the frozen checkpoint

feedVars == <<vars, settled, checkpointSettled>>

FeedInit ==
    /\ Init
    /\ settled = NoId
    /\ checkpointSettled = NoId

(* The ghost follows the events that replace the whole book.                *)
Record(e) ==
    /\ FrontierLess(e) /\ replay.frontier # NoId =>
           TakenAt[e] >= replay.frontier
    /\ Consume(e)
    /\ settled' = IF ~replay'.valid THEN NoId
                  ELSE IF e.type = "update" THEN settled
                  ELSE IF FrontierLess(e) THEN TakenAt[e]
                  ELSE replay'.frontier
    /\ UNCHANGED checkpointSettled

CloseArchive ==
    /\ NextArchive
    /\ checkpointSettled' = settled
    /\ UNCHANGED settled

Restart ==
    /\ \/ Restore /\ settled' = checkpointSettled
       \/ ColdStart /\ settled' = NoId
    /\ UNCHANGED checkpointSettled

FeedNext ==
    \/ \E e \in Recorded : Record(e)
    \/ CloseArchive
    \/ Restart

FeedSpec == FeedInit /\ [][FeedNext]_feedVars

-----------------------------------------------------------------------------
Truthful(book, f, s) ==
    IF f < s THEN \A l \in Levels : book[l] \in {Truth[f][l], Truth[s][l]}
    ELSE book = Truth[f]

(* However the archives garbled the feed, a book the replay trusts is the   *)
(* venue's book at the replay's frontier.  After a Bybit snapshot taken     *)
(* ahead of the carried frontier every level is the true one of either      *)
(* position, and the book is exact again once updates reach the snapshot.   *)
BookIsTruthful ==
    replay.valid => Truthful(replay.book, replay.frontier, settled)

(* The same for the artifact the next hour starts from.                     *)
CheckpointIsTruthful ==
    checkpoint # NoCheckpoint =>
        Truthful(checkpoint.book, checkpoint.frontier, checkpointSettled)

(* Binance and OKX snapshots own their frontier: their books are exact at   *)
(* every event, never merely on the way to being so.                        *)
ExactUnlessBybit ==
    Venue # "bybit" /\ replay.valid => replay.book = Truth[replay.frontier]
=============================================================================
