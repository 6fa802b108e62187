--------------------------- MODULE OrderBookReplay ---------------------------
(***************************************************************************)
(* Strict order-book replay: l2shock/ingest/replay.py.                      *)
(*                                                                         *)
(* One OrderBookReplayState consumes the events of consecutive hourly       *)
(* archives.  A run starts cold, or from the checkpoint that froze the      *)
(* state at the end of the preceding hour, or goes on with the state        *)
(* carried in memory from that hour.  Any breach of the sequence contract   *)
(* discards the whole book until a complete snapshot re-establishes it.     *)
(*                                                                         *)
(* The events of an archive are any sequence over Events: the provider may  *)
(* drop, repeat, reorder or garble what the venue sent.                     *)
(***************************************************************************)
EXTENDS VenueSequence

CONSTANTS
    Prices,         \* price levels, by their order
    Payloads,       \* positive (quantity, order_count) payloads
    Absent,         \* no level at a price; in a change, quantity zero
    Events,         \* the normalized events an archive may hold
    NoEvent,        \* no signature of a last applied update
    NoCheckpoint

Sides == {"bid", "ask"}
Levels == Sides \X Prices
Books == [Levels -> Payloads \cup {Absent}]

(* OrderBookEvent.  The reader admits one mutation per level and event, so  *)
(* the changes are a partial function on levels; `own' says the symbol is   *)
(* the replayed one, `timed' that transaction_time is present.              *)
EventType ==
    [type : {"snapshot", "update"}, own : BOOLEAN, timed : BOOLEAN,
     first : SequenceId, final : SequenceId,
     prev : SequenceId, last : SequenceId,
     changes : UNION {[L -> Payloads \cup {Absent}] : L \in SUBSET Levels}]

ASSUME PriceAssumption == Prices \subseteq Nat
ASSUME PayloadAssumption == Absent \notin Payloads
ASSUME EventAssumption == Events \subseteq EventType /\ NoEvent \notin Events

-----------------------------------------------------------------------------
(* The replay state of one market, as a record.                             *)

EmptyBook == [l \in Levels |-> Absent]

Initialization == {"uninitialized", "carried", "snapshot", "invalidated"}

ReplayType ==
    [book : Books, valid : BOOLEAN, init : Initialization,
     frontier : SequenceId, signature : Events \cup {NoEvent}]

Fresh ==
    [book |-> EmptyBook, valid |-> FALSE, init |-> "uninitialized",
     frontier |-> NoId, signature |-> NoEvent]

Invalidated == [Fresh EXCEPT !.init = "invalidated"]

MarkCarried(r) == IF r.valid THEN [r EXCEPT !.init = "carried"] ELSE r

(* Absolute quantities: a change replaces the level, zero removes it.       *)
ApplyChanges(book, changes) ==
    [l \in Levels |-> IF l \in DOMAIN changes THEN changes[l] ELSE book[l]]

HasSide(book, s) == \E p \in Prices : book[<<s, p>>] # Absent
TwoSided(book) == \A s \in Sides : HasSide(book, s)

(* Slip: a snapshot without a frontier is taken whatever the state is.      *)
InheritsUnconditionally(r) == TRUE

(* A snapshot without a frontier keeps the carried one.                     *)
InheritsFrontier(r) ==
    /\ r.valid
    /\ r.frontier # NoId
    /\ r.init = "carried"

AcceptsSnapshot(r, e) ==
    /\ ValidSnapshot(e)
    /\ SnapshotFrontier(e) = NoId => InheritsFrontier(r)
    /\ TwoSided(ApplyChanges(EmptyBook, e.changes))

(* Slip: the snapshot is merged into the live book.                         *)
MergeSnapshot(r, e) ==
    IF AcceptsSnapshot(r, e)
    THEN [book |-> ApplyChanges(r.book, e.changes), valid |-> TRUE,
          init |-> "snapshot", signature |-> NoEvent,
          frontier |-> IF SnapshotFrontier(e) = NoId
                       THEN r.frontier ELSE SnapshotFrontier(e)]
    ELSE Invalidated

ApplySnapshot(r, e) ==
    IF AcceptsSnapshot(r, e)
    THEN [book |-> ApplyChanges(EmptyBook, e.changes), valid |-> TRUE,
          init |-> "snapshot", signature |-> NoEvent,
          frontier |-> IF SnapshotFrontier(e) = NoId
                       THEN r.frontier ELSE SnapshotFrontier(e)]
    ELSE Invalidated

(* An exact repeat of the update applied last.                              *)
RepeatsUpdate(r, e) ==
    /\ ValidUpdate(e)
    /\ ResultingFrontier(e) = r.frontier
    /\ r.signature = e

(* Slip: any update ahead of the frontier is applied, gap or not.           *)
BridgesGap(r, e) ==
    /\ ValidUpdate(e)
    /\ r.frontier # NoId
    /\ ResultingFrontier(e) > r.frontier

ContinuesFrontier(r, e) ==
    /\ ValidUpdate(e)
    /\ r.frontier # NoId
    /\ ResultingFrontier(e) > r.frontier
    /\ PredecessorFrontier(e) = r.frontier

(* Slip: an uninitialized book starts from the first update it sees.        *)
AdoptUpdate(r, e) ==
    IF ValidUpdate(e) /\ (~r.valid \/ ContinuesFrontier(r, e))
    THEN [r EXCEPT !.book = ApplyChanges(r.book, e.changes),
                   !.valid = TRUE,
                   !.init = IF r.valid THEN r.init ELSE "snapshot",
                   !.frontier = ResultingFrontier(e),
                   !.signature = e]
    ELSE IF ~r.valid \/ RepeatsUpdate(r, e) THEN r
    ELSE Invalidated

ApplyUpdate(r, e) ==
    IF ~r.valid \/ RepeatsUpdate(r, e) THEN r
    ELSE IF ContinuesFrontier(r, e)
         THEN [r EXCEPT !.book = ApplyChanges(r.book, e.changes),
                        !.frontier = ResultingFrontier(e),
                        !.signature = e]
         ELSE Invalidated

Apply(r, e) ==
    IF ~e.own THEN Invalidated
    ELSE IF e.type = "snapshot" THEN ApplySnapshot(r, e)
    ELSE ApplyUpdate(r, e)

-----------------------------------------------------------------------------
(* Checkpoints at the end of an hour.                                       *)

CheckpointEligible(r) == r.valid /\ r.frontier # NoId /\ TwoSided(r.book)

CheckpointOf(r) == [book |-> r.book, frontier |-> r.frontier]

CheckpointType == [book : Books, frontier : Nat]

FromCheckpoint(c) ==
    [book |-> c.book, valid |-> TRUE, init |-> "carried",
     frontier |-> c.frontier, signature |-> NoEvent]

-----------------------------------------------------------------------------
VARIABLES
    replay,             \* the state of the running replay
    checkpoint,         \* the checkpoint of the archive just ended
    initialUpdateId,    \* the frontier at the start of this archive
    atStart             \* no event of this archive was consumed yet

vars == <<replay, checkpoint, initialUpdateId, atStart>>

TypeOK ==
    /\ replay \in ReplayType
    /\ checkpoint \in CheckpointType \cup {NoCheckpoint}
    /\ initialUpdateId \in SequenceId
    /\ atStart \in BOOLEAN

Init ==
    /\ replay = Fresh
    /\ checkpoint = NoCheckpoint
    /\ initialUpdateId = NoId
    /\ atStart = TRUE

Consume(e) ==
    /\ replay' = Apply(replay, e)
    /\ atStart' = FALSE
    /\ UNCHANGED <<checkpoint, initialUpdateId>>

(* The next archive of the chain begins with the state carried in memory;   *)
(* had the chain ended here, it would have returned the checkpoint.         *)
NextArchive ==
    /\ replay' = MarkCarried(replay)
    /\ checkpoint' = IF CheckpointEligible(replay)
                     THEN CheckpointOf(replay) ELSE NoCheckpoint
    /\ initialUpdateId' = replay.frontier
    /\ atStart' = TRUE

(* A new run that starts at this archive, from the checkpoint or cold.      *)
Restore ==
    /\ atStart
    /\ checkpoint # NoCheckpoint
    /\ replay' = FromCheckpoint(checkpoint)
    /\ initialUpdateId' = checkpoint.frontier
    /\ UNCHANGED <<checkpoint, atStart>>

ColdStart ==
    /\ atStart
    /\ replay' = Fresh
    /\ initialUpdateId' = NoId
    /\ UNCHANGED <<checkpoint, atStart>>

Next ==
    \/ \E e \in Events : Consume(e)
    \/ NextArchive
    \/ Restore
    \/ ColdStart

Spec == Init /\ [][Next]_vars
-----------------------------------------------------------------------------
(* What the sampler and the checkpoint codec rely on: a valid state always  *)
(* owns a frontier, so the branch `valid_state_missing_update_id' of        *)
(* _apply_update is dead, and its last signature is the update that set the *)
(* frontier; a discarded state keeps nothing, so nothing of a book that     *)
(* failed can leak into the one a later snapshot builds.                    *)
ValidOwnsFrontier ==
    /\ replay.valid =>
        /\ replay.frontier \in Nat
        /\ replay.init \in {"snapshot", "carried"}
        /\ replay.signature # NoEvent =>
               ResultingFrontier(replay.signature) = replay.frontier
    /\ ~replay.valid =>
        /\ replay = [Fresh EXCEPT !.init = replay.init]
        /\ replay.init \in {"uninitialized", "invalidated"}

(* replay.py, on a snapshot without its frontier: "The replay frontier must *)
(* not be inherited from an in-archive snapshot or update."  If such a      *)
(* snapshot is accepted, the frontier it keeps is the one the archive began *)
(* with.                                                                    *)
FrontierInheritedFromBoundary ==
    [][\A e \in Events :
          /\ Consume(e)
          /\ e.type = "snapshot"
          /\ SnapshotFrontier(e) = NoId
          /\ replay'.valid
          => replay'.frontier = initialUpdateId]_vars
=============================================================================
