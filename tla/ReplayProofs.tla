------------------------------ MODULE ReplayProofs ------------------------------
(***************************************************************************)
(* For every venue, set of events, true history and number of prices: the   *)
(* replay keeps its type and owns the frontier of what it applied last, a    *)
(* book it trusts is the venue's book however the archives lose, repeat or   *)
(* reorder events, and replays of the same bytes never contradict each other.*)
(***************************************************************************)
EXTENDS RecordedFeed, ReplayAgreement, TLAPS

(***************************************************************************)
(* 1.  The replay of one archive (OrderBookReplay).                          *)
(***************************************************************************)
-----------------------------------------------------------------------------
(* Lemmas about the operators, used by every proof about the replay.        *)

(* Applying changes to a book yields a book.                                *)
LEMMA ApplyChangesType ==
    ASSUME NEW book \in Books, NEW e \in Events
    PROVE  ApplyChanges(book, e.changes) \in Books
<1>1. e \in EventType
  BY EventAssumption
<1>2. PICK L \in SUBSET Levels :
          e.changes \in [L -> Payloads \cup {Absent}]
  BY <1>1 DEF EventType
<1>3. \A l \in Levels :
          (IF l \in DOMAIN e.changes THEN e.changes[l] ELSE book[l])
              \in Payloads \cup {Absent}
  BY <1>2 DEF Books
<1> QED
  BY <1>3 DEF ApplyChanges, Books

LEMMA EmptyBookType == EmptyBook \in Books
BY DEF EmptyBook, Books

(* A frontier an accepted event sets is a number.                           *)
LEMMA FrontierType ==
    ASSUME NEW e \in Events
    PROVE  /\ SnapshotFrontier(e) \in SequenceId
           /\ ValidUpdate(e) => ResultingFrontier(e) \in Nat
<1>1. e \in EventType
  BY EventAssumption
<1> QED
  BY <1>1 DEF EventType, SequenceId, SnapshotFrontier, ValidUpdate,
              ResultingFrontier

(* The shape of a replay state: the invariant of one record.                *)
Shape(r) ==
    /\ r \in ReplayType
    /\ r.valid =>
        /\ r.frontier \in Nat
        /\ r.init \in {"snapshot", "carried"}
        /\ r.signature # NoEvent =>
               ResultingFrontier(r.signature) = r.frontier
    /\ ~r.valid =>
        /\ r = [Fresh EXCEPT !.init = r.init]
        /\ r.init \in {"uninitialized", "invalidated"}

LEMMA FreshShape == Shape(Fresh) /\ Shape(Invalidated)
<1>1. Fresh \in ReplayType
  BY EmptyBookType DEF Fresh, ReplayType, Initialization, SequenceId
<1>2. Invalidated \in ReplayType
  BY EmptyBookType DEF Invalidated, Fresh, ReplayType, Initialization,
                       SequenceId
<1> QED
  BY <1>1, <1>2 DEF Shape, Fresh, Invalidated

LEMMA MarkCarriedShape ==
    ASSUME NEW r, Shape(r)
    PROVE  Shape(MarkCarried(r))
BY DEF Shape, MarkCarried, ReplayType, Initialization

LEMMA ApplySnapshotShape ==
    ASSUME NEW r, Shape(r), NEW e \in Events
    PROVE  Shape(ApplySnapshot(r, e))
<1>1. CASE AcceptsSnapshot(r, e)
  <2> DEFINE f == IF SnapshotFrontier(e) = NoId
                  THEN r.frontier ELSE SnapshotFrontier(e)
             b == ApplyChanges(EmptyBook, e.changes)
  <2>1. f \in Nat
    BY <1>1, FrontierType DEF AcceptsSnapshot, InheritsFrontier, Shape,
                              SequenceId
  <2>2. b \in Books
    BY EmptyBookType, ApplyChangesType
  <2>3. ApplySnapshot(r, e) =
            [book |-> b, valid |-> TRUE, init |-> "snapshot",
             signature |-> NoEvent, frontier |-> f]
    BY <1>1 DEF ApplySnapshot
  <2> HIDE DEF f, b
  <2> QED
    BY <2>1, <2>2, <2>3 DEF Shape, ReplayType, Initialization, SequenceId
<1>2. CASE ~AcceptsSnapshot(r, e)
  BY <1>2, FreshShape DEF ApplySnapshot
<1> QED
  BY <1>1, <1>2

LEMMA ApplyUpdateShape ==
    ASSUME NEW r, Shape(r), NEW e \in Events
    PROVE  Shape(ApplyUpdate(r, e))
<1>1. CASE ~r.valid \/ RepeatsUpdate(r, e)
  BY <1>1 DEF ApplyUpdate
<1>2. CASE r.valid /\ ~RepeatsUpdate(r, e) /\ ContinuesFrontier(r, e)
  <2> DEFINE b == ApplyChanges(r.book, e.changes)
             f == ResultingFrontier(e)
  <2>1. f \in Nat
    BY <1>2, FrontierType DEF ContinuesFrontier
  <2>2. b \in Books
    BY ApplyChangesType DEF Shape, ReplayType
  <2>3. ApplyUpdate(r, e) = [r EXCEPT !.book = b, !.frontier = f,
                                      !.signature = e]
    BY <1>2 DEF ApplyUpdate
  <2>4. f = ResultingFrontier(e)
    OBVIOUS
  <2> HIDE DEF f, b
  <2> QED
    BY <1>2, <2>1, <2>2, <2>3, <2>4
       DEF Shape, ReplayType, Initialization, SequenceId
<1>3. CASE r.valid /\ ~RepeatsUpdate(r, e) /\ ~ContinuesFrontier(r, e)
  BY <1>3, FreshShape DEF ApplyUpdate
<1> QED
  BY <1>1, <1>2, <1>3

(* Every event leaves the state well-formed.                                *)
LEMMA ApplyShape ==
    ASSUME NEW r, Shape(r), NEW e \in Events
    PROVE  Shape(Apply(r, e))
BY FreshShape, ApplySnapshotShape, ApplyUpdateShape DEF Apply

LEMMA CheckpointOfType ==
    ASSUME NEW r, Shape(r), CheckpointEligible(r)
    PROVE  CheckpointOf(r) \in CheckpointType
BY DEF Shape, CheckpointEligible, CheckpointOf, CheckpointType, ReplayType

LEMMA FromCheckpointShape ==
    ASSUME NEW c \in CheckpointType
    PROVE  Shape(FromCheckpoint(c))
BY DEF Shape, FromCheckpoint, CheckpointType, ReplayType, Initialization,
       SequenceId

-----------------------------------------------------------------------------
(* A checkpoint is only ever frozen from a valid state.                     *)
ReplayInv ==
    /\ Shape(replay)
    /\ checkpoint \in CheckpointType \cup {NoCheckpoint}
    /\ initialUpdateId \in SequenceId
    /\ atStart \in BOOLEAN

LEMMA ReplayInvInit == Init => ReplayInv
BY FreshShape DEF Init, ReplayInv, SequenceId

LEMMA ReplayInvStep == ReplayInv /\ [Next]_vars => ReplayInv'
<1> SUFFICES ASSUME ReplayInv, [Next]_vars
             PROVE  ReplayInv'
  OBVIOUS
<1>1. CASE \E e \in Events : Consume(e)
  BY <1>1, ApplyShape DEF Consume, ReplayInv
<1>2. CASE NextArchive
  <2>1. Shape(replay')
    BY <1>2, MarkCarriedShape DEF NextArchive, ReplayInv
  <2>2. initialUpdateId' \in SequenceId
    BY <1>2 DEF NextArchive, ReplayInv, Shape, ReplayType
  <2> QED
    BY <1>2, <2>1, <2>2, CheckpointOfType DEF NextArchive, ReplayInv
<1>3. CASE Restore
  BY <1>3, FromCheckpointShape DEF Restore, ReplayInv, SequenceId,
                                   CheckpointType
<1>4. CASE ColdStart
  BY <1>4, FreshShape DEF ColdStart, ReplayInv, SequenceId
<1>5. CASE UNCHANGED vars
  BY <1>5 DEF vars, ReplayInv
<1> QED
  BY <1>1, <1>2, <1>3, <1>4, <1>5 DEF Next

THEOREM ReplayInvariant == Spec => []ReplayInv
<1> QED
  BY ReplayInvInit, ReplayInvStep, PTL DEF Spec

(* The state of a replay has the type its class declares, in every run.     *)
THEOREM TypeCorrect == Spec => []TypeOK
<1>1. ReplayInv => TypeOK
  BY DEF ReplayInv, TypeOK, Shape
<1> QED
  BY <1>1, ReplayInvariant, PTL

(* A valid state owns the frontier its last update set and a discarded one  *)
(* keeps nothing: `valid_state_missing_update_id' is never reached.         *)
THEOREM ValidStateOwnsFrontier == Spec => []ValidOwnsFrontier
<1>1. ReplayInv => ValidOwnsFrontier
  BY DEF ReplayInv, ValidOwnsFrontier, Shape
<1> QED
  BY <1>1, ReplayInvariant, PTL

(***************************************************************************)
(* 2.  What the venue published (RecordedFeed).                             *)
(***************************************************************************)
(* Where a book stands: frontier and settling position are known positions. *)
Placed(book, f, s) ==
    /\ f \in Positions
    /\ s \in Positions
    /\ Truthful(book, f, s)
    /\ Venue # "bybit" => s =< f

FeedInv ==
    /\ ReplayInv
    /\ replay.valid => Placed(replay.book, replay.frontier, settled)
    /\ checkpoint # NoCheckpoint =>
           Placed(checkpoint.book, checkpoint.frontier, checkpointSettled)

(* Only Bybit accepts a snapshot that does not own its frontier.            *)
LEMMA FrontierLessIsBybit ==
    ASSUME NEW e \in Recorded, FrontierLess(e)
    PROVE  Venue = "bybit"
BY DEF FrontierLess, ValidSnapshot

(* One genuine update moves a placed book one step along the true history.  *)
(* Level by level: a touched level takes its true value at the new          *)
(* frontier; an untouched one did not change between the two positions.     *)
LEMMA UpdatePlaced ==
    ASSUME NEW book \in Books, NEW f \in Positions, NEW s \in Positions,
           Placed(book, f, s), NEW e \in Recorded, ValidUpdate(e),
           GenuineUpdate(e), PredecessorFrontier(e) = f
    PROVE  Placed(ApplyChanges(book, e.changes), ResultingFrontier(e), s)
<1> DEFINE g == ResultingFrontier(e)
           after == ApplyChanges(book, e.changes)
<1>1. g \in Positions /\ g > f /\ g \in Nat /\ f \in Nat /\ s \in Nat
  BY TruthAssumption DEF GenuineUpdate, ValidUpdate
<1>2. Truth[g] = ApplyChanges(Truth[f], e.changes)
  BY DEF GenuineUpdate
<1>3. CASE s =< f
  <2>1. book = Truth[f]
    BY <1>1, <1>3 DEF Placed, Truthful
  <2>2. after = Truth[g] /\ s =< g
    BY <1>1, <1>2, <1>3, <2>1
  <2> QED
    BY <1>1, <1>3, <2>2 DEF Placed, Truthful
<1>4. CASE f < s
  <2>1. Venue = "bybit"
    BY <1>1, <1>4 DEF Placed
  <2>2. g = f + 1
    BY <1>1, <2>1 DEF PredecessorFrontier, ResultingFrontier
  <2>3. ASSUME NEW l \in Levels
        PROVE  after[l] \in {Truth[g][l], Truth[s][l]}
    <3>1. book[l] \in {Truth[f][l], Truth[s][l]}
      BY <1>4, <2>3 DEF Placed, Truthful
    <3> QED
      BY <1>2, <3>1 DEF ApplyChanges
  <2>4. CASE g < s
    BY <1>1, <2>1, <2>3, <2>4 DEF Placed, Truthful
  <2>5. CASE g = s
    <3>1. \A l \in Levels : after[l] = Truth[g][l]
      BY <2>3, <2>5
    <3>2. Truth[g] \in Books
      BY <1>1, TruthAssumption
    <3>3. after \in Books
      BY RecordedAssumption, ApplyChangesType
    <3>4. after = Truth[g]
      BY <3>1, <3>2, <3>3 DEF Books
    <3> QED
      BY <1>1, <2>1, <2>5, <3>4 DEF Placed, Truthful
  <2> QED
    BY <1>1, <1>4, <2>2, <2>4, <2>5
<1> QED
  BY <1>1, <1>3, <1>4

LEMMA FeedInvInit == FeedInit => FeedInv
BY ReplayInvInit DEF FeedInit, FeedInv, Init, Fresh

(* A snapshot puts the book at a true position at or ahead of its frontier. *)
LEMMA SnapshotPlaced ==
    ASSUME FeedInv, NEW e \in Recorded, Record(e), e.own, e.type = "snapshot",
           AcceptsSnapshot(replay, e)
    PROVE  Placed(replay'.book, replay'.frontier, settled')
<1> DEFINE b == ApplyChanges(EmptyBook, e.changes)
<1>1. /\ replay'.book = b
      /\ replay'.valid
      /\ replay'.frontier = IF SnapshotFrontier(e) = NoId
                            THEN replay.frontier ELSE SnapshotFrontier(e)
  BY DEF Record, Consume, Apply, ApplySnapshot
<1>2. ValidSnapshot(e)
  BY DEF AcceptsSnapshot
<1>3. CASE FrontierLess(e)
  <2>1. GenuineSnapshot(e, TakenAt[e])
    BY <1>2, <1>3, GenuineAssumption
  <2>2. replay.valid /\ replay.frontier # NoId /\ SnapshotFrontier(e) = NoId
    BY <1>3 DEF FrontierLess, AcceptsSnapshot, InheritsFrontier
  <2>3. replay.frontier \in Positions /\ TakenAt[e] \in Positions
    BY <2>1, <2>2 DEF FeedInv, Placed, GenuineSnapshot
  <2>4. TakenAt[e] >= replay.frontier /\ settled' = TakenAt[e]
    BY <1>1, <1>3, <2>2 DEF Record
  <2>5. replay.frontier \in Nat /\ TakenAt[e] \in Nat
    BY <2>3, TruthAssumption
  <2>6. b = Truth[TakenAt[e]]
    BY <2>1 DEF GenuineSnapshot
  <2>7. replay'.frontier = replay.frontier /\ Venue = "bybit"
    BY <1>1, <1>3, <2>2, FrontierLessIsBybit
  <2> QED
    BY <1>1, <2>3, <2>4, <2>5, <2>6, <2>7 DEF Placed, Truthful
<1>4. CASE ~FrontierLess(e)
  <2>1. SnapshotFrontier(e) # NoId
    BY <1>2, <1>4 DEF FrontierLess
  <2>2. GenuineSnapshot(e, SnapshotFrontier(e))
    BY <1>2, <1>4, GenuineAssumption
  <2>3. replay'.frontier = SnapshotFrontier(e) /\ settled' = replay'.frontier
    BY <1>1, <1>4, <2>1 DEF Record
  <2>4. replay'.frontier \in Positions /\ b = Truth[replay'.frontier]
    BY <2>2, <2>3 DEF GenuineSnapshot
  <2>5. replay'.frontier \in Nat
    BY <2>4, TruthAssumption
  <2> QED
    BY <1>1, <2>3, <2>4, <2>5 DEF Placed, Truthful
<1> QED
  BY <1>3, <1>4

LEMMA RecordPreserves ==
    ASSUME FeedInv, NEW e \in Recorded, Record(e)
    PROVE  FeedInv'
<1>1. ReplayInv'
  BY ReplayInvStep, RecordedAssumption DEF FeedInv, Record, Next
<1>2. ~Invalidated.valid
  BY DEF Invalidated, Fresh
<1>3. e \in EventType
  BY EventAssumption, RecordedAssumption
<1>4. ASSUME replay'.valid
      PROVE  Placed(replay'.book, replay'.frontier, settled')
  <2>1. e.own
    BY <1>2, <1>4 DEF Record, Consume, Apply
  <2>2. CASE e.type = "snapshot"
    <3>1. AcceptsSnapshot(replay, e)
      BY <1>2, <1>4, <2>1, <2>2 DEF Record, Consume, Apply, ApplySnapshot
    <3> QED
      BY <2>1, <2>2, <3>1, SnapshotPlaced
  <2>3. CASE e.type = "update"
    <3>1. replay' = ApplyUpdate(replay, e) /\ settled' = settled
      BY <1>4, <2>1, <2>3 DEF Record, Consume, Apply
    <3>2. replay.valid
      BY <1>4, <3>1 DEF ApplyUpdate
    <3>3. Placed(replay.book, replay.frontier, settled)
      BY <3>2 DEF FeedInv
    <3>4. CASE RepeatsUpdate(replay, e)
      BY <3>1, <3>3, <3>4 DEF ApplyUpdate
    <3>5. CASE ~RepeatsUpdate(replay, e)
      <4>1. ContinuesFrontier(replay, e)
        BY <1>2, <1>4, <3>1, <3>2, <3>5 DEF ApplyUpdate
      <4>2. replay' = [replay EXCEPT
                         !.book = ApplyChanges(replay.book, e.changes),
                         !.frontier = ResultingFrontier(e),
                         !.signature = e]
        BY <3>1, <3>2, <3>5, <4>1 DEF ApplyUpdate
      <4>3. replay \in ReplayType
        BY DEF FeedInv, ReplayInv, Shape
      <4>4. /\ replay'.book = ApplyChanges(replay.book, e.changes)
            /\ replay'.frontier = ResultingFrontier(e)
        BY <4>2, <4>3 DEF ReplayType
      <4>5. ValidUpdate(e) /\ PredecessorFrontier(e) = replay.frontier
        BY <4>1 DEF ContinuesFrontier
      <4>6. GenuineUpdate(e)
        BY <2>1, <2>3, <4>5, GenuineAssumption
      <4>7. replay.book \in Books /\ replay.frontier \in Positions
            /\ settled \in Positions
        BY <3>3, <4>3 DEF Placed, ReplayType
      <4> QED
        BY <3>1, <3>3, <4>4, <4>5, <4>6, <4>7, UpdatePlaced
    <3> QED
      BY <3>4, <3>5
  <2> QED
    BY <1>3, <2>2, <2>3 DEF EventType
<1>5. /\ checkpoint' = checkpoint
      /\ checkpointSettled' = checkpointSettled
  BY DEF Record, Consume
<1> QED
  BY <1>1, <1>4, <1>5 DEF FeedInv

LEMMA FeedInvStep == FeedInv /\ [FeedNext]_feedVars => FeedInv'
<1> SUFFICES ASSUME FeedInv, [FeedNext]_feedVars
             PROVE  FeedInv'
  OBVIOUS
<1>1. CASE \E e \in Recorded : Record(e)
  BY <1>1, RecordPreserves
<1>2. CASE CloseArchive
  <2>1. ReplayInv'
    BY <1>2, ReplayInvStep DEF FeedInv, CloseArchive, Next
  <2>2. replay'.valid => /\ replay.valid
                         /\ replay'.book = replay.book
                         /\ replay'.frontier = replay.frontier
    BY <1>2 DEF CloseArchive, NextArchive, MarkCarried, FeedInv, ReplayInv,
                Shape, ReplayType
  <2>3. checkpoint' # NoCheckpoint => /\ replay.valid
                                      /\ checkpoint'.book = replay.book
                                      /\ checkpoint'.frontier = replay.frontier
    BY <1>2 DEF CloseArchive, NextArchive, CheckpointEligible, CheckpointOf
  <2>4. settled' = settled /\ checkpointSettled' = settled
    BY <1>2 DEF CloseArchive
  <2> QED
    BY <2>1, <2>2, <2>3, <2>4 DEF FeedInv
<1>3. CASE Restart
  <2>1. ReplayInv'
    BY <1>3, ReplayInvStep DEF FeedInv, Restart, Next
  <2>2. CASE Restore /\ settled' = checkpointSettled
    BY <1>3, <2>1, <2>2 DEF Restart, Restore, FromCheckpoint, FeedInv
  <2>3. CASE ColdStart
    BY <1>3, <2>1, <2>3 DEF Restart, ColdStart, Fresh, FeedInv
  <2> QED
    BY <1>3, <2>2, <2>3 DEF Restart
<1>4. CASE UNCHANGED feedVars
  <2>1. ReplayInv'
    BY <1>4, ReplayInvStep DEF FeedInv, feedVars
  <2> QED
    BY <1>4, <2>1 DEF feedVars, vars, FeedInv
<1> QED
  BY <1>1, <1>2, <1>3, <1>4 DEF FeedNext

THEOREM FeedInvariant == FeedSpec => []FeedInv
<1> QED
  BY FeedInvInit, FeedInvStep, PTL DEF FeedSpec

(* A book the replay trusts is the venue's book at the replay's frontier    *)
(* (between two true positions while a Bybit snapshot is being caught up).  *)
THEOREM TrustedBookIsTruthful == FeedSpec => []BookIsTruthful
<1>1. FeedInv => BookIsTruthful
  BY DEF FeedInv, Placed, BookIsTruthful
<1> QED
  BY <1>1, FeedInvariant, PTL

(* A frozen checkpoint is the venue's book at the checkpoint's frontier.    *)
THEOREM FrozenCheckpointIsTruthful == FeedSpec => []CheckpointIsTruthful
<1>1. FeedInv => CheckpointIsTruthful
  BY DEF FeedInv, Placed, CheckpointIsTruthful
<1> QED
  BY <1>1, FeedInvariant, PTL

(* For Binance and OKX the trusted book is exact after every event.         *)
THEOREM TrustedBookIsExact == FeedSpec => []ExactUnlessBybit
<1>1. FeedInv => ExactUnlessBybit
  <2> SUFFICES ASSUME FeedInv, Venue # "bybit", replay.valid
               PROVE  replay.book = Truth[replay.frontier]
    BY DEF ExactUnlessBybit
  <2>1. /\ settled =< replay.frontier
        /\ settled \in Nat
        /\ replay.frontier \in Nat
        /\ Truthful(replay.book, replay.frontier, settled)
    BY TruthAssumption DEF FeedInv, Placed
  <2> QED
    BY <2>1 DEF Truthful
<1> QED
  BY <1>1, FeedInvariant, PTL

(***************************************************************************)
(* 3.  Two replays of the same bytes (ReplayAgreement).                     *)
(***************************************************************************)
(* Two states that agree if both are valid.                                 *)
Consistent(r, s) == r.valid /\ s.valid => Agree(r, s)

(* A snapshot replaces both states, or only those that may inherit.         *)
LEMMA SnapshotConsistent ==
    ASSUME NEW r, NEW s, Consistent(r, s), Shape(r), Shape(s), NEW e \in Events
    PROVE  Consistent(ApplySnapshot(r, e), ApplySnapshot(s, e))
<1>1. CASE AcceptsSnapshot(r, e) /\ AcceptsSnapshot(s, e)
  <2>1. SnapshotFrontier(e) = NoId => r.frontier = s.frontier
    BY <1>1 DEF AcceptsSnapshot, InheritsFrontier, Consistent, Agree
  <2> QED
    BY <1>1, <2>1 DEF ApplySnapshot, Consistent, Agree
<1>2. CASE ~AcceptsSnapshot(r, e) \/ ~AcceptsSnapshot(s, e)
  <2>1. ~Invalidated.valid
    BY DEF Invalidated, Fresh
  <2> QED
    BY <1>2, <2>1 DEF ApplySnapshot, Consistent
<1> QED
  BY <1>1, <1>2

(* An update one state applies cannot be one the other, at the same         *)
(* frontier, skips as a repeat: the repeat's frontier is not ahead.         *)
LEMMA UpdateConsistent ==
    ASSUME NEW r, NEW s, Consistent(r, s), Shape(r), Shape(s), NEW e \in Events
    PROVE  Consistent(ApplyUpdate(r, e), ApplyUpdate(s, e))
<1>1. ~Invalidated.valid
  BY DEF Invalidated, Fresh
<1>2. CASE ~r.valid \/ ~s.valid
  BY <1>2 DEF ApplyUpdate, Consistent
<1>3. CASE r.valid /\ s.valid
  <2>1. Agree(r, s) /\ r.frontier \in Nat /\ s.frontier \in Nat
    BY <1>3 DEF Consistent, Shape
  <2>2. RepeatsUpdate(r, e) => ~ContinuesFrontier(s, e)
    BY <2>1 DEF RepeatsUpdate, ContinuesFrontier, Agree
  <2>3. RepeatsUpdate(s, e) => ~ContinuesFrontier(r, e)
    BY <2>1 DEF RepeatsUpdate, ContinuesFrontier, Agree
  <2>4. ContinuesFrontier(r, e) <=> ContinuesFrontier(s, e)
    BY <2>1 DEF ContinuesFrontier, Agree
  <2>5. CASE ContinuesFrontier(r, e)
    <3>1. /\ ApplyUpdate(r, e) = [r EXCEPT !.book = ApplyChanges(r.book, e.changes),
                                    !.frontier = ResultingFrontier(e),
                                    !.signature = e]
          /\ ApplyUpdate(s, e) = [s EXCEPT !.book = ApplyChanges(s.book, e.changes),
                                    !.frontier = ResultingFrontier(e),
                                    !.signature = e]
      BY <1>3, <2>2, <2>3, <2>4, <2>5 DEF ApplyUpdate
    <3>2. r \in ReplayType /\ s \in ReplayType
      BY DEF Shape
    <3> QED
      BY <2>1, <3>1, <3>2 DEF Consistent, Agree, ReplayType
  <2>6. CASE ~ContinuesFrontier(r, e)
    <3>1. /\ ApplyUpdate(r, e) \in {r, Invalidated}
          /\ ApplyUpdate(s, e) \in {s, Invalidated}
      BY <2>4, <2>6 DEF ApplyUpdate
    <3> QED
      BY <1>1, <2>1, <3>1 DEF Consistent
  <2> QED
    BY <2>5, <2>6
<1> QED
  BY <1>2, <1>3

LEMMA ApplyConsistent ==
    ASSUME NEW r, NEW s, Consistent(r, s), Shape(r), Shape(s), NEW e \in Events
    PROVE  Consistent(Apply(r, e), Apply(s, e))
<1>1. ~Invalidated.valid
  BY DEF Invalidated, Fresh
<1>2. Consistent(Invalidated, Invalidated)
  BY <1>1 DEF Consistent
<1> QED
  BY <1>2, SnapshotConsistent, UpdateConsistent DEF Apply

-----------------------------------------------------------------------------
PairInv ==
    /\ ReplayInv
    /\ Shape(other)
    /\ otherCheckpoint \in CheckpointType \cup {NoCheckpoint}
    /\ ReplaysAgree
    /\ OneCheckpointPerBoundary

LEMMA PairInvInit == PairInit => PairInv
<1> SUFFICES ASSUME PairInit
             PROVE  PairInv
  OBVIOUS
<1>1. ReplayInv
  BY ReplayInvInit DEF PairInit
<1>2. ~Fresh.valid
  BY DEF Fresh
<1>3. Frozen = {}
  BY DEF PairInit, Init, Frozen
<1> QED
  BY <1>1, <1>2, <1>3, FreshShape
     DEF PairInit, PairInv, ReplaysAgree, OneCheckpointPerBoundary

(* Carrying over a boundary changes neither book nor frontier, so whatever  *)
(* is frozen there agrees with whatever is carried.                         *)
LEMMA NextArchiveAgrees ==
    ASSUME PairInv, BothNextArchive
    PROVE  ReplaysAgree' /\ OneCheckpointPerBoundary'
<1>1. ASSUME NEW r, Shape(r)
      PROVE  MarkCarried(r).valid = r.valid /\ Agree(MarkCarried(r), r)
  BY <1>1 DEF MarkCarried, Agree, Shape, ReplayType
<1>2. /\ replay'.valid = replay.valid /\ Agree(replay', replay)
      /\ other'.valid = other.valid /\ Agree(other', other)
  BY <1>1 DEF BothNextArchive, NextArchive, PairInv, ReplayInv
<1>3. ReplaysAgree'
  BY <1>2 DEF PairInv, ReplaysAgree, Agree
<1>4. ASSUME NEW c \in Frozen'
      PROVE  \E r \in {replay, other} :
                 /\ CheckpointEligible(r)
                 /\ c = CheckpointOf(r)
  BY <1>4 DEF Frozen, BothNextArchive, NextArchive
<1>5. ASSUME NEW c \in Frozen'
      PROVE  /\ \A d \in Frozen' : c = d
             /\ \A r \in {replay', other'} : r.valid => Agree(r, c)
  <2>1. PICK r \in {replay, other} : CheckpointEligible(r) /\ c = CheckpointOf(r)
    BY <1>4, <1>5
  <2>2. \A s \in {replay, other} : s.valid => Agree(s, r)
    BY <2>1 DEF PairInv, ReplaysAgree, Agree, CheckpointEligible
  <2>3. \A s \in {replay', other'} : s.valid => Agree(s, c)
    BY <1>2, <2>1, <2>2 DEF Agree, CheckpointOf
  <2>4. ASSUME NEW d \in Frozen'
        PROVE  c = d
    <3>1. PICK s \in {replay, other} :
              CheckpointEligible(s) /\ d = CheckpointOf(s)
      BY <1>4, <2>4
    <3> QED
      BY <2>1, <2>2, <3>1 DEF CheckpointEligible, CheckpointOf, Agree
  <2> QED
    BY <2>3, <2>4
<1> QED
  BY <1>3, <1>5 DEF OneCheckpointPerBoundary

LEMMA PairInvStep == PairInv /\ [PairNext]_pairVars => PairInv'
<1> SUFFICES ASSUME PairInv, [PairNext]_pairVars
             PROVE  PairInv'
  OBVIOUS
<1>1. [Next]_vars
  BY DEF PairNext, pairVars, BothConsume, BothNextArchive, RestartReplay,
         RestoreOther, ColdStartOther, Next
<1>2. ReplayInv'
  BY <1>1, ReplayInvStep DEF PairInv
<1>3. Frozen \subseteq CheckpointType
  BY DEF PairInv, ReplayInv, Frozen
<1>4. CASE \E e \in Events : BothConsume(e)
  <2>1. PICK e \in Events : BothConsume(e)
    BY <1>4
  <2>2. Shape(other')
    BY <2>1, ApplyShape DEF PairInv, BothConsume
  <2>3. ReplaysAgree'
    BY <2>1, ApplyConsistent
       DEF PairInv, ReplayInv, ReplaysAgree, Consistent, BothConsume, Consume
  <2>4. Frozen' = Frozen /\ ~atStart'
    BY <2>1 DEF BothConsume, Consume, Frozen
  <2> QED
    BY <1>2, <2>1, <2>2, <2>3, <2>4
       DEF PairInv, OneCheckpointPerBoundary, BothConsume
<1>5. CASE BothNextArchive
  <2>1. Shape(other')
    BY <1>5, MarkCarriedShape DEF PairInv, BothNextArchive
  <2> QED
    BY <1>2, <1>5, <2>1, NextArchiveAgrees, CheckpointOfType
       DEF PairInv, BothNextArchive
<1>6. CASE RestartReplay
  <2>1. replay' = Fresh \/ \E c \in Frozen : replay' = FromCheckpoint(c)
    BY <1>6 DEF RestartReplay, Restore, ColdStart, Frozen
  <2>2. Frozen' = Frozen /\ atStart /\ atStart' /\ other' = other
    BY <1>6 DEF RestartReplay, Restore, ColdStart, Frozen
  <2>3. CASE replay' = Fresh
    BY <1>2, <1>6, <2>2, <2>3
       DEF Fresh, PairInv, ReplaysAgree, OneCheckpointPerBoundary,
           RestartReplay
  <2>4. CASE \E c \in Frozen : replay' = FromCheckpoint(c)
    <3>1. PICK c \in Frozen : replay' = FromCheckpoint(c)
      BY <2>4
    <3>2. Agree(replay', c)
      BY <3>1 DEF Agree, FromCheckpoint
    <3> QED
      BY <1>2, <1>6, <2>2, <3>1, <3>2
         DEF PairInv, ReplaysAgree, OneCheckpointPerBoundary, Agree,
             RestartReplay
  <2> QED
    BY <2>1, <2>3, <2>4
<1>7. CASE \E c \in Frozen : RestoreOther(c)
  <2>1. PICK c \in Frozen : RestoreOther(c)
    BY <1>7
  <2>2. Agree(other', c) /\ Shape(other')
    BY <1>3, <2>1, FromCheckpointShape DEF Agree, FromCheckpoint, RestoreOther
  <2>3. Frozen' = Frozen /\ atStart /\ atStart' /\ replay' = replay
    BY <2>1 DEF RestoreOther, Frozen, vars
  <2> QED
    BY <1>2, <2>1, <2>2, <2>3
       DEF PairInv, ReplaysAgree, OneCheckpointPerBoundary, Agree,
           RestoreOther
<1>8. CASE ColdStartOther
  <2>1. Frozen' = Frozen /\ atStart /\ atStart' /\ replay' = replay
    BY <1>8 DEF ColdStartOther, Frozen, vars
  <2>2. Shape(other') /\ ~other'.valid
    BY <1>8, FreshShape DEF ColdStartOther, Fresh
  <2> QED
    BY <1>2, <1>8, <2>1, <2>2
       DEF PairInv, ReplaysAgree, OneCheckpointPerBoundary, ColdStartOther
<1>9. CASE UNCHANGED pairVars
  BY <1>2, <1>9 DEF pairVars, vars, PairInv, ReplaysAgree,
                    OneCheckpointPerBoundary, Frozen
<1> QED
  BY <1>4, <1>5, <1>6, <1>7, <1>8, <1>9 DEF PairNext

THEOREM PairInvariant == PairSpec => []PairInv
<1> QED
  BY PairInvInit, PairInvStep, PTL DEF PairSpec

(* Two replays of the same archives that both trust their books hold the    *)
(* same book at the same frontier.                                          *)
THEOREM Agreement == PairSpec => []ReplaysAgree
<1>1. PairInv => ReplaysAgree
  BY DEF PairInv
<1> QED
  BY <1>1, PairInvariant, PTL

(* Re-replaying the same bytes never freezes a different checkpoint.        *)
THEOREM CheckpointsNeverConflict == PairSpec => []OneCheckpointPerBoundary
<1>1. PairInv => OneCheckpointPerBoundary
  BY DEF PairInv
<1> QED
  BY <1>1, PairInvariant, PTL
================================================================================
