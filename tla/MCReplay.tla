------------------------------- MODULE MCReplay -------------------------------
(* The small instances of the replay. One behaviour is of one of them, and   *)
(* the variables of the others rest in their initial state:                  *)
(*   feed: a recorded Bybit feed of genuine events, replayed twice, the runs *)
(*         started and restarted each in its own way;                        *)
(*   any: two Bybit replays of archives of any content;                      *)
(*   binance: one replay of a recorded Binance feed.                         *)
EXTENDS RecordedFeed, ReplayAgreement, MCReplayEvents

VARIABLES part, anyReplay, anyCheckpoint, anyInitial, anyAtStart, anyOther, anyOtherCheckpoint,
          binanceReplay, binanceCheckpoint, binanceInitial, binanceAtStart,
          binanceSettled, binanceCheckpointSettled

otherVars == <<other, otherCheckpoint>>
anyVars == <<anyReplay, anyCheckpoint, anyInitial, anyAtStart, anyOther, anyOtherCheckpoint>>
binanceVars == <<binanceReplay, binanceCheckpoint, binanceInitial, binanceAtStart,
                 binanceSettled, binanceCheckpointSettled>>

-----------------------------------------------------------------------------
(* Archives of any content.                                                  *)
Arbitrary ==
    INSTANCE ReplayAgreement WITH
        Events <- MCEvents,
        replay <- anyReplay, checkpoint <- anyCheckpoint,
        initialUpdateId <- anyInitial, atStart <- anyAtStart,
        other <- anyOther, otherCheckpoint <- anyOtherCheckpoint

AnyReplay ==
    INSTANCE OrderBookReplay WITH
        Events <- MCEvents,
        replay <- anyReplay, checkpoint <- anyCheckpoint,
        initialUpdateId <- anyInitial, atStart <- anyAtStart

(* The Binance feed.                                                         *)
BinanceEvents == INSTANCE MCReplayEvents WITH Venue <- "binance_futures"
BinanceFeed == BinanceEvents!MCFeedEvents
BinanceTakenAt == BinanceEvents!MCTakenAt

Binance ==
    INSTANCE RecordedFeed WITH
        Venue <- "binance_futures", Events <- BinanceFeed,
        Recorded <- BinanceFeed, TakenAt <- BinanceTakenAt,
        replay <- binanceReplay, checkpoint <- binanceCheckpoint,
        initialUpdateId <- binanceInitial, atStart <- binanceAtStart,
        settled <- binanceSettled, checkpointSettled <- binanceCheckpointSettled

-----------------------------------------------------------------------------
BothRecord ==
    \/ \E e \in Recorded : Record(e) /\ BothConsume(e)
    \/ CloseArchive /\ BothNextArchive
    \/ Restart /\ UNCHANGED otherVars
    \/ /\ ColdStartOther \/ \E c \in Frozen : RestoreOther(c)
       /\ UNCHANGED <<settled, checkpointSettled>>

MCInit == FeedInit /\ PairInit /\ Arbitrary!PairInit /\ Binance!FeedInit
          /\ part \in {"feed", "any", "binance"}

MCNext ==
    \/ part = "feed" /\ BothRecord /\ UNCHANGED <<part, anyVars, binanceVars>>
    \/ part = "any" /\ Arbitrary!PairNext /\ UNCHANGED <<part, feedVars, otherVars, binanceVars>>
    \/ part = "binance" /\ Binance!FeedNext /\ UNCHANGED <<part, feedVars, otherVars, anyVars>>

MCSpec == MCInit /\ [][MCNext]_<<part, feedVars, otherVars, anyVars, binanceVars>>

-----------------------------------------------------------------------------
(* Two runs agree and never freeze different checkpoints whatever the        *)
(* archives hold: events with the right frontier and the wrong content,      *)
(* one-sided snapshots, snapshots without a frontier.                        *)
AgreeOnAnything ==
    AnyReplay!TypeOK /\ Arbitrary!ReplaysAgree /\ Arbitrary!OneCheckpointPerBoundary

(* The book of Binance, whose snapshots own their frontier, is exact after   *)
(* every event.                                                              *)
BinanceIsExact == Binance!ExactUnlessBybit
=============================================================================
