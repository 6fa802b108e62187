--------------------------- MODULE SamplerAgreement ---------------------------
(***************************************************************************)
(* The two one-second samplers over the same archives: the liquidity        *)
(* sampler before each event's application, the book sampler after it.      *)
(* They differ on a receive time that runs backwards, which the first       *)
(* raises to the latest one and the second refuses.                         *)
(***************************************************************************)
EXTENDS LiquiditySampler

VARIABLES
    bookPhase, bookArrivals, current, pendingTime, pending,
    bookNextBucket, samples, bookCompleted

bookVars == <<bookPhase, bookArrivals, current, pendingTime, pending,
              bookNextBucket, samples, bookCompleted>>

Book == INSTANCE BookSampler WITH
    phase <- bookPhase, arrivals <- bookArrivals,
    nextBucket <- bookNextBucket, completed <- bookCompleted

BookStops == bookPhase = "failed" /\ UNCHANGED bookVars

BothInit == Init /\ Book!Init

BothStart == StartArchive /\ (Book!StartArchive \/ BookStops)

BothSee(t) ==
    /\ BeforeEvent(t) \/ RejectEvent(t)
    /\ Book!ObserveEvent(t) \/ Book!RejectEvent(t) \/ BookStops

BothComplete == FinishArchive /\ (Book!FinishActiveHour \/ BookStops)

FinishRun == Finish /\ UNCHANGED bookVars

BothNext ==
    \/ BothStart
    \/ \E t \in -1 .. BucketCount * BucketTicks : BothSee(t)
    \/ BothComplete
    \/ FinishRun

BothSpec == BothInit /\ [][BothNext]_<<vars, bookVars>>

-----------------------------------------------------------------------------
(* The book sampler, too, implements end-of-bucket sampling of every hour   *)
(* it completes.                                                            *)
BookImplementsSampling == Book!ImplementsSampling

(* Whatever order receive times come in, an hour which both samplers        *)
(* complete has the same sample in every bucket: reading the state before   *)
(* each event and holding the newest time back afterwards come to the same. *)
SamplersAgree ==
    phase = "between" /\ bookPhase = "between" /\ completed > 0 =>
        /\ completed = bookCompleted
        /\ observations = samples
=============================================================================
