--------------------------- MODULE LiquiditySampler ---------------------------
(***************************************************************************)
(* OneSecondLiquiditySampler of liquidity/hourly.py, driven by the          *)
(* callbacks of replay_orderbook_archives: start_archive before the first   *)
(* event, before_event ahead of each event's application, finish_archive    *)
(* after the last.  It borrows the replay state and emits buckets eagerly,  *)
(* so what it writes is decided before the rest of the hour is known.       *)
(***************************************************************************)
EXTENDS Integers, Sequences

CONSTANTS
    BucketCount,    \* observations per hour: 3,600
    BucketTicks,    \* clock ticks per bucket: nanoseconds per second
    Open,           \* no value yet
    EventLimit,     \* bound: events per hour
    HourLimit       \* bound: archives per chain

VARIABLES
    phase,          \* is an hour active; has the run failed or finished
    arrivals,       \* receive times applied so far (the replay's history)
    lastTime,       \* _last_event_received_time_ns, Open while null
    nextBucket,     \* _next_bucket_index
    observations,   \* state per bucket; meaningful below nextBucket
    completed       \* number of completed hours

vars == <<phase, arrivals, lastTime, nextBucket, observations, completed>>

Sampling == INSTANCE EndOfBucketSampling WITH
    samples <- IF phase \in {"between", "finished"} /\ completed > 0
               THEN observations ELSE Open

ASSUME BucketAssumption ==
    BucketCount \in Nat \ {0} /\ BucketTicks \in Nat \ {0}
ASSUME OpenAssumption ==
    Open \notin Int /\ Open \notin [Sampling!Buckets -> Nat]

Blank == [i \in Sampling!Buckets |-> 0]

TypeOK ==
    /\ phase \in {"between", "active", "failed", "finished"}
    /\ arrivals \in Seq(Sampling!HourTicks)
    /\ lastTime \in Sampling!HourTicks \cup {Open}
    /\ nextBucket \in 0 .. BucketCount
    /\ observations \in [Sampling!Buckets -> Nat]
    /\ completed \in Nat

Init ==
    /\ phase = "between"
    /\ arrivals = <<>>
    /\ lastTime = Open
    /\ nextBucket = 0
    /\ observations = Blank
    /\ completed = 0

StartArchive ==
    /\ phase = "between"
    /\ completed < HourLimit
    /\ phase' = "active"
    /\ arrivals' = <<>>
    /\ lastTime' = Open
    /\ nextBucket' = 0
    /\ observations' = Blank
    /\ UNCHANGED completed

(* Append the borrowed state for every bucket of the range.                 *)
Emitted(from, to) ==
    [i \in Sampling!Buckets |->
        IF i \in from .. to - 1 THEN Len(arrivals) ELSE observations[i]]

(* Slip: a bucket is emitted by the event that falls on its end.            *)
EndsAtOrBefore(i, t) == Sampling!BucketEnd(i) =< t

(* The loop condition of before_event.                                      *)
EndsBefore(i, t) == Sampling!BucketEnd(i) < t

(* Slip: a regressed time is taken as it is.                                *)
Unclamped(t) == t

(* A receive time behind the last one is raised to it.                      *)
Clamped(t) == IF lastTime # Open /\ t < lastTime THEN lastTime ELSE t

(* Slip: the end of the hour counts as inside it.                           *)
InClosedHour(t) == t \in 0 .. BucketCount * BucketTicks

(* The source hour is half open.                                            *)
InHour(t) == t \in Sampling!HourTicks

(* before_event, and the application of the event that follows it.          *)
BeforeEvent(t) ==
    /\ phase = "active"
    /\ Len(arrivals) < EventLimit
    /\ InHour(t)
    /\ lastTime' = Clamped(t)
    /\ nextBucket' \in nextBucket .. BucketCount
    /\ \A i \in nextBucket .. nextBucket' - 1 : EndsBefore(i, lastTime')
    /\ nextBucket' # BucketCount => ~EndsBefore(nextBucket', lastTime')
    /\ observations' = Emitted(nextBucket, nextBucket')
    /\ arrivals' = Append(arrivals, lastTime')
    /\ UNCHANGED <<phase, completed>>

(* A receive time outside the source hour aborts the run.                   *)
RejectEvent(t) ==
    /\ phase = "active"
    /\ ~InHour(t)
    /\ phase' = "failed"
    /\ UNCHANGED <<arrivals, lastTime, nextBucket, observations, completed>>

FinishArchive ==
    /\ phase = "active"
    /\ phase' = "between"
    /\ observations' = Emitted(nextBucket, BucketCount)
    /\ nextBucket' = 0
    /\ completed' = completed + 1
    /\ UNCHANGED <<arrivals, lastTime>>

Finish ==
    /\ phase = "between"
    /\ phase' = "finished"
    /\ UNCHANGED <<arrivals, lastTime, nextBucket, observations, completed>>

Next ==
    \/ StartArchive
    \/ \E t \in -1 .. BucketCount * BucketTicks :
           BeforeEvent(t) \/ RejectEvent(t)
    \/ FinishArchive
    \/ Finish

Spec == Init /\ [][Next]_vars

-----------------------------------------------------------------------------
(* No bucket was emitted too early or too late: what before_event already   *)
(* wrote is the state after the last event at or before the bucket's end,   *)
(* and stays so whatever arrives later in the hour.                         *)
EmittedIsLatest ==
    phase = "active" =>
        \A i \in 0 .. nextBucket - 1 :
            Sampling!IsLatest(arrivals, Sampling!BucketEnd(i), observations[i])

(* The eager sampler implements end-of-bucket sampling of the whole hour.   *)
ImplementsSampling == Sampling!Spec
=============================================================================
