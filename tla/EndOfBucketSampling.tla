------------------------- MODULE EndOfBucketSampling -------------------------
(***************************************************************************)
(* What one-second sampling promises (ingest/sampling.py, liquidity/        *)
(* hourly.py): the sample of a bucket is the replay state after the last    *)
(* event received at or before the bucket's end, the state the hour began   *)
(* with if there is none.  A closed hour has one sample for every bucket.   *)
(*                                                                         *)
(* A replay state is named by the number of events of the hour applied to   *)
(* it; 0 is the state the hour began with.                                  *)
(***************************************************************************)
EXTENDS Integers, Sequences

CONSTANTS
    BucketCount,    \* observations per hour
    BucketTicks,    \* clock ticks per bucket
    Open            \* no samples yet: the hour is not closed

Buckets == 0 .. BucketCount - 1
BucketEnd(i) == (i + 1) * BucketTicks
HourTicks == 0 .. BucketCount * BucketTicks - 1

(* The clock never runs backwards: a regressed receive time counts as the   *)
(* latest one seen.                                                         *)
Clock(arrivals) == IF arrivals = <<>> THEN 0 ELSE arrivals[Len(arrivals)]
ClockAt(arrivals, t) == IF t < Clock(arrivals) THEN Clock(arrivals) ELSE t

(* v is the state after the last of the arrivals at or before t.            *)
IsLatest(arrivals, t, v) ==
    /\ v \in 0 .. Len(arrivals)
    /\ v # 0 => arrivals[v] =< t
    /\ v # Len(arrivals) => arrivals[v + 1] > t

VARIABLES
    arrivals,       \* receive times of the hour's events so far
    samples         \* Open, or the samples of the closed hour

Init == arrivals = <<>> /\ samples = Open

Arrive ==
    /\ samples = Open
    /\ \E t \in HourTicks : arrivals' = Append(arrivals, ClockAt(arrivals, t))
    /\ UNCHANGED samples

Close ==
    /\ samples = Open
    /\ samples' \in [Buckets -> 0 .. Len(arrivals)]
    /\ \A i \in Buckets : IsLatest(arrivals, BucketEnd(i), samples'[i])
    /\ UNCHANGED arrivals

OpenNextHour ==
    /\ samples # Open
    /\ arrivals' = <<>>
    /\ samples' = Open

Next == Arrive \/ Close \/ OpenNextHour

Spec == Init /\ [][Next]_<<arrivals, samples>>
=============================================================================
