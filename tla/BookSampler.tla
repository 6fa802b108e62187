----------------------------- MODULE BookSampler -----------------------------
(***************************************************************************)
(* OneSecondBookSampler of ingest/sampling.py.  It sees each event after    *)
(* its application and holds the newest receive time back as pending, so    *)
(* that events sharing one receive time collapse into their last state      *)
(* before a bucket ending at that time is emitted.                          *)
(***************************************************************************)
EXTENDS Integers, Sequences

CONSTANTS
    BucketCount,    \* observations per hour: 3,600
    BucketTicks,    \* clock ticks per bucket: nanoseconds per second
    Open,           \* no value yet
    EventLimit,     \* bound: events per hour
    HourLimit       \* bound: archives per chain

VARIABLES
    phase,          \* is an hour active; has the run failed or finished
    arrivals,       \* receive times observed (the replay's history)
    current,        \* _current_observation
    pendingTime,    \* _pending_received_time_ns, Open while null
    pending,        \* _pending_observation
    nextBucket,     \* _next_bucket_index
    samples,        \* _active_samples; the hour's once completed
    completed       \* number of completed hours

vars == <<phase, arrivals, current, pendingTime, pending, nextBucket,
          samples, completed>>

Sampling == INSTANCE EndOfBucketSampling WITH
    samples <- IF phase = "between" /\ completed > 0 THEN samples ELSE Open

Blank == [i \in Sampling!Buckets |-> 0]

TypeOK ==
    /\ phase \in {"between", "active", "failed"}
    /\ arrivals \in Seq(Sampling!HourTicks)
    /\ current \in Nat
    /\ pendingTime \in Sampling!HourTicks \cup {Open}
    /\ pending \in Nat
    /\ nextBucket \in 0 .. BucketCount
    /\ samples \in [Sampling!Buckets -> Nat]
    /\ completed \in Nat

Init ==
    /\ phase = "between"
    /\ arrivals = <<>>
    /\ current = 0
    /\ pendingTime = Open
    /\ pending = 0
    /\ nextBucket = 0
    /\ samples = Blank
    /\ completed = 0

StartArchive ==
    /\ phase = "between"
    /\ completed < HourLimit
    /\ phase' = "active"
    /\ arrivals' = <<>>
    /\ current' = 0
    /\ pendingTime' = Open
    /\ pending' = 0
    /\ nextBucket' = 0
    /\ samples' = Blank
    /\ UNCHANGED completed

(* The bucket index after emitting every bucket from b that ends before t,  *)
(* or at t too.                                                             *)
After(b, t, inclusive) ==
    LET due == {i \in b .. BucketCount - 1 :
                    \/ Sampling!BucketEnd(i) < t
                    \/ inclusive /\ Sampling!BucketEnd(i) = t}
    IN  IF due = {} THEN b ELSE 1 + CHOOSE i \in due : \A j \in due : j =< i

EmitBefore(b, t) == After(b, t, FALSE)
EmitAtOrBefore(b, t) == After(b, t, TRUE)

Fill(s, from, to, state) ==
    [i \in Sampling!Buckets |-> IF i \in from .. to - 1 THEN state ELSE s[i]]

(* Samples and bucket index once the pending timestamp is committed.        *)
CommittedBucket ==
    IF pendingTime = Open THEN nextBucket
    ELSE EmitAtOrBefore(nextBucket, pendingTime)
CommittedState == IF pendingTime = Open THEN current ELSE pending
Committed == Fill(samples, nextBucket, CommittedBucket, CommittedState)

(* An event with the pending receive time only replaces the pending state.  *)
Collapses(t) == pendingTime # Open /\ t = pendingTime

(* Slip: the end of the hour counts as inside it.                           *)
InClosedHour(t) == t \in 0 .. BucketCount * BucketTicks

(* The source hour is half open.                                            *)
InHour(t) == t \in Sampling!HourTicks

ObserveEvent(t) ==
    /\ phase = "active"
    /\ Len(arrivals) < EventLimit
    /\ InHour(t)
    /\ pendingTime # Open => t >= pendingTime
    /\ arrivals' = Append(arrivals, t)
    /\ pendingTime' = t
    /\ pending' = Len(arrivals')
    /\ IF Collapses(t)
       THEN UNCHANGED <<current, nextBucket, samples>>
       ELSE /\ current' = CommittedState
            /\ nextBucket' = EmitBefore(CommittedBucket, t)
            /\ samples' = Fill(Committed, CommittedBucket, nextBucket',
                               CommittedState)
    /\ UNCHANGED <<phase, completed>>

(* Outside the hour, or behind the pending receive time: the run aborts.    *)
RejectEvent(t) ==
    /\ phase = "active"
    /\ \/ ~InHour(t)
       \/ pendingTime # Open /\ t < pendingTime
    /\ phase' = "failed"
    /\ UNCHANGED <<arrivals, current, pendingTime, pending, nextBucket,
                   samples, completed>>

(* Slip: the hour is filled up without committing the pending timestamp.    *)
FillUncommitted == Fill(samples, nextBucket, BucketCount, current)

FinalSamples == Fill(Committed, CommittedBucket, BucketCount, CommittedState)

(* The next start_archive, or finish, completes the active hour.            *)
FinishActiveHour ==
    /\ phase = "active"
    /\ phase' = "between"
    /\ samples' = FinalSamples
    /\ current' = 0
    /\ pendingTime' = Open
    /\ pending' = 0
    /\ nextBucket' = 0
    /\ completed' = completed + 1
    /\ UNCHANGED arrivals

Next ==
    \/ StartArchive
    \/ \E t \in -1 .. BucketCount * BucketTicks :
           ObserveEvent(t) \/ RejectEvent(t)
    \/ FinishActiveHour

Spec == Init /\ [][Next]_vars

-----------------------------------------------------------------------------
(* The sampler with the pending timestamp implements end-of-bucket sampling *)
(* of the whole hour.                                                       *)
ImplementsSampling == Sampling!Spec
=============================================================================
