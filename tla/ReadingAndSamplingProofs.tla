----------------------- MODULE ReadingAndSamplingProofs -----------------------
(***************************************************************************)
(* From an hour's archive to its samples.                                   *)
(*                                                                           *)
(* Sampling, for any number of buckets, any bucket length and any receive    *)
(* times, regressed ones too: both samplers implement end-of-bucket          *)
(* sampling, and an hour which both complete has the same sample in every    *)
(* bucket.                                                                   *)
(*                                                                           *)
(* Reading, for any archive of any length and any of the three venues: what  *)
(* the reader delivers is cut out of the rows exactly, and its report counts *)
(* exactly what breaks the venue's sequence.                                 *)
(***************************************************************************)
EXTENDS SamplerAgreement, ArchiveReader,
        FiniteSetTheorems, SequenceTheorems, WellFoundedInduction, TLAPS

(***************************************************************************)
(* 1.  The liquidity sampler, which emits buckets before each event.         *)
(***************************************************************************)
LEMMA BucketEndMonotone ==
    ASSUME NEW i \in Int, NEW j \in Int, i =< j
    PROVE  /\ Sampling!BucketEnd(i) \in Int
           /\ Sampling!BucketEnd(i) =< Sampling!BucketEnd(j)
<1>1. BucketTicks \in Nat
  BY BucketAssumption
<1>2. (j - i) \in Nat /\ (j - i) * BucketTicks \in Nat
  BY <1>1
<1>3. (j + 1) * BucketTicks = (i + 1) * BucketTicks + (j - i) * BucketTicks
  BY <1>1
<1> QED
  BY <1>1, <1>2, <1>3 DEF Sampling!BucketEnd

(* The strengthening: the clock lies between the end of the last emitted    *)
(* bucket and the end of the next one.                                      *)
ClockInv ==
    /\ lastTime # Open =>
           /\ arrivals # <<>>
           /\ lastTime = arrivals[Len(arrivals)]
    /\ lastTime = Open => arrivals = <<>>
    /\ phase = "between" /\ completed = 0 => arrivals = <<>>
    /\ phase = "active" =>
        /\ \A i \in 0 .. nextBucket - 1 :
               lastTime # Open /\ Sampling!BucketEnd(i) < lastTime
        /\ nextBucket # BucketCount /\ lastTime # Open =>
               lastTime =< Sampling!BucketEnd(nextBucket)

SamplerInv == TypeOK /\ ClockInv /\ EmittedIsLatest

LEMMA SamplerInvInit == Init => SamplerInv
BY BucketAssumption, OpenAssumption
   DEF Init, SamplerInv, TypeOK, ClockInv, EmittedIsLatest, Blank

(* Appending an arrival past a bucket's end leaves its latest state alone.  *)
LEMMA LatestStays ==
    ASSUME NEW a \in Seq(Int), NEW t \in Int, NEW v \in Nat, NEW c \in Int,
           Sampling!IsLatest(a, t, v), c > t
    PROVE  Sampling!IsLatest(Append(a, c), t, v)
<1> DEFINE b == Append(a, c)
<1>1. /\ Len(b) = Len(a) + 1
      /\ Len(a) \in Nat
      /\ \A k \in 1 .. Len(a) : b[k] = a[k]
      /\ b[Len(a) + 1] = c
  OBVIOUS
<1>2. v \in 0 .. Len(a)
  BY DEF Sampling!IsLatest
<1>3. v # 0 => b[v] =< t
  BY <1>1, <1>2 DEF Sampling!IsLatest
<1>4. b[v + 1] > t
  <2>1. CASE v = Len(a)
    BY <1>1, <2>1
  <2>2. CASE v # Len(a)
    <3>1. v + 1 \in 1 .. Len(a)
      BY <1>1, <1>2, <2>2
    <3> QED
      BY <1>1, <2>2, <3>1 DEF Sampling!IsLatest
  <2> QED
    BY <2>1, <2>2
<1> HIDE DEF b
<1> QED
  BY <1>1, <1>2, <1>3, <1>4 DEF Sampling!IsLatest

(* The state at the moment is the latest for every bucket not yet emitted.  *)
LEMMA CurrentIsLatest ==
    ASSUME SamplerInv, phase = "active",
           NEW i \in nextBucket .. BucketCount - 1
    PROVE  Sampling!IsLatest(arrivals, Sampling!BucketEnd(i), Len(arrivals))
<1>1. Len(arrivals) \in Nat /\ nextBucket \in 0 .. BucketCount
  BY DEF SamplerInv, TypeOK
<1>2. BucketCount \in Nat /\ i \in Int /\ nextBucket =< i
  BY <1>1, BucketAssumption
<1>a. nextBucket # BucketCount /\ arrivals \in Seq(Sampling!HourTicks)
  BY <1>1, <1>2 DEF SamplerInv, TypeOK
<1>3. Len(arrivals) # 0 => arrivals[Len(arrivals)] =< Sampling!BucketEnd(i)
  <2> SUFFICES ASSUME Len(arrivals) # 0
               PROVE  arrivals[Len(arrivals)] =< Sampling!BucketEnd(i)
    OBVIOUS
  <2>1. lastTime # Open /\ lastTime = arrivals[Len(arrivals)]
    BY <1>a DEF SamplerInv, ClockInv
  <2>2. lastTime \in Int
    BY <2>1, <1>2, BucketAssumption DEF SamplerInv, TypeOK, Sampling!HourTicks
  <2>3. lastTime =< Sampling!BucketEnd(nextBucket)
    BY <1>a, <2>1 DEF SamplerInv, ClockInv
  <2>4. Sampling!BucketEnd(nextBucket) =< Sampling!BucketEnd(i)
    BY <1>1, <1>2, BucketEndMonotone
  <2>5. /\ Sampling!BucketEnd(nextBucket) \in Int
        /\ Sampling!BucketEnd(i) \in Int
    BY <1>1, <1>2, BucketEndMonotone
  <2> QED
    BY <2>1, <2>2, <2>3, <2>4, <2>5
<1> QED
  BY <1>1, <1>3 DEF Sampling!IsLatest

LEMMA BeforeEventPreserves ==
    ASSUME SamplerInv, NEW t \in Int, BeforeEvent(t)
    PROVE  SamplerInv'
<1> DEFINE c == lastTime'
<1>1. /\ BucketCount \in Nat /\ nextBucket \in 0 .. BucketCount
      /\ nextBucket' \in nextBucket .. BucketCount
      /\ arrivals \in Seq(Sampling!HourTicks) /\ phase = "active"
      /\ arrivals \in Seq(Int) /\ Len(arrivals) \in Nat
  BY BucketAssumption
     DEF SamplerInv, TypeOK, BeforeEvent, Sampling!HourTicks
<1>n. PICK n \in nextBucket .. BucketCount : n = nextBucket'
  BY <1>1
<1>0. /\ BucketCount \in Int /\ nextBucket \in Int /\ n \in Int
      /\ 0 =< nextBucket /\ nextBucket =< n /\ n =< BucketCount
  BY <1>1
<1>b. \A i \in nextBucket .. n - 1 : EndsBefore(i, c)
  BY <1>n DEF BeforeEvent
<1>2. c \in Sampling!HourTicks /\ c \in Int
  BY BucketAssumption
     DEF SamplerInv, TypeOK, BeforeEvent, Clamped, InHour, Sampling!HourTicks
<1>3. lastTime # Open => lastTime \in Int /\ c >= lastTime
  BY BucketAssumption
     DEF SamplerInv, TypeOK, BeforeEvent, Clamped, InHour, Sampling!HourTicks
<1>4. /\ arrivals' = Append(arrivals, c)
      /\ arrivals' \in Seq(Sampling!HourTicks)
      /\ Len(arrivals') = Len(arrivals) + 1
      /\ arrivals'[Len(arrivals')] = c
  BY <1>1, <1>2 DEF BeforeEvent
<1>5. c # Open
  BY <1>2, OpenAssumption
<1>6. observations' = Emitted(nextBucket, nextBucket') /\ phase' = "active"
      /\ completed' = completed
  BY <1>1 DEF BeforeEvent
<1>7. TypeOK'
  BY <1>1, <1>2, <1>4, <1>6 DEF SamplerInv, TypeOK, Emitted
<1>8. \A i \in 0 .. n - 1 : Sampling!BucketEnd(i) < c
  <2> SUFFICES ASSUME NEW i \in Int, 0 =< i, i =< n - 1
               PROVE  Sampling!BucketEnd(i) < c
    BY <1>0
  <2>1. Sampling!BucketEnd(i) \in Int
    BY <1>0, <1>1, BucketEndMonotone
  <2>2. CASE i < nextBucket
    <3>1. lastTime # Open /\ Sampling!BucketEnd(i) < lastTime
      BY <1>0, <1>1, <2>2 DEF SamplerInv, ClockInv
    <3> QED
      BY <1>2, <1>3, <2>1, <3>1
  <2>3. CASE i >= nextBucket
    BY <1>0, <1>b, <2>3 DEF EndsBefore
  <2> QED
    BY <1>0, <1>1, <2>2, <2>3
<1>9. nextBucket' # BucketCount => c =< Sampling!BucketEnd(nextBucket')
  <2>1. Sampling!BucketEnd(nextBucket') \in Int
    BY <1>0, <1>1, BucketEndMonotone
  <2> QED
    BY <1>2, <2>1 DEF BeforeEvent, EndsBefore
<1>10. ClockInv'
  <2>1. arrivals' # <<>> /\ c = arrivals'[Len(arrivals')]
    BY <1>0, <1>1, <1>4
  <2>2. phase' # "between"
    BY <1>6
  <2> QED
    BY <1>n, <1>5, <1>8, <1>9, <2>1, <2>2 DEF ClockInv
<1>e. observations' = Emitted(nextBucket, n)
  BY <1>n, <1>6
<1>11. ASSUME NEW i \in Int, 0 =< i, i =< n - 1
       PROVE  Sampling!IsLatest(arrivals', Sampling!BucketEnd(i),
                                observations'[i])
  <2>a. i \in Int /\ i \in 0 .. n - 1
    BY <1>0, <1>11
  <2>b. i \in Sampling!Buckets
    BY <1>0, <2>a DEF Sampling!Buckets
  <2>1. /\ i \in Sampling!Buckets
        /\ Sampling!BucketEnd(i) \in Int
        /\ Sampling!BucketEnd(i) < c
    BY <1>8, <2>a, <2>b, BucketEndMonotone
  <2>2. CASE i < nextBucket
    <3>1. observations'[i] = observations[i] /\ observations[i] \in Nat
      BY <1>0, <1>e, <2>1, <2>2 DEF Emitted, SamplerInv, TypeOK
    <3>2. Sampling!IsLatest(arrivals, Sampling!BucketEnd(i), observations[i])
      <4>1. i \in 0 .. nextBucket - 1
        BY <1>0, <1>11, <2>2
      <4> QED
        BY <1>1, <4>1 DEF SamplerInv, EmittedIsLatest
    <3> QED
      BY <1>0, <1>1, <1>2, <1>4, <2>1, <3>1, <3>2, LatestStays
  <2>3. CASE i >= nextBucket
    <3>1. observations'[i] = Len(arrivals)
      BY <1>0, <1>11, <1>e, <2>1, <2>3 DEF Emitted
    <3>2. Sampling!IsLatest(arrivals, Sampling!BucketEnd(i), Len(arrivals))
      <4>1. i \in nextBucket .. BucketCount - 1
        BY <1>0, <2>a, <2>3
      <4> QED
        BY <1>0, <1>1, <4>1, CurrentIsLatest
    <3> QED
      BY <1>0, <1>1, <1>2, <1>4, <2>1, <3>1, <3>2, LatestStays
  <2> QED
    BY <1>0, <1>1, <2>2, <2>3
<1>12. EmittedIsLatest'
  <2>1. \A i \in 0 .. n - 1 :
            Sampling!IsLatest(arrivals', Sampling!BucketEnd(i),
                              observations'[i])
    BY <1>0, <1>11
  <2> QED
    BY <1>n, <2>1 DEF EmittedIsLatest
<1> QED
  BY <1>7, <1>10, <1>12 DEF SamplerInv

LEMMA SamplerInvStep == SamplerInv /\ [Next]_vars => SamplerInv'
<1> SUFFICES ASSUME SamplerInv, [Next]_vars
             PROVE  SamplerInv'
  OBVIOUS
<1>1. CASE StartArchive
  BY <1>1, BucketAssumption, OpenAssumption
     DEF StartArchive, SamplerInv, TypeOK, ClockInv, EmittedIsLatest, Blank
<1>2. ASSUME NEW t \in -1 .. BucketCount * BucketTicks, BeforeEvent(t)
      PROVE  SamplerInv'
  BY <1>2, BeforeEventPreserves, BucketAssumption
<1>3. ASSUME NEW t \in -1 .. BucketCount * BucketTicks, RejectEvent(t)
      PROVE  SamplerInv'
  BY <1>3 DEF RejectEvent, SamplerInv, TypeOK, ClockInv, EmittedIsLatest
<1>4. CASE FinishArchive
  <2>1. observations' \in [Sampling!Buckets -> Nat]
    BY <1>4 DEF FinishArchive, Emitted, SamplerInv, TypeOK
  <2> QED
    BY <1>4, <2>1, BucketAssumption
       DEF FinishArchive, SamplerInv, TypeOK, ClockInv, EmittedIsLatest
<1>5. CASE Finish
  BY <1>5 DEF Finish, SamplerInv, TypeOK, ClockInv, EmittedIsLatest
<1>6. CASE UNCHANGED vars
  BY <1>6 DEF vars, SamplerInv, TypeOK, ClockInv, EmittedIsLatest
<1> QED
  BY <1>1, <1>2, <1>3, <1>4, <1>5, <1>6 DEF Next

THEOREM SamplerInvariant == Spec => []SamplerInv
<1> QED
  BY SamplerInvInit, SamplerInvStep, PTL DEF Spec

(* Every bucket already written is final: later events of the hour do not   *)
(* change which state was the last one at its end.                          *)
THEOREM EmittedBucketsAreLatest == Spec => []EmittedIsLatest
<1>1. SamplerInv => EmittedIsLatest
  BY DEF SamplerInv
<1> QED
  BY <1>1, SamplerInvariant, PTL

THEOREM SamplerTypeCorrect == Spec => []TypeOK
<1>1. SamplerInv => TypeOK
  BY DEF SamplerInv
<1> QED
  BY <1>1, SamplerInvariant, PTL

-----------------------------------------------------------------------------
(* Refinement: each step is a step of EndOfBucketSampling or a stutter.     *)

LEMMA FinishIsClose ==
    ASSUME SamplerInv, SamplerInv', FinishArchive
    PROVE  Sampling!Close
<1>1. /\ BucketCount \in Nat /\ nextBucket \in 0 .. BucketCount
      /\ Len(arrivals) \in Nat /\ phase = "active" /\ phase' = "between"
      /\ completed' > 0 /\ arrivals' = arrivals
  BY BucketAssumption DEF SamplerInv, TypeOK, FinishArchive
<1>2. ASSUME NEW i \in Sampling!Buckets
      PROVE  Sampling!IsLatest(arrivals, Sampling!BucketEnd(i),
                               observations'[i])
  <2>1. CASE i < nextBucket
    BY <1>1, <2>1 DEF FinishArchive, Emitted, SamplerInv, EmittedIsLatest,
                      Sampling!Buckets
  <2>2. CASE i >= nextBucket
    <3>1. observations'[i] = Len(arrivals)
      BY <1>1, <2>2 DEF FinishArchive, Emitted, Sampling!Buckets
    <3> QED
      BY <1>1, <2>2, <3>1, CurrentIsLatest DEF Sampling!Buckets
  <2> QED
    BY <1>1, <2>1, <2>2 DEF Sampling!Buckets
<1>3. observations' \in [Sampling!Buckets -> 0 .. Len(arrivals)]
  <2>1. observations' \in [Sampling!Buckets -> Nat]
    BY DEF SamplerInv, TypeOK
  <2>2. \A i \in Sampling!Buckets : observations'[i] \in 0 .. Len(arrivals)
    BY <1>2 DEF Sampling!IsLatest
  <2> QED
    BY <2>1, <2>2
<1> QED
  BY <1>1, <1>2, <1>3 DEF Sampling!Close

LEMMA SamplingStep ==
    ASSUME SamplerInv, SamplerInv', [Next]_vars
    PROVE  [Sampling!Next]_<<arrivals,
               IF phase \in {"between", "finished"} /\ completed > 0
               THEN observations ELSE Open>>
<1>1. CASE StartArchive
  <2>1. CASE completed > 0
    <3>1. observations # Open
      BY OpenAssumption DEF SamplerInv, TypeOK
    <3> QED
      BY <1>1, <2>1, <3>1 DEF StartArchive, Sampling!Next, Sampling!OpenNextHour
  <2>2. CASE ~(completed > 0)
    <3>1. arrivals = <<>>
      BY <1>1, <2>2 DEF StartArchive, SamplerInv, TypeOK, ClockInv
    <3> QED
      BY <1>1, <2>2, <3>1 DEF StartArchive
  <2> QED
    BY <2>1, <2>2
<1>2. ASSUME NEW t \in -1 .. BucketCount * BucketTicks, BeforeEvent(t)
      PROVE  Sampling!Arrive
  <2>1. lastTime' = Sampling!ClockAt(arrivals, t)
    BY <1>2, BucketAssumption, OpenAssumption
       DEF BeforeEvent, Clamped, InHour, SamplerInv, ClockInv, TypeOK,
           Sampling!ClockAt, Sampling!Clock, Sampling!HourTicks
  <2> QED
    BY <1>2, <2>1 DEF BeforeEvent, InHour, Sampling!Arrive
<1>3. ASSUME NEW t \in -1 .. BucketCount * BucketTicks, RejectEvent(t)
      PROVE  UNCHANGED <<arrivals,
               IF phase \in {"between", "finished"} /\ completed > 0
               THEN observations ELSE Open>>
  BY <1>3 DEF RejectEvent
<1>4. CASE FinishArchive
  BY <1>4, FinishIsClose DEF Sampling!Next
<1>5. CASE Finish
  BY <1>5 DEF Finish
<1>6. CASE UNCHANGED vars
  BY <1>6 DEF vars
<1> QED
  BY <1>1, <1>2, <1>3, <1>4, <1>5, <1>6 DEF Next, Sampling!Next

(* The sampler of liquidity/hourly.py implements end-of-bucket sampling.    *)
THEOREM SamplerImplementsSampling == Spec => ImplementsSampling
<1>1. Init => Sampling!Init
  BY DEF Init, Sampling!Init
<1>2. SamplerInv /\ SamplerInv' /\ [Next]_vars =>
          [Sampling!Next]_<<arrivals,
               IF phase \in {"between", "finished"} /\ completed > 0
               THEN observations ELSE Open>>
  BY SamplingStep
<1> QED
  BY <1>1, <1>2, SamplerInvariant, PTL
     DEF Spec, ImplementsSampling, Sampling!Spec

(***************************************************************************)
(* 2.  The book sampler, which holds the newest receive time back.           *)
(***************************************************************************)

(* Both samplers speak of the same hour.                                     *)
LEMMA SameHour ==
    /\ Book!Sampling!Buckets = Sampling!Buckets
    /\ Book!Sampling!HourTicks = Sampling!HourTicks
    /\ \A i : Book!Sampling!BucketEnd(i) = Sampling!BucketEnd(i)
    /\ \A a, t, v : Book!Sampling!IsLatest(a, t, v) <=> Sampling!IsLatest(a, t, v)
BY DEF Book!Sampling!Buckets, Sampling!Buckets, Book!Sampling!HourTicks, Sampling!HourTicks,
       Book!Sampling!BucketEnd, Sampling!BucketEnd, Book!Sampling!IsLatest, Sampling!IsLatest

(* A bounded set of indexes has a greatest one.                              *)
LEMMA GreatestIndex ==
    ASSUME NEW n \in Nat, NEW S \in SUBSET (0 .. n), S # {}
    PROVE  \E x \in S : \A y \in S : y =< x
<1> DEFINE T == {n - x : x \in S}
<1>1. T \subseteq Nat /\ T # {}
  <2>1. \A x \in S : n - x \in Nat
    OBVIOUS
  <2> QED
    BY <2>1
<1> HIDE DEF T
<1>2. PICK m \in T : \A y \in T : <<y, m>> \notin OpToRel(<, Nat)
  BY <1>1, NatLessThanWellFounded, WFMin
<1>3. \A y \in T : y < m => <<y, m>> \in OpToRel(<, Nat)
  BY <1>1, Zenon DEF OpToRel
<1>4. \A y \in T : ~(y < m)
  BY <1>2, <1>3, Zenon
<1>5. PICK x \in S : m = n - x
  BY DEF T
<1>6. \A y \in S : ~(n - y < n - x)
  BY <1>4, <1>5 DEF T
<1> QED
  BY <1>5, <1>6

(* The loop that emits the buckets which end before a time, or at it.        *)
Due(i, t, inclusive) ==
    Sampling!BucketEnd(i) < t \/ (inclusive /\ Sampling!BucketEnd(i) = t)

LEMMA DueIsAPrefix ==
    ASSUME NEW i \in Int, NEW j \in Int, i =< j, NEW t \in Int, NEW inclusive \in BOOLEAN,
           Due(j, t, inclusive)
    PROVE  Due(i, t, inclusive)
<1>1. /\ Sampling!BucketEnd(i) \in Int /\ Sampling!BucketEnd(j) \in Int
      /\ Sampling!BucketEnd(i) =< Sampling!BucketEnd(j)
  BY BucketEndMonotone
<1>2. CASE Sampling!BucketEnd(j) < t
  BY <1>1, <1>2 DEF Due
<1>3. CASE inclusive /\ Sampling!BucketEnd(j) = t
  BY <1>1, <1>3 DEF Due
<1> QED
  BY <1>2, <1>3 DEF Due

LEMMA AfterEmits ==
    ASSUME NEW b \in 0 .. BucketCount, NEW t \in Int, NEW inclusive \in BOOLEAN
    PROVE  LET n == Book!After(b, t, inclusive) IN
           /\ n \in b .. BucketCount
           /\ \A i \in b .. n - 1 : Due(i, t, inclusive)
           /\ n # BucketCount => ~Due(n, t, inclusive)
<1> DEFINE due == {i \in b .. BucketCount - 1 : Due(i, t, inclusive)}
           n   == Book!After(b, t, inclusive)
           top == CHOOSE i \in due : \A j \in due : j =< i
<1>1. BucketCount \in Nat \ {0} /\ b \in Nat
  BY BucketAssumption
<1>2. n = IF due = {} THEN b ELSE 1 + top
  BY DEF Book!After, Due, Book!Sampling!BucketEnd, Sampling!BucketEnd
<1>3. CASE due = {}
  <2>1. n = b
    BY <1>2, <1>3
  <2>2. b # BucketCount => ~Due(b, t, inclusive)
    BY <1>1, <1>3
  <2> QED
    BY <1>1, <2>1, <2>2
<1>4. CASE due # {}
  <2>1. due \in SUBSET (0 .. BucketCount - 1) /\ BucketCount - 1 \in Nat
    BY <1>1
  <2>2. \E x \in due : \A y \in due : y =< x
    <3> HIDE DEF due
    <3> QED
      BY <1>4, <2>1, GreatestIndex
  <2>3. PICK m \in due : m = top /\ \A j \in due : j =< m
    BY <2>2
  <2>4. n = 1 + m
    BY <1>2, <1>4, <2>3
  <2> HIDE DEF n, top
  <2>5. /\ m \in b .. BucketCount - 1 /\ m \in Int /\ Due(m, t, inclusive)
        /\ n = m + 1
    BY <1>1, <2>4
  <2>6. \A i \in b .. n - 1 : Due(i, t, inclusive)
    BY <1>1, <2>5, DueIsAPrefix
  <2>8. n # BucketCount => ~Due(n, t, inclusive)
    BY <1>1, <2>3, <2>5
  <2>7. n \in b .. BucketCount
    BY <1>1, <2>5
  <2> QED
    BY <2>6, <2>7, <2>8 DEF n
<1> QED
  BY <1>3, <1>4

(* What has been emitted while an hour is active is settled, and everything  *)
(* still to come ends at the pending time or after it.                       *)
BookInv ==
    /\ bookPhase \in {"between", "active", "failed"}
    /\ bookArrivals \in Seq(Sampling!HourTicks)
    /\ samples \in [Sampling!Buckets -> Nat]
    /\ bookNextBucket \in 0 .. BucketCount
    /\ bookCompleted \in Nat
    /\ pendingTime \in Sampling!HourTicks \cup {Open}
    /\ bookPhase = "between" /\ bookCompleted = 0 => bookArrivals = <<>>
    /\ bookPhase = "between" /\ bookCompleted > 0 =>
         \A i \in Sampling!Buckets :
           Sampling!IsLatest(bookArrivals, Sampling!BucketEnd(i), samples[i])
    /\ bookPhase = "active" =>
         /\ pendingTime = Open => bookArrivals = <<>> /\ current = 0 /\ bookNextBucket = 0
         /\ pendingTime # Open =>
              /\ bookArrivals # <<>> /\ pending = Len(bookArrivals)
              /\ pendingTime = bookArrivals[Len(bookArrivals)]
              /\ bookNextBucket # BucketCount => pendingTime =< Sampling!BucketEnd(bookNextBucket)
         /\ \A i \in 0 .. bookNextBucket - 1 :
              /\ pendingTime # Open /\ Sampling!BucketEnd(i) < pendingTime
              /\ Sampling!IsLatest(bookArrivals, Sampling!BucketEnd(i), samples[i])

LEMMA BookInit == Book!Init => BookInv
BY SameHour, BucketAssumption, OpenAssumption DEF Book!Init, BookInv, Book!Blank

LEMMA BookStarts == BookInv /\ Book!StartArchive => BookInv'
BY SameHour, BucketAssumption, OpenAssumption DEF Book!StartArchive, BookInv, Book!Blank

(* Committing the pending time emits the buckets which end at it; nothing is *)
(* emitted that a later event of the hour could still belong to.             *)
LEMMA CommitSettles ==
    ASSUME BookInv, bookPhase = "active"
    PROVE  LET n == Book!CommittedBucket IN
           /\ n \in bookNextBucket .. BucketCount
           /\ Book!CommittedState = Len(bookArrivals)
           /\ Book!Committed = Book!Fill(samples, bookNextBucket, n, Len(bookArrivals))
           /\ \A i \in 0 .. n - 1 :
                /\ pendingTime # Open /\ Sampling!BucketEnd(i) =< pendingTime
                /\ Sampling!IsLatest(bookArrivals, Sampling!BucketEnd(i), Book!Committed[i])
<1> DEFINE n == Book!CommittedBucket
<1>1. /\ BucketCount \in Nat \ {0} /\ bookNextBucket \in 0 .. BucketCount
      /\ bookArrivals \in Seq(Sampling!HourTicks) /\ Len(bookArrivals) \in Nat
      /\ samples \in [Sampling!Buckets -> Nat]
  BY BucketAssumption DEF BookInv
<1>2. /\ Book!CommittedState = Len(bookArrivals)
      /\ Book!Committed = Book!Fill(samples, bookNextBucket, n, Len(bookArrivals))
  BY <1>1 DEF Book!CommittedState, Book!Committed, BookInv
<1>3. CASE pendingTime = Open
  <2>1. n = 0 /\ bookNextBucket = 0
    BY <1>3 DEF Book!CommittedBucket, BookInv
  <2> QED
    BY <1>1, <1>2, <2>1
<1>4. CASE pendingTime # Open
  <2>0. pendingTime \in Sampling!HourTicks /\ pendingTime \in Int
    BY <1>1, <1>4, BucketAssumption DEF BookInv, Sampling!HourTicks
  <2>1. n = Book!After(bookNextBucket, pendingTime, TRUE)
    BY <1>4 DEF Book!CommittedBucket, Book!EmitAtOrBefore
  <2>2. /\ n \in bookNextBucket .. BucketCount
        /\ \A i \in bookNextBucket .. n - 1 : Due(i, pendingTime, TRUE)
    BY <1>1, <2>0, <2>1, AfterEmits
  <2> HIDE DEF n
  <2>3. n \in Int /\ bookNextBucket \in Int /\ n =< BucketCount /\ bookNextBucket =< n
    BY <1>1, <2>2
  <2>4. ASSUME NEW i \in 0 .. n - 1
        PROVE  /\ Sampling!BucketEnd(i) =< pendingTime
               /\ Sampling!IsLatest(bookArrivals, Sampling!BucketEnd(i), Book!Committed[i])
    <3>0. i \in Int /\ 0 =< i /\ i < n /\ i \in Sampling!Buckets /\ Sampling!BucketEnd(i) \in Int
      BY <1>1, <2>3, BucketEndMonotone DEF Sampling!Buckets
    <3>1. Book!Committed[i] = IF i >= bookNextBucket THEN Len(bookArrivals) ELSE samples[i]
      BY <1>1, <1>2, <2>3, <3>0, SameHour DEF Book!Fill
    <3>2. CASE i < bookNextBucket
      <4>1. i \in 0 .. bookNextBucket - 1
        BY <1>1, <3>0, <3>2
      <4>2. /\ Sampling!BucketEnd(i) < pendingTime
            /\ Sampling!IsLatest(bookArrivals, Sampling!BucketEnd(i), samples[i])
        BY <4>1 DEF BookInv
      <4> QED
        BY <1>1, <2>0, <3>0, <3>1, <3>2, <4>2
    <3>3. CASE i >= bookNextBucket
      <4>1. Due(i, pendingTime, TRUE) /\ bookNextBucket # BucketCount
        <5>1. i \in bookNextBucket .. n - 1
          BY <2>3, <3>0, <3>3
        <5>2. bookNextBucket # BucketCount
          BY <1>1, <2>3, <3>0, <3>3
        <5> QED
          BY <2>2, <5>1, <5>2
      <4>2. Sampling!BucketEnd(i) =< pendingTime
        BY <2>0, <3>0, <4>1 DEF Due
      <4>3. pendingTime =< Sampling!BucketEnd(i)
        <5>1. pendingTime =< Sampling!BucketEnd(bookNextBucket)
          BY <1>4, <4>1 DEF BookInv
        <5>2. /\ Sampling!BucketEnd(bookNextBucket) =< Sampling!BucketEnd(i)
              /\ Sampling!BucketEnd(bookNextBucket) \in Int
          BY <2>3, <3>0, <3>3, BucketEndMonotone
        <5> QED
          BY <2>0, <3>0, <5>1, <5>2
      <4>4. Sampling!IsLatest(bookArrivals, Sampling!BucketEnd(i), Len(bookArrivals))
        BY <1>1, <1>4, <4>3 DEF Sampling!IsLatest, BookInv
      <4> QED
        BY <3>1, <3>3, <4>2, <4>4
    <3> QED
      BY <1>1, <3>0, <3>2, <3>3
  <2> QED
    BY <1>2, <1>4, <2>2, <2>4 DEF n
<1> QED
  BY <1>3, <1>4

(* The state at the moment is the latest one of every bucket still to come.   *)
LEMMA BookCurrentIsLatest ==
    ASSUME BookInv, bookPhase = "active", NEW i \in bookNextBucket .. BucketCount - 1
    PROVE  Sampling!IsLatest(bookArrivals, Sampling!BucketEnd(i), Len(bookArrivals))
<1>1. /\ BucketCount \in Nat \ {0} /\ bookNextBucket \in 0 .. BucketCount
      /\ bookArrivals \in Seq(Sampling!HourTicks) /\ Len(bookArrivals) \in Nat
  BY BucketAssumption DEF BookInv
<1>2. i \in Int /\ bookNextBucket \in Int /\ bookNextBucket =< i /\ bookNextBucket # BucketCount
  BY <1>1
<1>3. CASE pendingTime = Open
  BY <1>1, <1>3 DEF BookInv, Sampling!IsLatest
<1>4. CASE pendingTime # Open
  <2>1. /\ pendingTime \in Int /\ pendingTime = bookArrivals[Len(bookArrivals)]
        /\ pendingTime =< Sampling!BucketEnd(bookNextBucket)
    BY <1>2, <1>4, BucketAssumption DEF BookInv, Sampling!HourTicks
  <2>2. /\ Sampling!BucketEnd(bookNextBucket) =< Sampling!BucketEnd(i)
        /\ Sampling!BucketEnd(bookNextBucket) \in Int /\ Sampling!BucketEnd(i) \in Int
    BY <1>2, BucketEndMonotone
  <2>3. bookArrivals[Len(bookArrivals)] =< Sampling!BucketEnd(i)
    BY <2>1, <2>2
  <2> QED
    BY <1>1, <2>3 DEF Sampling!IsLatest
<1> QED
  BY <1>3, <1>4

LEMMA BookObserves ==
    ASSUME BookInv, NEW t \in Int, Book!ObserveEvent(t)
    PROVE  BookInv'
<1>1. /\ BucketCount \in Nat \ {0} /\ bookNextBucket \in 0 .. BucketCount
      /\ bookArrivals \in Seq(Sampling!HourTicks) /\ Len(bookArrivals) \in Nat
      /\ bookArrivals \in Seq(Int)
      /\ samples \in [Sampling!Buckets -> Nat]
      /\ bookPhase = "active" /\ bookPhase' = "active" /\ bookCompleted' = bookCompleted
  BY BucketAssumption DEF BookInv, Book!ObserveEvent, Sampling!HourTicks
<1>2. /\ t \in Sampling!HourTicks /\ t # Open
      /\ pendingTime # Open => pendingTime \in Int /\ t >= pendingTime
      /\ bookArrivals' = Append(bookArrivals, t)
      /\ pendingTime' = t /\ pending' = Len(bookArrivals')
  BY SameHour, OpenAssumption, BucketAssumption
     DEF Book!ObserveEvent, Book!InHour, BookInv, Sampling!HourTicks
<1>3. /\ bookArrivals' \in Seq(Sampling!HourTicks) /\ Len(bookArrivals') = Len(bookArrivals) + 1
      /\ bookArrivals' # <<>> /\ bookArrivals'[Len(bookArrivals')] = t
  <2>1. /\ Append(bookArrivals, t) \in Seq(Sampling!HourTicks)
        /\ Len(Append(bookArrivals, t)) = Len(bookArrivals) + 1
        /\ Append(bookArrivals, t)[Len(bookArrivals) + 1] = t
    BY <1>1, <1>2
  <2> QED
    BY <1>1, <1>2, <2>1
<1>4. SUFFICES
        /\ samples' \in [Sampling!Buckets -> Nat]
        /\ bookNextBucket' \in 0 .. BucketCount
        /\ bookNextBucket' # BucketCount => t =< Sampling!BucketEnd(bookNextBucket')
        /\ \A i \in 0 .. bookNextBucket' - 1 :
             /\ Sampling!BucketEnd(i) < t
             /\ Sampling!IsLatest(bookArrivals', Sampling!BucketEnd(i), samples'[i])
  BY <1>1, <1>2, <1>3 DEF BookInv
<1>5. CASE Book!Collapses(t)
  <2>1. /\ t = pendingTime /\ pendingTime # Open
        /\ bookNextBucket' = bookNextBucket /\ samples' = samples
    BY <1>5 DEF Book!ObserveEvent, Book!Collapses
  <2>2. ASSUME NEW i \in 0 .. bookNextBucket - 1
        PROVE  /\ Sampling!BucketEnd(i) < t
               /\ Sampling!IsLatest(bookArrivals', Sampling!BucketEnd(i), samples[i])
    <3>1. /\ Sampling!BucketEnd(i) < t
          /\ Sampling!IsLatest(bookArrivals, Sampling!BucketEnd(i), samples[i])
      BY <1>1, <2>1 DEF BookInv
    <3>2. i \in Int /\ Sampling!BucketEnd(i) \in Int /\ i \in Sampling!Buckets
      BY <1>1, BucketEndMonotone DEF Sampling!Buckets
    <3>3. samples[i] \in Nat
      BY <1>1, <3>2
    <3> QED
      BY <1>1, <1>2, <3>1, <3>2, <3>3, LatestStays
  <2>3. bookNextBucket # BucketCount => t =< Sampling!BucketEnd(bookNextBucket)
    BY <1>1, <2>1 DEF BookInv
  <2> QED
    BY <1>1, <2>1, <2>2, <2>3
<1>6. CASE ~Book!Collapses(t)
  <2>0. PICK m, n : m = Book!CommittedBucket /\ n = bookNextBucket'
    OBVIOUS
  <2>1. /\ n = Book!After(m, t, FALSE)
        /\ samples' = Book!Fill(Book!Committed, m, n, Book!CommittedState)
    BY <1>6, <2>0 DEF Book!ObserveEvent, Book!EmitBefore
  <2>2. /\ m \in bookNextBucket .. BucketCount
        /\ Book!CommittedState = Len(bookArrivals)
        /\ Book!Committed = Book!Fill(samples, bookNextBucket, m, Len(bookArrivals))
        /\ \A i \in 0 .. m - 1 :
             /\ pendingTime # Open /\ Sampling!BucketEnd(i) =< pendingTime
             /\ Sampling!IsLatest(bookArrivals, Sampling!BucketEnd(i), Book!Committed[i])
    BY <1>1, <2>0, CommitSettles
  <2>3. /\ m \in 0 .. BucketCount /\ m \in Int /\ bookNextBucket \in Int /\ bookNextBucket =< m
    BY <1>1, <2>2
  <2>4. /\ n \in m .. BucketCount
        /\ \A i \in m .. n - 1 : Due(i, t, FALSE)
        /\ n # BucketCount => ~Due(n, t, FALSE)
    BY <2>1, <2>3, AfterEmits
  <2>5. n \in Int /\ m =< n /\ n =< BucketCount /\ n \in 0 .. BucketCount
    BY <1>1, <2>3, <2>4
  <2>6. Book!Committed \in [Sampling!Buckets -> Nat]
    BY <1>1, <2>2, SameHour DEF Book!Fill
  <2>7. samples' \in [Sampling!Buckets -> Nat]
    BY <1>1, <2>1, <2>2, <2>6, SameHour DEF Book!Fill
  <2>8. n # BucketCount => t =< Sampling!BucketEnd(n)
    <3>1. Sampling!BucketEnd(n) \in Int
      BY <2>5, BucketEndMonotone
    <3> QED
      BY <2>4, <3>1 DEF Due
  <2>9. ASSUME NEW i \in 0 .. n - 1
        PROVE  /\ Sampling!BucketEnd(i) < t
               /\ Sampling!IsLatest(bookArrivals', Sampling!BucketEnd(i), samples'[i])
    <3>1. /\ i \in Int /\ 0 =< i /\ i < n /\ i \in Sampling!Buckets
          /\ Sampling!BucketEnd(i) \in Int
      BY <1>1, <2>5, BucketEndMonotone DEF Sampling!Buckets
    <3>2. samples'[i] = IF i >= m THEN Len(bookArrivals) ELSE Book!Committed[i]
      BY <2>1, <2>2, <2>3, <2>5, <3>1, SameHour DEF Book!Fill
    <3>3. CASE i < m
      <4>1. i \in 0 .. m - 1
        BY <2>3, <3>1, <3>3
      <4>2. /\ pendingTime # Open /\ Sampling!BucketEnd(i) =< pendingTime
            /\ Sampling!IsLatest(bookArrivals, Sampling!BucketEnd(i), Book!Committed[i])
        BY <2>2, <4>1
      <4>3. Sampling!BucketEnd(i) < t
        <5>1. t # pendingTime
          BY <1>6, <4>2 DEF Book!Collapses
        <5> QED
          BY <1>2, <3>1, <4>2, <5>1
      <4>4. Book!Committed[i] \in Nat /\ samples'[i] = Book!Committed[i]
        BY <2>3, <2>6, <3>1, <3>2, <3>3
      <4>5. Sampling!IsLatest(Append(bookArrivals, t), Sampling!BucketEnd(i), Book!Committed[i])
        BY <1>1, <3>1, <4>2, <4>3, <4>4, LatestStays
      <4> QED
        BY <1>2, <4>3, <4>4, <4>5
    <3>4. CASE i >= m
      <4>1. i \in m .. n - 1 /\ i \in bookNextBucket .. BucketCount - 1
        BY <1>1, <2>3, <2>5, <3>1, <3>4
      <4>2. Sampling!BucketEnd(i) < t
        BY <2>4, <4>1 DEF Due
      <4>3. Sampling!IsLatest(bookArrivals, Sampling!BucketEnd(i), Len(bookArrivals))
        BY <1>1, <4>1, BookCurrentIsLatest
      <4>4. Sampling!IsLatest(Append(bookArrivals, t), Sampling!BucketEnd(i), Len(bookArrivals))
        BY <1>1, <3>1, <4>2, <4>3, LatestStays
      <4> QED
        BY <1>2, <3>2, <3>4, <4>2, <4>4
    <3> QED
      BY <2>3, <3>1, <3>3, <3>4
  <2> QED
    BY <2>0, <2>5, <2>7, <2>8, <2>9
<1> QED
  BY <1>5, <1>6

(* Completing the hour commits the pending time and fills up what is left.    *)
LEMMA BookCompletes ==
    ASSUME BookInv, Book!FinishActiveHour
    PROVE  /\ BookInv'
           /\ \A i \in Sampling!Buckets :
                Sampling!IsLatest(bookArrivals, Sampling!BucketEnd(i), samples'[i])
<1>1. /\ BucketCount \in Nat \ {0} /\ bookNextBucket \in 0 .. BucketCount
      /\ bookArrivals \in Seq(Sampling!HourTicks) /\ Len(bookArrivals) \in Nat
      /\ samples \in [Sampling!Buckets -> Nat] /\ bookCompleted \in Nat
      /\ bookPhase = "active" /\ bookPhase' = "between" /\ bookCompleted' = bookCompleted + 1
      /\ bookArrivals' = bookArrivals /\ pendingTime' = Open /\ bookNextBucket' = 0
  BY BucketAssumption DEF BookInv, Book!FinishActiveHour
<1>2. PICK m : m = Book!CommittedBucket
  OBVIOUS
<1>3. /\ m \in bookNextBucket .. BucketCount
      /\ Book!CommittedState = Len(bookArrivals)
      /\ Book!Committed = Book!Fill(samples, bookNextBucket, m, Len(bookArrivals))
      /\ \A i \in 0 .. m - 1 :
           Sampling!IsLatest(bookArrivals, Sampling!BucketEnd(i), Book!Committed[i])
  BY <1>1, <1>2, CommitSettles
<1>4. m \in Int /\ bookNextBucket \in Int /\ bookNextBucket =< m /\ m =< BucketCount
  BY <1>1, <1>3
<1>5. samples' = Book!Fill(Book!Committed, m, BucketCount, Len(bookArrivals))
  BY <1>2, <1>3 DEF Book!FinishActiveHour, Book!FinalSamples
<1>6. Book!Committed \in [Sampling!Buckets -> Nat]
  BY <1>1, <1>3, SameHour DEF Book!Fill
<1>7. samples' \in [Sampling!Buckets -> Nat]
  BY <1>1, <1>5, <1>6, SameHour DEF Book!Fill
<1>8. ASSUME NEW i \in Sampling!Buckets
      PROVE  Sampling!IsLatest(bookArrivals, Sampling!BucketEnd(i), samples'[i])
  <2>1. i \in Int /\ 0 =< i /\ i < BucketCount
    BY <1>1 DEF Sampling!Buckets
  <2>2. samples'[i] = IF i >= m THEN Len(bookArrivals) ELSE Book!Committed[i]
    BY <1>1, <1>4, <1>5, <2>1, SameHour DEF Book!Fill
  <2>3. CASE i < m
    <3>1. i \in 0 .. m - 1
      BY <1>4, <2>1, <2>3
    <3> QED
      BY <1>3, <1>4, <2>1, <2>2, <2>3, <3>1
  <2>4. CASE i >= m
    <3>1. i \in bookNextBucket .. BucketCount - 1
      BY <1>1, <1>4, <2>1, <2>4
    <3> QED
      BY <1>1, <2>2, <2>4, <3>1, BookCurrentIsLatest
  <2> QED
    BY <1>4, <2>1, <2>3, <2>4
<1>9. BookInv'
  BY <1>1, <1>7, <1>8 DEF BookInv
<1> QED
  BY <1>8, <1>9

LEMMA BookRejects ==
    ASSUME BookInv, NEW t, Book!RejectEvent(t)
    PROVE  BookInv'
BY DEF BookInv, Book!RejectEvent

LEMMA BookRests ==
    ASSUME BookInv, UNCHANGED bookVars
    PROVE  BookInv'
BY DEF BookInv, bookVars

(***************************************************************************)
(* 3.  Both samplers over the same archives.                                 *)
(***************************************************************************)

(* Receive times as the replay has them never run backwards.                 *)
Sorted(a) == \A i, j \in 1 .. Len(a) : i =< j => a[i] =< a[j]

LEMMA AppendSorted ==
    ASSUME NEW a \in Seq(Int), Sorted(a), NEW t \in Int, a # <<>> => a[Len(a)] =< t
    PROVE  Sorted(Append(a, t))
<1> DEFINE b == Append(a, t)
<1>1. /\ Len(a) \in Nat /\ Len(b) = Len(a) + 1
      /\ \A k \in 1 .. Len(a) : b[k] = a[k] /\ a[k] \in Int
      /\ b[Len(a) + 1] = t
  OBVIOUS
<1>2. \A k \in 1 .. Len(a) : a[k] =< t
  <2> SUFFICES ASSUME NEW k \in 1 .. Len(a) PROVE a[k] =< t
    OBVIOUS
  <2>1. a # <<>> /\ Len(a) \in 1 .. Len(a) /\ k =< Len(a)
    BY <1>1
  <2>2. a[k] =< a[Len(a)]
    BY <2>1 DEF Sorted
  <2> QED
    BY <1>1, <2>1, <2>2
<1> HIDE DEF b
<1>3. ASSUME NEW i \in 1 .. Len(b), NEW j \in 1 .. Len(b), i =< j
      PROVE  b[i] =< b[j]
  <2>1. CASE j \in 1 .. Len(a)
    <3>1. i \in 1 .. Len(a)
      BY <1>1, <1>3, <2>1
    <3> QED
      BY <1>1, <1>3, <2>1, <3>1 DEF Sorted
  <2>2. CASE j = Len(a) + 1 /\ i \in 1 .. Len(a)
    BY <1>1, <1>2, <2>2
  <2>3. CASE j = Len(a) + 1 /\ i = Len(a) + 1
    BY <1>1, <2>3
  <2> QED
    BY <1>1, <1>3, <2>1, <2>2, <2>3
<1> QED
  BY <1>3 DEF Sorted, b

(* A bucket's sample is determined by the receive times.                     *)
LEMMA LatestIsUnique ==
    ASSUME NEW a \in Seq(Int), Sorted(a), NEW t \in Int, NEW v \in Nat, NEW w \in Nat,
           Sampling!IsLatest(a, t, v), Sampling!IsLatest(a, t, w)
    PROVE  v = w
<1>1. ASSUME NEW x \in Nat, NEW y \in Nat, x < y,
             Sampling!IsLatest(a, t, x), Sampling!IsLatest(a, t, y)
      PROVE  FALSE
  <2>1. /\ x + 1 \in 1 .. Len(a) /\ y \in 1 .. Len(a) /\ x + 1 =< y /\ x # Len(a) /\ y # 0
    BY <1>1 DEF Sampling!IsLatest
  <2>2. a[x + 1] > t /\ a[y] =< t
    BY <1>1, <2>1 DEF Sampling!IsLatest
  <2>3. a[x + 1] =< a[y] /\ a[x + 1] \in Int /\ a[y] \in Int
    BY <2>1 DEF Sorted
  <2> QED
    BY <2>2, <2>3
<1> QED
  BY <1>1

(* The two samplers see the same archive until the book sampler has failed.   *)
BothInv ==
    /\ SamplerInv
    /\ BookInv
    /\ Sorted(arrivals)
    /\ phase = "between" /\ completed > 0 =>
         \A i \in Sampling!Buckets :
           Sampling!IsLatest(arrivals, Sampling!BucketEnd(i), observations[i])
    /\ phase \in {"between", "active"} /\ bookPhase # "failed" =>
         /\ bookPhase = phase
         /\ bookArrivals = arrivals
         /\ bookCompleted = completed

LEMMA BothInitInv == BothInit => BothInv
<1> SUFFICES ASSUME BothInit PROVE BothInv
  OBVIOUS
<1>1. SamplerInv /\ BookInv
  BY SamplerInvInit, BookInit DEF BothInit
<1>2. arrivals = <<>> /\ bookArrivals = <<>> /\ completed = 0 /\ bookCompleted = 0
      /\ phase = "between" /\ bookPhase = "between"
  BY DEF BothInit, Init, Book!Init
<1>3. Sorted(arrivals)
  BY <1>2 DEF Sorted
<1> QED
  BY <1>1, <1>2, <1>3 DEF BothInv

(* A step of the book sampler, or none once it has failed.                   *)
BookStep ==
    \/ Book!StartArchive \/ Book!FinishActiveHour
    \/ \E t \in -1 .. BucketCount * BucketTicks : Book!ObserveEvent(t) \/ Book!RejectEvent(t)
    \/ UNCHANGED bookVars

LEMMA BookStepInv == BookInv /\ BookStep => BookInv'
<1>1. \A t \in -1 .. BucketCount * BucketTicks : t \in Int
  BY BucketAssumption
<1> QED
  BY <1>1, BookStarts, BookCompletes, BookObserves, BookRejects, BookRests DEF BookStep

LEMMA BothSteps == [BothNext]_<<vars, bookVars>> => [Next]_vars /\ BookStep
BY DEF BothNext, BothStart, BothSee, BothComplete, FinishRun, BookStops, Next, BookStep

LEMMA BothSeeInv ==
    ASSUME BothInv, SamplerInv', BookInv', NEW t \in -1 .. BucketCount * BucketTicks, BothSee(t)
    PROVE  BothInv'
<1>1. /\ t \in Int /\ arrivals \in Seq(Sampling!HourTicks) /\ arrivals \in Seq(Int)
      /\ Len(arrivals) \in Nat
      /\ phase = "active" /\ phase' \in {"active", "failed"} /\ completed' = completed
  <2>1. t \in Int
    BY BucketAssumption
  <2>2. /\ arrivals \in Seq(Sampling!HourTicks) /\ arrivals \in Seq(Int)
        /\ Len(arrivals) \in Nat
    BY BucketAssumption DEF BothInv, SamplerInv, TypeOK, Sampling!HourTicks
  <2>3. phase = "active" /\ phase' \in {"active", "failed"} /\ completed' = completed
    BY DEF BothSee, BeforeEvent, RejectEvent
  <2> QED
    BY <2>1, <2>2, <2>3
<1>2. CASE RejectEvent(t)
  BY <1>1, <1>2 DEF BothInv, RejectEvent
<1>3. CASE BeforeEvent(t)
  <2>1. /\ lastTime' \in Int /\ arrivals' = Append(arrivals, lastTime') /\ phase' = "active"
        /\ lastTime' = Clamped(t) /\ InHour(t)
    BY <1>1, <1>3, BucketAssumption
       DEF BothInv, SamplerInv, TypeOK, BeforeEvent, Clamped, InHour, Sampling!HourTicks
  <2>2. arrivals # <<>> => /\ lastTime # Open /\ lastTime \in Int
                           /\ lastTime = arrivals[Len(arrivals)]
    BY BucketAssumption DEF BothInv, SamplerInv, TypeOK, ClockInv, Sampling!HourTicks
  <2>3. arrivals # <<>> => arrivals[Len(arrivals)] =< lastTime'
    BY <1>1, <2>1, <2>2 DEF Clamped
  <2>4. Sorted(arrivals')
    BY <1>1, <2>1, <2>3, AppendSorted DEF BothInv
  <2>5. CASE Book!ObserveEvent(t)
    <3>1. /\ bookPhase = "active" /\ bookPhase' = "active" /\ bookCompleted' = bookCompleted
          /\ bookArrivals' = Append(bookArrivals, t)
          /\ pendingTime # Open => t >= pendingTime
      BY <2>5 DEF Book!ObserveEvent
    <3>2. bookArrivals = arrivals /\ bookCompleted = completed
      BY <1>1, <3>1 DEF BothInv
    <3>3. lastTime' = t
      <4>1. CASE lastTime = Open
        BY <2>1, <4>1 DEF Clamped
      <4>2. CASE lastTime # Open
        <5>1. arrivals # <<>> /\ lastTime = arrivals[Len(arrivals)]
          BY <4>2 DEF BothInv, SamplerInv, ClockInv
        <5>2. pendingTime # Open /\ pendingTime = lastTime /\ lastTime \in Int
          BY <2>2, <3>1, <3>2, <5>1 DEF BothInv, BookInv
        <5>3. ~(t < lastTime)
          BY <1>1, <3>1, <5>2
        <5> QED
          BY <2>1, <5>3 DEF Clamped
      <4> QED
        BY <4>1, <4>2
    <3> QED
      BY <1>1, <2>1, <2>4, <3>1, <3>2, <3>3 DEF BothInv
  <2>6. CASE Book!RejectEvent(t) \/ BookStops
    <3>1. bookPhase' = "failed"
      BY <2>6 DEF Book!RejectEvent, BookStops, bookVars
    <3> QED
      BY <1>1, <2>1, <2>4, <3>1 DEF BothInv
  <2> QED
    BY <2>5, <2>6 DEF BothSee
<1> QED
  BY <1>2, <1>3 DEF BothSee

LEMMA BothStepInv == BothInv /\ [BothNext]_<<vars, bookVars>> => BothInv'
<1> SUFFICES ASSUME BothInv, [BothNext]_<<vars, bookVars>> PROVE BothInv'
  OBVIOUS
<1>1. SamplerInv' /\ BookInv'
  BY BothSteps, SamplerInvStep, BookStepInv DEF BothInv
<1>2. CASE BothStart
  <2>1. arrivals' = <<>> /\ phase' = "active" /\ phase = "between" /\ completed' = completed
    BY <1>2 DEF BothStart, StartArchive
  <2>2. Sorted(arrivals')
    BY <2>1 DEF Sorted
  <2>3. CASE Book!StartArchive
    <3>1. /\ bookArrivals' = <<>> /\ bookPhase' = "active" /\ bookPhase = "between"
          /\ bookCompleted' = bookCompleted
      BY <2>3 DEF Book!StartArchive
    <3> QED
      BY <1>1, <2>1, <2>2, <3>1 DEF BothInv
  <2>4. CASE BookStops
    BY <1>1, <2>1, <2>2, <2>4 DEF BothInv, BookStops, bookVars
  <2> QED
    BY <1>2, <2>3, <2>4 DEF BothStart
<1>3. ASSUME NEW t \in -1 .. BucketCount * BucketTicks, BothSee(t) PROVE BothInv'
  BY <1>1, <1>3, BothSeeInv
<1>4. CASE BothComplete
  <2>1. Sampling!Close
    BY <1>1, <1>4, FinishIsClose DEF BothInv, BothComplete
  <2>2. /\ phase = "active" /\ phase' = "between" /\ arrivals' = arrivals
        /\ completed' = completed + 1 /\ completed \in Nat
    BY <1>4 DEF BothComplete, FinishArchive, BothInv, SamplerInv, TypeOK
  <2>3. \A i \in Sampling!Buckets :
          Sampling!IsLatest(arrivals', Sampling!BucketEnd(i), observations'[i])
    BY <2>1, <2>2 DEF Sampling!Close
  <2>4. CASE Book!FinishActiveHour
    <3>1. /\ bookPhase = "active" /\ bookPhase' = "between" /\ bookArrivals' = bookArrivals
          /\ bookCompleted' = bookCompleted + 1
      BY <2>4 DEF Book!FinishActiveHour
    <3> QED
      BY <1>1, <2>2, <2>3, <3>1 DEF BothInv, Sorted
  <2>5. CASE BookStops
    BY <1>1, <2>2, <2>3, <2>5 DEF BothInv, BookStops, bookVars, Sorted
  <2> QED
    BY <1>4, <2>4, <2>5 DEF BothComplete
<1>5. CASE FinishRun
  <2>1. phase' = "finished" /\ arrivals' = arrivals
    BY <1>5 DEF FinishRun, Finish
  <2> QED
    BY <1>1, <2>1 DEF BothInv, Sorted
<1>6. CASE UNCHANGED <<vars, bookVars>>
  BY <1>1, <1>6 DEF vars, bookVars, BothInv, Sorted
<1> QED
  BY <1>2, <1>3, <1>4, <1>5, <1>6 DEF BothNext

LEMMA BothInvariant == BothSpec => []BothInv
BY BothInitInv, BothStepInv, PTL DEF BothSpec

(* An hour which the liquidity sampler (liquidity/hourly.py) and the book     *)
(* sampler (ingest/sampling.py) both complete has the same sample in every   *)
(* bucket, whatever order receive times come in.                             *)
THEOREM SameSamples == BothSpec => []SamplersAgree
<1>1. BothInv => SamplersAgree
  <2> SUFFICES ASSUME BothInv, phase = "between", bookPhase = "between", completed > 0
               PROVE  completed = bookCompleted /\ observations = samples
    BY DEF SamplersAgree
  <2>1. /\ completed = bookCompleted /\ bookArrivals = arrivals
        /\ arrivals \in Seq(Int) /\ Sorted(arrivals)
        /\ observations \in [Sampling!Buckets -> Nat] /\ samples \in [Sampling!Buckets -> Nat]
    BY BucketAssumption DEF BothInv, SamplerInv, TypeOK, BookInv, Sampling!HourTicks
  <2>2. ASSUME NEW i \in Sampling!Buckets PROVE observations[i] = samples[i]
    <3>1. /\ Sampling!IsLatest(arrivals, Sampling!BucketEnd(i), observations[i])
          /\ Sampling!IsLatest(arrivals, Sampling!BucketEnd(i), samples[i])
      BY <2>1 DEF BothInv, BookInv
    <3>2. Sampling!BucketEnd(i) \in Int
      BY BucketAssumption, BucketEndMonotone DEF Sampling!Buckets
    <3> QED
      BY <2>1, <3>1, <3>2, LatestIsUnique
  <2> QED
    BY <2>1, <2>2
<1> QED
  BY <1>1, BothInvariant, PTL

-----------------------------------------------------------------------------
(* Refinement of the book sampler.                                           *)
LEMMA BookSamplingStep ==
    ASSUME BookInv, BookInv', BookStep
    PROVE  [Book!Sampling!Next]_<<bookArrivals,
               IF bookPhase = "between" /\ bookCompleted > 0 THEN samples ELSE Open>>
<1> DEFINE closed == IF bookPhase = "between" /\ bookCompleted > 0 THEN samples ELSE Open
<1>1. CASE Book!StartArchive
  <2>1. CASE bookCompleted > 0
    <3>1. samples # Open
      BY OpenAssumption DEF BookInv
    <3> QED
      BY <1>1, <2>1, <3>1
         DEF Book!StartArchive, Book!Sampling!Next, Book!Sampling!OpenNextHour
  <2>2. CASE ~(bookCompleted > 0)
    <3>1. bookArrivals = <<>>
      BY <1>1, <2>2 DEF Book!StartArchive, BookInv
    <3> QED
      BY <1>1, <2>2, <3>1 DEF Book!StartArchive
  <2> QED
    BY <2>1, <2>2
<1>2. ASSUME NEW t \in -1 .. BucketCount * BucketTicks, Book!ObserveEvent(t)
      PROVE  Book!Sampling!Arrive
  <2>1. /\ t \in Book!Sampling!HourTicks /\ t \in Int /\ t >= 0
        /\ bookPhase = "active" /\ bookPhase' = "active"
        /\ bookArrivals' = Append(bookArrivals, t)
        /\ pendingTime # Open => t >= pendingTime
    BY <1>2, BucketAssumption DEF Book!ObserveEvent, Book!InHour, Book!Sampling!HourTicks
  <2>2. Book!Sampling!ClockAt(bookArrivals, t) = t
    <3>1. CASE bookArrivals = <<>>
      BY <2>1, <3>1 DEF Book!Sampling!ClockAt, Book!Sampling!Clock
    <3>2. CASE bookArrivals # <<>>
      <4>1. /\ pendingTime # Open /\ pendingTime = bookArrivals[Len(bookArrivals)]
            /\ pendingTime \in Int
        BY <2>1, <3>2, BucketAssumption DEF BookInv, Sampling!HourTicks
      <4> QED
        BY <2>1, <3>2, <4>1 DEF Book!Sampling!ClockAt, Book!Sampling!Clock
    <3> QED
      BY <3>1, <3>2
  <2> QED
    BY <2>1, <2>2 DEF Book!Sampling!Arrive
<1>3. ASSUME NEW t, Book!RejectEvent(t)
      PROVE  UNCHANGED <<bookArrivals, closed>>
  BY <1>3 DEF Book!RejectEvent
<1>4. CASE Book!FinishActiveHour
  <2>1. /\ bookPhase = "active" /\ bookPhase' = "between" /\ bookArrivals' = bookArrivals
        /\ bookCompleted' > 0 /\ samples' \in [Sampling!Buckets -> Nat]
    BY <1>4 DEF Book!FinishActiveHour, BookInv
  <2>2. \A i \in Sampling!Buckets :
          Sampling!IsLatest(bookArrivals, Sampling!BucketEnd(i), samples'[i])
    BY <1>4, BookCompletes
  <2>3. samples' \in [Book!Sampling!Buckets -> 0 .. Len(bookArrivals)]
    <3>1. \A i \in Sampling!Buckets : samples'[i] \in 0 .. Len(bookArrivals)
      BY <2>2 DEF Sampling!IsLatest
    <3> QED
      BY <2>1, <3>1, SameHour
  <2>4. Book!Sampling!Close
    BY <2>1, <2>2, <2>3, SameHour DEF Book!Sampling!Close
  <2> QED
    BY <2>4 DEF Book!Sampling!Next
<1>5. CASE UNCHANGED bookVars
  BY <1>5 DEF bookVars
<1> QED
  BY <1>1, <1>2, <1>3, <1>4, <1>5 DEF BookStep, Book!Sampling!Next

(* The sampler of ingest/sampling.py, too, implements end-of-bucket sampling *)
(* of every hour it completes.                                               *)
THEOREM BookSamplerImplementsSampling == BothSpec => BookImplementsSampling
<1>1. BothInit => Book!Sampling!Init
  BY DEF BothInit, Book!Init, Book!Sampling!Init
<1>2. BothInv /\ BothInv' /\ [BothNext]_<<vars, bookVars>> =>
        [Book!Sampling!Next]_<<bookArrivals,
           IF bookPhase = "between" /\ bookCompleted > 0 THEN samples ELSE Open>>
  BY BothSteps, BookSamplingStep DEF BothInv
<1> QED
  BY <1>1, <1>2, BothInvariant, PTL
     DEF BothSpec, BookImplementsSampling, Book!ImplementsSampling, Book!Sampling!Spec

(***************************************************************************)
(* 4.  The reader of an archive.                                             *)
(***************************************************************************)

(* The last event of rows begins here.                                       *)
IsLastCut(read, b) == b \in Cuts(read) /\ \A i \in b + 1 .. Len(read) : i \notin Cuts(read)

LEMMA CutsAreFinite ==
  ASSUME NEW S, NEW read \in Seq(S)
  PROVE  /\ Cuts(read) \subseteq 1 .. Len(read)
         /\ IsFiniteSet(Cuts(read)) /\ Cardinality(Cuts(read)) \in Nat
<1>1. Cuts(read) \subseteq 1 .. Len(read)
  BY DEF Cuts
<1>2. IsFiniteSet(1 .. Len(read))
  BY FS_Interval
<1> QED
  BY <1>1, <1>2, FS_Subset, FS_CardinalityType

LEMMA CutsBeforeAreFinite ==
  ASSUME NEW S, NEW read \in Seq(S), NEW i
  PROVE  IsFiniteSet({c \in Cuts(read) : c < i}) /\ CutsBefore(read, i) \in Nat
<1>1. IsFiniteSet({c \in Cuts(read) : c < i})
  BY CutsAreFinite, FS_Subset
<1> QED
  BY <1>1, FS_CardinalityType DEF CutsBefore

(* One row more cuts where it is unlike the one before it.                   *)
LEMMA CutsOfMore ==
  ASSUME NEW S, NEW read \in Seq(S), NEW x \in S
  PROVE  LET cut == read = <<>> \/ x # read[Len(read)] IN
         /\ Cuts(Append(read, x)) = Cuts(read) \cup (IF cut THEN {Len(read) + 1} ELSE {})
         /\ Cardinality(Cuts(Append(read, x))) = Cardinality(Cuts(read)) + (IF cut THEN 1 ELSE 0)
         /\ \A i \in 1 .. Len(read) + 1 : CutsBefore(Append(read, x), i) = CutsBefore(read, i)
         /\ CutsBefore(read, Len(read) + 1) = Cardinality(Cuts(read))
<1> DEFINE more == Append(read, x)
           cut == read = <<>> \/ x # read[Len(read)]
<1>1. /\ Len(more) = Len(read) + 1 /\ DOMAIN more = 1 .. Len(read) + 1 /\ DOMAIN read = 1 .. Len(read)
      /\ more[Len(read) + 1] = x /\ \A i \in 1 .. Len(read) : more[i] = read[i]
      /\ Len(read) \in Nat /\ (read = <<>> <=> Len(read) = 0)
  OBVIOUS
<1>2. Cuts(more) = Cuts(read) \cup (IF cut THEN {Len(read) + 1} ELSE {})
  <2>1. ASSUME NEW i \in 1 .. Len(read) PROVE i \in Cuts(more) <=> i \in Cuts(read)
    BY <1>1 DEF Cuts
  <2>2. Len(read) + 1 \in Cuts(more) <=> cut
    <3>1. CASE read = <<>>
      BY <1>1, <3>1 DEF Cuts
    <3>2. CASE read # <<>>
      <4>1. Len(read) \in 1 .. Len(read) /\ Len(read) + 1 # 1 /\ Len(read) + 1 - 1 = Len(read)
        BY <1>1, <3>2
      <4>2. more[Len(read) + 1 - 1] = read[Len(read)]
        BY <1>1, <4>1
      <4> QED
        BY <1>1, <3>2, <4>1, <4>2 DEF Cuts
    <3> QED
      BY <3>1, <3>2
  <2>3. Cuts(more) \subseteq 1 .. Len(read) + 1 /\ Cuts(read) \subseteq 1 .. Len(read)
    BY <1>1 DEF Cuts
  <2> QED
    BY <1>1, <2>1, <2>2, <2>3
<1> HIDE DEF cut
<1>3. IsFiniteSet(Cuts(read)) /\ Len(read) + 1 \notin Cuts(read) /\ Cuts(read) \subseteq 1 .. Len(read)
      /\ Cardinality(Cuts(read)) \in Nat
  BY <1>1, CutsAreFinite
<1>4. Cardinality(Cuts(more)) = Cardinality(Cuts(read)) + (IF cut THEN 1 ELSE 0)
  <2>1. CASE cut
    BY <1>2, <1>3, <2>1, FS_AddElement
  <2>2. CASE ~cut
    BY <1>2, <1>3, <2>2
  <2> QED
    BY <2>1, <2>2
<1>5. ASSUME NEW i \in 1 .. Len(read) + 1 PROVE CutsBefore(more, i) = CutsBefore(read, i)
  <2>1. {c \in Cuts(more) : c < i} = {c \in Cuts(read) : c < i}
    BY <1>1, <1>2, <1>3
  <2> QED
    BY <2>1 DEF CutsBefore
<1>6. CutsBefore(read, Len(read) + 1) = Cardinality(Cuts(read))
  <2>1. {c \in Cuts(read) : c < Len(read) + 1} = Cuts(read)
    BY <1>1, <1>3
  <2> QED
    BY <2>1 DEF CutsBefore
<1> QED
  BY <1>2, <1>4, <1>5, <1>6 DEF cut

(* The last event begins after all others.                                   *)
LEMMA LastCutIsLast ==
  ASSUME NEW S, NEW read \in Seq(S), NEW b, IsLastCut(read, b)
  PROVE  /\ CutsBefore(read, b) = Cardinality(Cuts(read)) - 1
         /\ \A f \in Cuts(read) : f # b => f < b /\ CutsBefore(read, f) < CutsBefore(read, b)
<1>1. /\ Cuts(read) \subseteq 1 .. Len(read) /\ IsFiniteSet(Cuts(read)) /\ Len(read) \in Nat
      /\ b \in Cuts(read) /\ Cardinality(Cuts(read)) \in Nat
  BY CutsAreFinite DEF IsLastCut
<1>2. ASSUME NEW f \in Cuts(read), f # b PROVE f < b
  BY <1>1, <1>2 DEF IsLastCut
<1>3. {c \in Cuts(read) : c < b} = Cuts(read) \ {b}
  BY <1>1, <1>2
<1>4. CutsBefore(read, b) = Cardinality(Cuts(read)) - 1
  BY <1>1, <1>3, FS_RemoveElement DEF CutsBefore
<1>5. ASSUME NEW f \in Cuts(read), f # b PROVE CutsBefore(read, f) < CutsBefore(read, b)
  <2> DEFINE A == {c \in Cuts(read) : c < f}
             B == {c \in Cuts(read) : c < b}
  <2>1. A \subseteq B \ {f} /\ f \in B
    BY <1>1, <1>2, <1>5
  <2>2. IsFiniteSet(A) /\ IsFiniteSet(B) /\ Cardinality(A) \in Nat /\ Cardinality(B) \in Nat
    BY CutsBeforeAreFinite DEF CutsBefore
  <2>3. IsFiniteSet(B \ {f}) /\ Cardinality(B \ {f}) = Cardinality(B) - 1
    BY <2>1, <2>2, FS_RemoveElement
  <2>4. Cardinality(A) <= Cardinality(B \ {f})
    BY <2>1, <2>3, FS_Subset
  <2> QED
    BY <2>2, <2>3, <2>4 DEF CutsBefore
<1> QED
  BY <1>2, <1>4, <1>5

(* One row more leaves the events before the last as they are, and ends the    *)
(* last when it is unlike the row before it.                                 *)
LEMMA EventsOfMore ==
  ASSUME NEW S, NEW read \in Seq(S), NEW x \in S, NEW b, IsLastCut(read, b),
         NEW f, NEW l, IsEvent(Append(read, x), f, l)
  PROVE  /\ f \in 1 .. Len(read) => f \in Cuts(read)
         /\ f \in 1 .. Len(read) \/ f = Len(read) + 1
         /\ f < b => IsEvent(read, f, l)
         /\ f = b /\ x # read[Len(read)] => l = Len(read)
         /\ l \in 1 .. Len(read) + 1
<1> DEFINE cut == read = <<>> \/ x # read[Len(read)]
<1>2. Cuts(Append(read, x)) = Cuts(read) \cup (IF cut THEN {Len(read) + 1} ELSE {})
  BY CutsOfMore
<1>3. /\ Cuts(read) \subseteq 1 .. Len(read) /\ b \in Cuts(read) /\ Len(read) \in Nat
      /\ DOMAIN read = 1 .. Len(read) /\ Len(read) > 0
      /\ \A i \in b + 1 .. Len(read) : i \notin Cuts(read)
  BY CutsAreFinite DEF IsLastCut
<1>4. /\ Len(Append(read, x)) = Len(read) + 1 /\ DOMAIN Append(read, x) = 1 .. Len(read) + 1
  OBVIOUS
<1>5. /\ f \in Cuts(Append(read, x)) /\ l \in 1 .. Len(read) + 1 /\ f <= l
      /\ \A i \in f + 1 .. l : i \notin Cuts(Append(read, x))
      /\ l = Len(read) + 1 \/ l + 1 \in Cuts(Append(read, x))
  BY <1>4 DEF IsEvent
<1> HIDE DEF cut
<1>6. f \in 1 .. Len(read) => f \in Cuts(read)
  BY <1>2, <1>3, <1>5
<1>7. f \in 1 .. Len(read) \/ f = Len(read) + 1
  BY <1>2, <1>3, <1>5
<1>8. ASSUME f < b PROVE IsEvent(read, f, l)
  <2>1. b \notin f + 1 .. l
    BY <1>2, <1>3, <1>5
  <2>2. l < b
    BY <1>3, <1>5, <1>7, <1>8, <2>1
  <2>3. l + 1 \in Cuts(read)
    BY <1>2, <1>3, <1>5, <2>2
  <2>4. \A i \in f + 1 .. l : i \notin Cuts(read)
    BY <1>2, <1>5
  <2>5. f \in Cuts(read)
    BY <1>3, <1>6, <1>7, <1>8
  <2> QED
    BY <1>3, <1>5, <2>2, <2>3, <2>4, <2>5 DEF IsEvent
<1>9. ASSUME f = b, x # read[Len(read)] PROVE l = Len(read)
  <2>1. cut
    BY <1>9 DEF cut
  <2>2. Len(read) + 1 \in Cuts(Append(read, x))
    BY <1>2, <2>1
  <2>3. l # Len(read) + 1
    BY <1>3, <1>5, <1>9, <2>2
  <2>4. l + 1 \in Cuts(read) \/ l + 1 = Len(read) + 1
    BY <1>2, <1>5, <2>3
  <2>5. l + 1 \notin Cuts(read)
    <3>1. CASE l + 1 \in b + 1 .. Len(read)
      BY <1>3, <3>1
    <3>2. CASE l + 1 > Len(read)
      BY <1>3, <3>2
    <3> QED
      BY <1>3, <1>5, <1>9, <3>1, <3>2
  <2> QED
    <3>1. l \in Int /\ Len(read) \in Int
      BY <1>3, <1>5
    <3>2. l + 1 = Len(read) + 1
      BY <2>4, <2>5
    <3> QED
      BY <3>1, <3>2
<1> QED
  BY <1>5, <1>6, <1>7, <1>8, <1>9

-----------------------------------------------------------------------------
(* Types.                                                                   *)

Issues == {"received", "times", "mismatches", "ids"}

Reports ==
  [checks : Nat, mismatches : Nat, received : Nat, times : Nat, ids : Nat, skipped : Nat,
   issues : Seq(Issues)]

Findings == [received : BOOLEAN, times : BOOLEAN, mismatches : BOOLEAN, ids : BOOLEAN]

ReaderType ==
  /\ venue \in Venues
  /\ content \in {"orderbook", "trades"}
  /\ outcome \in {"reading", "done", "failed", "cancelled"}
  /\ report \in Reports
  /\ content = "orderbook" =>
       /\ rows \in Seq(Rows[venue]) /\ delivered \in Seq(Builders)
       /\ builder \in Builders \cup {Nothing}
  /\ content = "trades" =>
       /\ rows \in Seq(TradeRows) /\ delivered \in Seq(TradeRows)
       /\ builder = Nothing

(* A report with other numbers is a report.                                  *)
LEMMA ReportsChange ==
  ASSUME NEW r \in Reports, NEW c \in Nat
  PROVE  /\ [r EXCEPT !.skipped = @ + 1] \in Reports
         /\ [r EXCEPT !.checks = c] \in Reports
BY DEF Reports

LEMMA SequencesJoin ==
  ASSUME NEW s \in Seq(Issues), NEW t \in Seq(Issues)
  PROVE  s \o t \in Seq(Issues) /\ Len(s \o t) = Len(s) + Len(t)
OBVIOUS

LEMMA NotedIsShort ==
  ASSUME NEW issue \in Issues, NEW holds \in BOOLEAN
  PROVE  /\ Noted(issue, holds) \in Seq(Issues)
         /\ Len(Noted(issue, holds)) = IF holds THEN 1 ELSE 0
<1>1. <<issue>> \in Seq(Issues) /\ Len(<<issue>>) = 1 /\ <<>> \in Seq(Issues) /\ Len(<<>>) = 0
  OBVIOUS
<1>2. CASE holds
  BY <1>1, <1>2 DEF Noted
<1>3. CASE ~holds
  BY <1>1, <1>3 DEF Noted
<1> QED
  BY <1>2, <1>3

(* One level more is still under construction.                               *)
LEMMA BuildersGrow ==
  ASSUME NEW d \in Builders, NEW level \in Levels
  PROVE  /\ [d EXCEPT !.levels = Append(@, level)] \in Builders
         /\ [d EXCEPT !.levels = Append(@, level)]
              = [event |-> d.event, reset |-> d.reset, levels |-> Append(d.levels, level)]
<1>1. PICK e \in Events, r \in BOOLEAN, l \in Seq(Levels) :
        d = [event |-> e, reset |-> r, levels |-> l]
  BY DEF Builders
<1>2. Append(l, level) \in Seq(Levels)
  OBVIOUS
<1>3. d.event = e /\ d.reset = r /\ d.levels = l
  BY <1>1
<1>4. ASSUME NEW more
      PROVE  [d EXCEPT !.levels = more] = [event |-> e, reset |-> r, levels |-> more]
  BY <1>1
<1>5. [d EXCEPT !.levels = Append(@, level)]
        = [event |-> e, reset |-> r, levels |-> Append(l, level)]
  BY <1>3, <1>4
<1> QED
  BY <1>2, <1>3, <1>5 DEF Builders

(* A row is of an event.                                                     *)
LEMMA RowsHaveEvents ==
  ASSUME venue \in Venues, NEW row \in Rows[venue]
  PROVE  /\ row \in BookRows /\ EventOf(row) \in Events /\ IsReset(row) \in BOOLEAN
         /\ row.level \in Levels
<1>1. row \in BookRows
  BY ReaderAssumption
<1>2. TransactionTime(row) \in Int \cup {NoId} /\ LastId(row) \in Int \cup {NoId}
  BY <1>1 DEF BookRows, TransactionTime, LastId
<1>3. EventOf(row) \in Events
  BY <1>1, <1>2 DEF BookRows, Events, EventOf
<1>4. IsReset(row) \in BOOLEAN
  BY DEF IsReset
<1> QED
  BY <1>1, <1>3, <1>4 DEF BookRows

(* What is found is counted, each issue once, and the report keeps as many as  *)
(* it has room for.                                                         *)
LEMMA FindingsAreCounted ==
  ASSUME report \in Reports, NEW found \in Findings
  PROVE  LET one(holds) == IF holds THEN 1 ELSE 0
             counted == report.received + report.times + report.mismatches + report.ids
             now == Counted(found)
             more == one(found.received) + one(found.times) + one(found.mismatches)
                       + one(found.ids)
         IN /\ now \in Reports
            /\ now.received = report.received + one(found.received)
            /\ now.mismatches = report.mismatches + one(found.mismatches)
            /\ now.ids = report.ids + one(found.ids)
            /\ now.received + now.times + now.mismatches + now.ids = counted + more
            /\ now.skipped = report.skipped
            /\ Len(report.issues) = (IF counted < MaxIssues THEN counted ELSE MaxIssues) =>
                 Len(now.issues) = (IF counted + more < MaxIssues THEN counted + more ELSE MaxIssues)
<1> DEFINE one(holds) == IF holds THEN 1 ELSE 0
           counted == report.received + report.times + report.mismatches + report.ids
           now == Counted(found)
           more == one(found.received) + one(found.times) + one(found.mismatches) + one(found.ids)
           all == report.issues \o Noted("received", found.received) \o Noted("times", found.times)
                    \o Noted("mismatches", found.mismatches) \o Noted("ids", found.ids)
           room == IF Len(all) < MaxIssues THEN Len(all) ELSE MaxIssues
<1>1. ASSUME NEW issue \in Issues, NEW holds \in BOOLEAN
      PROVE  Noted(issue, holds) \in Seq(Issues) /\ Len(Noted(issue, holds)) = one(holds)
  BY <1>1, NotedIsShort
<1> /\ "received" \in Issues /\ "times" \in Issues /\ "mismatches" \in Issues /\ "ids" \in Issues
  BY DEF Issues
<1>2. /\ found.received \in BOOLEAN /\ found.times \in BOOLEAN /\ found.mismatches \in BOOLEAN
      /\ found.ids \in BOOLEAN
  BY DEF Findings
<1>3. all \in Seq(Issues) /\ Len(all) = Len(report.issues) + more
  <2> DEFINE s1 == report.issues \o Noted("received", found.received)
             s2 == s1 \o Noted("times", found.times)
             s3 == s2 \o Noted("mismatches", found.mismatches)
  <2>0. report.issues \in Seq(Issues)
    BY DEF Reports
  <2> HIDE DEF one
  <2>1. s1 \in Seq(Issues) /\ Len(s1) = Len(report.issues) + one(found.received)
    <3>1. Noted("received", found.received) \in Seq(Issues)
          /\ Len(Noted("received", found.received)) = one(found.received)
      BY <1>1, <1>2
    <3> QED
      BY <2>0, <3>1, SequencesJoin
  <2>2. s2 \in Seq(Issues) /\ Len(s2) = Len(s1) + one(found.times)
    <3> HIDE DEF s1
    <3>1. Noted("times", found.times) \in Seq(Issues)
          /\ Len(Noted("times", found.times)) = one(found.times)
      BY <1>1, <1>2
    <3> QED
      BY <2>1, <3>1, SequencesJoin
  <2>3. s3 \in Seq(Issues) /\ Len(s3) = Len(s2) + one(found.mismatches)
    <3> HIDE DEF s2
    <3>1. Noted("mismatches", found.mismatches) \in Seq(Issues)
          /\ Len(Noted("mismatches", found.mismatches)) = one(found.mismatches)
      BY <1>1, <1>2
    <3> QED
      BY <2>2, <3>1, SequencesJoin
  <2>4. all \in Seq(Issues) /\ Len(all) = Len(s3) + one(found.ids)
    <3> HIDE DEF s3
    <3>1. s3 \o Noted("ids", found.ids) \in Seq(Issues)
          /\ Len(s3 \o Noted("ids", found.ids)) = Len(s3) + one(found.ids)
      <4>1. Noted("ids", found.ids) \in Seq(Issues)
            /\ Len(Noted("ids", found.ids)) = one(found.ids)
        BY <1>1, <1>2
      <4> QED
        BY <2>3, <4>1, SequencesJoin
    <3> QED
      BY <3>1 DEF s3
  <2>5. /\ Len(report.issues) \in Nat /\ one(found.received) \in Nat /\ one(found.times) \in Nat
        /\ one(found.mismatches) \in Nat /\ one(found.ids) \in Nat
    BY <1>2, <2>0 DEF one
  <2> HIDE DEF s1, s2, s3, all
  <2>7. Len(all) = Len(report.issues) + one(found.received) + one(found.times)
                     + one(found.mismatches) + one(found.ids)
    BY <2>1, <2>2, <2>3, <2>4
  <2>8. Len(report.issues) + one(found.received) + one(found.times) + one(found.mismatches)
          + one(found.ids) = Len(report.issues) + more
    BY <2>5
  <2> QED
    BY <2>4, <2>7, <2>8
<1>4. now = [checks |-> report.checks,
             received |-> report.received + one(found.received),
             times |-> report.times + one(found.times),
             mismatches |-> report.mismatches + one(found.mismatches),
             ids |-> report.ids + one(found.ids), skipped |-> report.skipped,
             issues |-> SubSeq(all, 1, room)]
  BY DEF Counted
<1> HIDE DEF now, all
<1>5. room \in Nat /\ room <= Len(all)
  <2>1. Len(all) \in Nat
    BY <1>3, LenProperties
  <2> QED
    BY <2>1, ReaderAssumption
<1>6. SubSeq(all, 1, room) \in Seq(Issues) /\ Len(SubSeq(all, 1, room)) = room
  <2> HIDE DEF room
  <2> QED
    <3>1. Len(all) \in Nat /\ \A i \in 1 .. Len(all) : all[i] \in Issues
      BY <1>3, LenProperties, ElementOfSeq
    <3>2. \A i \in 1 .. room : all[i] \in Issues
      BY <1>5, <3>1
    <3>3. SubSeq(all, 1, room) \in Seq(Issues)
          /\ Len(SubSeq(all, 1, room)) = IF 1 <= room THEN room - 1 + 1 ELSE 0
      BY <1>5, <3>2, SubSeqProperties
    <3> QED
      BY <1>5, <3>3
<1> HIDE DEF room
<1>7. /\ now.received = report.received + one(found.received)
      /\ now.times = report.times + one(found.times)
      /\ now.mismatches = report.mismatches + one(found.mismatches)
      /\ now.ids = report.ids + one(found.ids)
      /\ now.skipped = report.skipped
      /\ now.issues = SubSeq(all, 1, room)
      /\ now \in Reports
  <2>1. /\ one(found.received) \in Nat /\ one(found.times) \in Nat
        /\ one(found.mismatches) \in Nat /\ one(found.ids) \in Nat
    BY <1>2
  <2>2. /\ report.received \in Nat /\ report.times \in Nat /\ report.mismatches \in Nat
        /\ report.ids \in Nat /\ report.checks \in Nat /\ report.skipped \in Nat
    BY DEF Reports
  <2> HIDE DEF one
  <2> DEFINE n1 == report.received + one(found.received)
             n2 == report.times + one(found.times)
             n3 == report.mismatches + one(found.mismatches)
             n4 == report.ids + one(found.ids)
  <2>3. n1 \in Nat /\ n2 \in Nat /\ n3 \in Nat /\ n4 \in Nat
    BY <2>1, <2>2
  <2> HIDE DEF n1, n2, n3, n4
  <2>4. now = [checks |-> report.checks, received |-> n1, times |-> n2, mismatches |-> n3,
               ids |-> n4, skipped |-> report.skipped, issues |-> SubSeq(all, 1, room)]
    BY <1>4 DEF n1, n2, n3, n4
  <2>5. now \in Reports
    BY <1>6, <2>2, <2>3, <2>4 DEF Reports
  <2> QED
    BY <2>4, <2>5 DEF n1, n2, n3, n4
<1>8. /\ report.received \in Nat /\ report.times \in Nat /\ report.mismatches \in Nat
      /\ report.ids \in Nat
  BY DEF Reports
<1>9. ASSUME Len(report.issues) = (IF counted < MaxIssues THEN counted ELSE MaxIssues)
      PROVE  Len(now.issues) = (IF counted + more < MaxIssues THEN counted + more ELSE MaxIssues)
  BY <1>3, <1>6, <1>7, <1>8, <1>9, ReaderAssumption DEF room
<1>10. now.received + now.times + now.mismatches + now.ids = counted + more
  BY <1>7, <1>8
<1> QED
  BY <1>7, <1>9, <1>10 DEF now

(* What is found of an event or a trade.                                     *)
LEMMA FindingsAreFindings ==
  ASSUME NEW e
  PROVE  IssuesOf(e) \in Findings /\ TradeIssues(e) \in Findings
BY DEF IssuesOf, TradeIssues, Findings, Compared

(* What an event or a trade that is delivered leaves.                        *)
LEMMA FinishedTypes ==
  ASSUME ReaderType, content = "orderbook", FinishEvent
  PROVE  delivered' \in Seq(Builders) /\ report' \in Reports
<1>1. CASE builder = Nothing
  BY <1>1 DEF FinishEvent, ReaderType
<1>2. CASE builder # Nothing
  <2>1. builder \in Builders /\ delivered' = Append(delivered, builder)
    BY <1>2 DEF FinishEvent, ReaderType
  <2>2. Counted(IssuesOf(builder.event)) \in Reports
    BY FindingsAreCounted, FindingsAreFindings DEF ReaderType
  <2>3. report' = [Counted(IssuesOf(builder.event)) EXCEPT
                    !.checks = IF Compared(builder.event) THEN @ + 1 ELSE @]
    BY <1>2 DEF FinishEvent
  <2>4. report' \in Reports
    BY <2>2, <2>3 DEF Reports
  <2> QED
    BY <2>1, <2>4 DEF ReaderType
<1> QED
  BY <1>1, <1>2

LEMMA ReaderTypeStep ==
  ASSUME ReaderType, [ReaderNext]_readerVars
  PROVE  ReaderType'
<1> USE DEF ReaderType
<1>1. ASSUME NEW row \in Rows[venue], Refuse(row) PROVE ReaderType'
  BY <1>1 DEF Refuse, Reads
<1>2. ASSUME NEW row \in Rows[venue], ContinueEvent(row) PROVE ReaderType'
  <2>1. builder \in Builders /\ row.level \in Levels
    BY <1>2, RowsHaveEvents DEF ContinueEvent, Continues
  <2>2. builder' \in Builders
    BY <1>2, <2>1, BuildersGrow DEF ContinueEvent
  <2> QED
    BY <1>2, <2>2 DEF ContinueEvent, Reads
<1>3. ASSUME NEW row \in Rows[venue], NEW raises \in BOOLEAN, BeginEvent(row, raises)
      PROVE  ReaderType'
  <2>1. [event |-> EventOf(row), reset |-> IsReset(row), levels |-> <<row.level>>] \in Builders
    BY RowsHaveEvents DEF Builders
  <2>2. builder' \in Builders \cup {Nothing}
    BY <1>3, <2>1 DEF BeginEvent
  <2>3. delivered' \in Seq(Builders) /\ report' \in Reports
    BY <1>3, FinishedTypes DEF BeginEvent
  <2> QED
    BY <1>3, <2>2, <2>3 DEF BeginEvent, Reads
<1>4. ASSUME NEW row \in TradeRows, ReadTrade(row) PROVE ReaderType'
  <2>1. Counted(TradeIssues(row)) \in Reports
    BY FindingsAreCounted, FindingsAreFindings
  <2>2. [report EXCEPT !.skipped = @ + 1] \in Reports
    BY ReportsChange
  <2>3. report' \in Reports
    BY <1>4, <2>1, <2>2 DEF ReadTrade
  <2> QED
    BY <1>4, <2>3 DEF ReadTrade, Reads
<1>5. ASSUME EndOfFile PROVE ReaderType'
  <2>1. CASE content = "orderbook"
    BY <1>5, <2>1, FinishedTypes DEF EndOfFile
  <2>2. CASE content = "trades"
    BY <1>5, <2>2 DEF EndOfFile, FinishEvent
  <2> QED
    BY <2>1, <2>2
<1>6. ASSUME Cancel PROVE ReaderType'
  BY <1>6 DEF Cancel
<1>7. ASSUME UNCHANGED readerVars PROVE ReaderType'
  BY <1>7 DEF readerVars
<1> QED
  BY <1>1, <1>2, <1>3, <1>4, <1>5, <1>6, <1>7 DEF ReaderNext

-----------------------------------------------------------------------------
(* The events that are delivered.                                            *)

(* The event under construction is the last of the rows, from row b.          *)
Assembles(b) ==
  /\ IsLastCut(Read, b)
  /\ \A d \in Builders, n \in Nat : 
       d = builder /\ n = Len(rows) => IsWhat(d, b, n) /\ Read[n] = d.event

DeliversExactly ==
  \A d \in Builders, f \in Nat, l \in Nat, n \in Nat :
    IsEvent(Read, f, l) /\ n = CutsBefore(Read, f) + 1 /\ n \in DOMAIN delivered /\ d = delivered[n]
      => IsWhat(d, f, l)

DeliversEnough ==
  /\ outcome # "failed" =>
       Len(delivered) = Cardinality(Cuts(Read)) - (IF builder = Nothing THEN 0 ELSE 1)
  /\ outcome = "failed" =>
       IF builder = Nothing
       THEN Cardinality(Cuts(Read)) - Len(delivered) \in {0, 1}
       ELSE Len(delivered) = CutsBefore(Read, Len(rows)) - 1

ReadingInv ==
  content = "orderbook" =>
    /\ DeliversExactly
    /\ DeliversEnough
    /\ outcome = "reading" =>
         /\ builder = Nothing => rows = <<>> /\ delivered = <<>>
         /\ builder # Nothing => \E b \in Nat : Assembles(b)

(* The rows read so far are of events; one more is of one more.              *)
LEMMA RowsRead ==
  ASSUME ReaderType, content = "orderbook"
  PROVE  /\ Read \in Seq(Events) /\ Len(Read) = Len(rows) /\ Len(rows) \in Nat
         /\ DOMAIN Read = 1 .. Len(rows) /\ DOMAIN rows = 1 .. Len(rows)
         /\ Read = <<>> <=> rows = <<>>
         /\ \A i \in 1 .. Len(rows) : rows[i] \in Rows[venue] /\ Read[i] = EventOf(rows[i])
<1>1. /\ rows \in Seq(Rows[venue]) /\ Len(rows) \in Nat /\ DOMAIN rows = 1 .. Len(rows)
      /\ \A i \in 1 .. Len(rows) : rows[i] \in Rows[venue]
  BY DEF ReaderType
<1>2. \A i \in 1 .. Len(rows) : EventOf(rows[i]) \in Events
  BY <1>1, RowsHaveEvents DEF ReaderType
<1>3. Read \in [1 .. Len(rows) -> Events] /\ \A i \in 1 .. Len(rows) : Read[i] = EventOf(rows[i])
  BY <1>1, <1>2 DEF Read
<1>4. Read \in Seq(Events) /\ Len(Read) = Len(rows) /\ DOMAIN Read = 1 .. Len(rows)
  <2> HIDE DEF Read
  <2> QED
    BY <1>1, <1>3, SeqDef, LenProperties
<1>5. Read = <<>> <=> rows = <<>>
  BY <1>1, <1>4, EmptySeq
<1> QED
  BY <1>1, <1>3, <1>4, <1>5

LEMMA RowsReadGrow ==
  ASSUME ReaderType, content = "orderbook", NEW row \in Rows[venue],
         venue' = venue, rows' = Append(rows, row)
  PROVE  Read' = Append(Read, EventOf(row)) /\ EventOf(row) \in Events
<1>1. EventOf(row) \in Events
  BY RowsHaveEvents DEF ReaderType
<1>2. /\ Read \in Seq(Events) /\ Len(Read) = Len(rows) /\ Len(rows) \in Nat
      /\ DOMAIN rows = 1 .. Len(rows)
      /\ \A i \in 1 .. Len(rows) : rows[i] \in Rows[venue] /\ Read[i] = EventOf(rows[i])
  BY RowsRead
<1>3. /\ DOMAIN rows' = 1 .. Len(rows) + 1 /\ rows'[Len(rows) + 1] = row
      /\ \A i \in 1 .. Len(rows) : rows'[i] = rows[i]
  BY <1>2 DEF ReaderType
<1>4. DOMAIN Read' = 1 .. Len(rows) + 1 /\ Read' = [i \in DOMAIN Read' |-> Read'[i]]
  BY <1>3 DEF Read
<1>5. ASSUME NEW i \in 1 .. Len(rows) PROVE Read'[i] = Read[i]
  BY <1>3, <1>5 DEF Read, EventOf, TransactionTime, LastId, IsReset
<1>6. Read'[Len(rows) + 1] = EventOf(row)
  BY <1>2, <1>3 DEF Read, EventOf, TransactionTime, LastId, IsReset
<1>7. /\ Append(Read, EventOf(row)) \in Seq(Events)
      /\ DOMAIN Append(Read, EventOf(row)) = 1 .. Len(rows) + 1
      /\ Append(Read, EventOf(row))[Len(rows) + 1] = EventOf(row)
      /\ \A i \in 1 .. Len(rows) : Append(Read, EventOf(row))[i] = Read[i]
  BY <1>1, <1>2
<1> HIDE DEF Read
<1>8. Append(Read, EventOf(row)) \in [1 .. Len(rows) + 1 -> Events]
  BY <1>7, <1>2, LenProperties
<1> QED
  BY <1>1, <1>2, <1>4, <1>5, <1>6, <1>7, <1>8

(* What an event is does not change when another row is read.                *)
LEMMA WhatStays ==
  ASSUME ReaderType, content = "orderbook", NEW row \in Rows[venue],
         venue' = venue, rows' = Append(rows, row),
         NEW d, NEW f \in Nat, NEW l \in Nat, f > 0, f <= l, l <= Len(rows), IsWhat(d, f, l)
  PROVE  IsWhat(d, f, l)'
<1>1. /\ Read \in Seq(Events) /\ Len(Read) = Len(rows) /\ Len(rows) \in Nat
      /\ DOMAIN rows = 1 .. Len(rows)
  BY RowsRead
<1>2. \A i \in 1 .. Len(rows) : rows'[i] = rows[i]
  BY <1>1 DEF ReaderType
<1>3. Read'[f] = Read[f]
  BY <1>1, RowsReadGrow
<1>4. IsValid(d.event)'
  BY DEF IsWhat, IsValid, ValidSnapshot, ValidUpdate, TransactionTimeOwned, SnapshotFrontier,
         PredecessorFrontier, ResultingFrontier
<1>5. \A i \in 1 .. l - f + 1 : f + i - 1 \in 1 .. Len(rows)
  BY <1>1
<1>6. [i \in 1 .. l - f + 1 |-> rows'[f + i - 1].level]
        = [i \in 1 .. l - f + 1 |-> rows[f + i - 1].level]
  BY <1>2, <1>5
<1>7. ASSUME NEW i \in f .. l
      PROVE  Converts(rows[i])' /\ IsReset(rows[i])' = IsReset(rows[i])
  <2>1. rows'[i] = rows[i] /\ Converts(rows[i])
    BY <1>1, <1>2 DEF IsWhat
  <2> QED
    BY <2>1 DEF Converts, IsReset, LastId, EventOf, TransactionTime, TransactionTimeOwned, SequenceId
<1> QED
  BY <1>3, <1>4, <1>6, <1>7 DEF IsWhat

(* The event under construction, if there is one.                            *)
LEMMA UnderConstruction ==
  ASSUME ReaderType, ReadingInv, content = "orderbook", outcome = "reading", builder # Nothing
  PROVE  /\ builder \in Builders /\ delivered \in Seq(Builders)
         /\ Len(delivered) = Cardinality(Cuts(Read)) - 1
         /\ Cardinality(Cuts(Read)) \in Nat
         /\ \E b \in 1 .. Len(rows) :
              /\ Assembles(b) /\ IsLastCut(Read, b)
              /\ CutsBefore(Read, b) = Cardinality(Cuts(Read)) - 1
              /\ IsWhat(builder, b, Len(rows)) /\ Read[Len(rows)] = builder.event
              /\ Len(rows) > 0
<1>1. builder \in Builders /\ delivered \in Seq(Builders)
  BY DEF ReaderType
<1>2. Read \in Seq(Events) /\ Len(Read) = Len(rows) /\ Len(rows) \in Nat
  BY RowsRead
<1>3. PICK b \in Nat : Assembles(b)
  BY DEF ReadingInv
<1>4. IsLastCut(Read, b) /\ IsWhat(builder, b, Len(rows)) /\ Read[Len(rows)] = builder.event
  BY <1>1, <1>2, <1>3 DEF Assembles
<1>5. Cuts(Read) \subseteq 1 .. Len(rows) /\ Cardinality(Cuts(Read)) \in Nat
  BY <1>2, CutsAreFinite
<1>6. b \in 1 .. Len(rows)
  BY <1>4, <1>5 DEF IsLastCut
<1>7. CutsBefore(Read, b) = Cardinality(Cuts(Read)) - 1
  BY <1>2, <1>4, LastCutIsLast
<1>8. Len(delivered) = Cardinality(Cuts(Read)) - 1
  BY DEF ReadingInv, DeliversEnough
<1> QED
  BY <1>1, <1>2, <1>3, <1>4, <1>5, <1>6, <1>7, <1>8

(* What was delivered remains what its rows are when one more row is read,     *)
(* and when the event this row ends is delivered too.                        *)
LEMMA DeliveryOfMore ==
  ASSUME ReaderType, ReadingInv, content = "orderbook", outcome = "reading",
         NEW row \in Rows[venue], venue' = venue, rows' = Append(rows, row),
         \/ delivered' = delivered
         \/ delivered' = Append(delivered, builder) /\ builder # Nothing /\ ~Continues(row)
  PROVE  DeliversExactly'
<1> DEFINE x == EventOf(row)
<1>1. /\ Read' = Append(Read, x) /\ x \in Events
      /\ Read \in Seq(Events) /\ Len(Read) = Len(rows) /\ Len(rows) \in Nat
      /\ DOMAIN Read = 1 .. Len(rows)
  BY RowsRead, RowsReadGrow
<1>2. CASE builder = Nothing
  <2>1. delivered' = <<>>
    BY <1>2 DEF ReadingInv
  <2> QED
    BY <2>1 DEF DeliversExactly
<1>3. CASE builder # Nothing
  <2>1. PICK b \in 1 .. Len(rows) :
              /\ IsLastCut(Read, b)
              /\ CutsBefore(Read, b) = Cardinality(Cuts(Read)) - 1
              /\ IsWhat(builder, b, Len(rows)) /\ Read[Len(rows)] = builder.event
    BY <1>3, UnderConstruction
  <2>2. /\ builder \in Builders /\ delivered \in Seq(Builders) /\ Cardinality(Cuts(Read)) \in Nat
        /\ Len(delivered) = Cardinality(Cuts(Read)) - 1
    BY <1>3, UnderConstruction
  <2>3. SUFFICES ASSUME NEW d \in Builders, NEW f \in Nat, NEW l \in Nat, NEW n \in Nat,
                        IsEvent(Append(Read, x), f, l), n = CutsBefore(Append(Read, x), f) + 1,
                        n \in DOMAIN delivered', d = delivered'[n]
                 PROVE  IsWhat(d, f, l)'
    BY <1>1 DEF DeliversExactly
  <2>4. /\ f \in 1 .. Len(rows) => f \in Cuts(Read)
        /\ f \in 1 .. Len(rows) \/ f = Len(rows) + 1
        /\ f < b => IsEvent(Read, f, l)
        /\ f = b /\ x # Read[Len(Read)] => l = Len(rows)
    <3>1. x \in Events /\ Read \in Seq(Events) /\ Len(Read) = Len(rows)
      BY <1>1
    <3> HIDE DEF x
    <3>2. IsLastCut(Read, b) /\ IsEvent(Append(Read, x), f, l)
      BY <2>1, <2>3 DEF x
    <3>3. /\ f \in 1 .. Len(Read) => f \in Cuts(Read)
          /\ f \in 1 .. Len(Read) \/ f = Len(Read) + 1
          /\ f < b => IsEvent(Read, f, l)
          /\ f = b /\ x # Read[Len(Read)] => l = Len(Read)
      BY <3>1, <3>2, EventsOfMore
    <3> QED
      BY <3>1, <3>3
  <2>5. /\ \A i \in 1 .. Len(rows) + 1 : CutsBefore(Append(Read, x), i) = CutsBefore(Read, i)
        /\ CutsBefore(Read, Len(rows) + 1) = Cardinality(Cuts(Read))
    BY <1>1, CutsOfMore
  <2>6. n <= Cardinality(Cuts(Read))
    BY <2>2, <2>3
  <2>7. f \in Cuts(Read) /\ f \in 1 .. Len(rows) /\ n = CutsBefore(Read, f) + 1
    <3>1. f # Len(rows) + 1
      BY <2>2, <2>3, <2>5, <2>6, <1>1
    <3>2. f \in 1 .. Len(rows) /\ f \in Cuts(Read)
      BY <2>4, <3>1
    <3>3. f \in 1 .. Len(rows) + 1
      BY <1>1, <3>2
    <3> QED
      BY <2>3, <2>5, <3>2, <3>3
  <2>8. CASE f = b
    <3>1. n = Len(delivered) + 1
      BY <2>1, <2>2, <2>7, <2>8
    <3>2. delivered' = Append(delivered, builder) /\ ~Continues(row)
      BY <2>2, <2>3, <3>1
    <3>3. d = builder
      BY <2>2, <2>3, <3>1, <3>2
    <3>4. x # Read[Len(Read)]
      BY <1>1, <1>3, <2>1, <3>2 DEF Continues
    <3>5. l = Len(rows)
      BY <2>4, <2>8, <3>4
    <3> QED
      BY <1>1, <2>1, <2>8, <3>3, <3>5, WhatStays
  <2>9. CASE f # b
    <3>1. f < b /\ CutsBefore(Read, f) < CutsBefore(Read, b)
      BY <1>1, <2>1, <2>7, <2>9, LastCutIsLast
    <3>2. CutsBefore(Read, f) \in Nat
      BY <1>1, CutsBeforeAreFinite
    <3>3. n \in 1 .. Len(delivered)
      BY <2>1, <2>2, <2>7, <3>1, <3>2
    <3>4. d = delivered[n] /\ n \in DOMAIN delivered
      BY <2>2, <2>3, <3>3
    <3>5. IsEvent(Read, f, l)
      BY <2>4, <3>1
    <3>6. IsWhat(d, f, l)
      BY <2>7, <3>4, <3>5 DEF ReadingInv, DeliversExactly
    <3>7. f > 0 /\ f <= l /\ l <= Len(rows)
      BY <1>1, <2>7, <3>5 DEF IsEvent
    <3> QED
      BY <3>6, <3>7, WhatStays
  <2> QED
    BY <2>8, <2>9
<1> QED
  BY <1>2, <1>3

(* What was delivered is exact in any case when no row is read.              *)
LEMMA DeliveryOfSame ==
  ASSUME ReaderType, ReadingInv, content = "orderbook",
         venue' = venue, rows' = rows,
         \/ delivered' = delivered
         \/ delivered' = Append(delivered, builder) /\ builder # Nothing /\ outcome = "reading"
  PROVE  Read' = Read /\ DeliversExactly'
<1>1. Read' = Read
  BY DEF Read, EventOf, TransactionTime, LastId, IsReset
<1>2. ASSUME NEW d, NEW f, NEW l, IsWhat(d, f, l) PROVE IsWhat(d, f, l)'
  BY <1>1, <1>2 DEF IsWhat, IsValid, ValidSnapshot, ValidUpdate, TransactionTimeOwned,
     SnapshotFrontier, PredecessorFrontier, ResultingFrontier, Converts, IsReset, LastId, EventOf,
     TransactionTime, SequenceId
<1>3. SUFFICES ASSUME NEW d \in Builders, NEW f \in Nat, NEW l \in Nat, NEW n \in Nat,
                      IsEvent(Read, f, l), n = CutsBefore(Read, f) + 1,
                      n \in DOMAIN delivered', d = delivered'[n]
               PROVE  IsWhat(d, f, l)
  BY <1>1, <1>2 DEF DeliversExactly
<1>4. delivered \in Seq(Builders)
  BY DEF ReaderType
<1>5. CASE n \in DOMAIN delivered /\ d = delivered[n]
  BY <1>3, <1>5 DEF ReadingInv, DeliversExactly
<1>6. CASE ~(n \in DOMAIN delivered /\ d = delivered[n])
  <2>1. /\ builder # Nothing /\ outcome = "reading" /\ delivered' = Append(delivered, builder)
        /\ n = Len(delivered) + 1 /\ d = builder
    <3>1. delivered' = Append(delivered, builder) /\ builder # Nothing /\ outcome = "reading"
      BY <1>3, <1>6
    <3>2. builder \in Builders
      BY <3>1 DEF ReaderType
    <3> QED
      BY <1>3, <1>4, <1>6, <3>1, <3>2
  <2>2. PICK b \in 1 .. Len(rows) :
              /\ IsLastCut(Read, b)
              /\ CutsBefore(Read, b) = Cardinality(Cuts(Read)) - 1
              /\ IsWhat(builder, b, Len(rows))
    BY <2>1, UnderConstruction
  <2>3. Len(delivered) = Cardinality(Cuts(Read)) - 1 /\ Cardinality(Cuts(Read)) \in Nat
    BY <2>1, UnderConstruction
  <2>4. Read \in Seq(Events) /\ Len(Read) = Len(rows) /\ DOMAIN Read = 1 .. Len(rows)
        /\ Len(rows) \in Nat
    BY RowsRead
  <2>5. f \in Cuts(Read) /\ CutsBefore(Read, f) \in Nat /\ CutsBefore(Read, b) \in Nat
    BY <1>3, <2>4, CutsBeforeAreFinite DEF IsEvent
  <2>6. CutsBefore(Read, f) = CutsBefore(Read, b)
    BY <1>3, <2>1, <2>2, <2>3, <2>5
  <2>7. f = b
    BY <2>2, <2>4, <2>5, <2>6, LastCutIsLast
  <2>8. Cuts(Read) \subseteq 1 .. Len(rows)
    BY <2>4, CutsAreFinite
  <2>9. l = Len(rows)
    <3>1. l \in 1 .. Len(rows) /\ b <= l /\ (l = Len(rows) \/ l + 1 \in Cuts(Read))
      BY <1>3, <2>4, <2>7 DEF IsEvent
    <3>2. \A i \in b + 1 .. Len(rows) : i \notin Cuts(Read)
      BY <2>2, <2>4 DEF IsLastCut
    <3>3. ASSUME l + 1 \in Cuts(Read) PROVE FALSE
      <4>0. l + 1 \in 1 .. Len(rows)
        BY <2>8, <3>3
      <4>1. l + 1 \in b + 1 .. Len(rows)
        <5>1. b \in Int /\ l \in Int /\ Len(rows) \in Int
          BY <2>4
        <5> QED
          BY <3>1, <4>0, <5>1
      <4> QED
        BY <3>2, <3>3, <4>1
    <3> QED
      BY <3>1, <3>3
  <2> QED
    BY <2>1, <2>2, <2>7, <2>9
<1> QED
  BY <1>1, <1>5, <1>6

(* The row that continues an event becomes part of it.                       *)
LEMMA MoreOfEvent ==
  ASSUME ReaderType, ReadingInv, content = "orderbook", NEW row \in Rows[venue], ContinueEvent(row),
         NEW b \in 1 .. Len(rows), IsLastCut(Read, b), IsWhat(builder, b, Len(rows)),
         Read[Len(rows)] = builder.event
  PROVE  Assembles(b)' /\ Cuts(Read') = Cuts(Read)
<1> DEFINE x == EventOf(row)
           k == Len(rows)
<1>1. /\ Read' = Append(Read, x) /\ x \in Events
      /\ Read \in Seq(Events) /\ Len(Read) = k /\ k \in Nat
      /\ DOMAIN Read = 1 .. k /\ DOMAIN rows = 1 .. k
  BY RowsRead, RowsReadGrow DEF ContinueEvent, Reads
<1>2. /\ rows' = Append(rows, row) /\ rows \in Seq(Rows[venue]) /\ venue' = venue
      /\ x = builder.event /\ builder \in Builders /\ builder # Nothing
      /\ Converts(row) /\ IsReset(row) = builder.reset
      /\ row.level \notin ToSet(builder.levels) /\ row.level \in Levels
  <2>1. builder \in Builders /\ builder # Nothing /\ x = builder.event
    BY DEF ContinueEvent, Continues, ReaderType
  <2>2. IsReset(row) = builder.reset
    BY DEF ContinueEvent, Mixes
  <2> QED
    BY <2>1, <2>2, RowsHaveEvents DEF ContinueEvent, Reads, Fits, ReaderType
<1>3. Len(Read') = k + 1 /\ Read'[k + 1] = x /\ Read'[b] = Read[b] /\ Len(rows') = k + 1
      /\ rows'[k + 1] = row /\ \A i \in 1 .. k : rows'[i] = rows[i]
  <2>1. Len(rows') = k + 1 /\ rows'[k + 1] = row /\ \A i \in 1 .. k : rows'[i] = rows[i]
    BY <1>1, <1>2
  <2> HIDE DEF x
  <2>2. Len(Read') = k + 1 /\ Read'[k + 1] = x /\ Read'[b] = Read[b]
    BY <1>1
  <2> QED
    BY <2>1, <2>2
<1>4. Cuts(Read') = Cuts(Read)
  <2>1. ~(Read = <<>> \/ x # Read[Len(Read)])
    BY <1>1, <1>2
  <2> HIDE DEF x
  <2>2. Cuts(Append(Read, x))
          = Cuts(Read) \cup (IF Read = <<>> \/ x # Read[Len(Read)] THEN {Len(Read) + 1} ELSE {})
    BY <1>1, CutsOfMore
  <2> QED
    BY <1>1, <2>1, <2>2
<1>5. IsLastCut(Read', b)
  <2>1. Cuts(Read) \subseteq 1 .. k
    BY <1>1, CutsAreFinite
  <2>2. \A i \in b + 1 .. k + 1 : i \notin Cuts(Read)
    BY <1>1, <2>1 DEF IsLastCut
  <2> QED
    BY <1>3, <1>4, <2>2 DEF IsLastCut
<1> DEFINE levels == Append(builder.levels, row.level)
<1>6. builder' = [event |-> builder.event, reset |-> builder.reset, levels |-> levels]
  BY <1>2, BuildersGrow DEF ContinueEvent
<1>7. /\ builder.levels = [i \in 1 .. k - b + 1 |-> rows[b + i - 1].level]
      /\ builder.levels \in Seq(Levels) /\ Len(builder.levels) = k - b + 1
      /\ IsInjective(builder.levels)
  <2>1. builder.levels = [i \in 1 .. k - b + 1 |-> rows[b + i - 1].level]
        /\ IsInjective(builder.levels)
    BY DEF IsWhat
  <2>2. builder.levels \in Seq(Levels)
    BY <1>2 DEF Builders
  <2>3. DOMAIN builder.levels = 1 .. k - b + 1
    BY <2>1
  <2>4. k - b + 1 \in Nat
    BY <1>1
  <2>5. Len(builder.levels) = k - b + 1
    BY <2>2, <2>3, <2>4, LenProperties
  <2> QED
    BY <2>1, <2>2, <2>5
<1>8. levels = [i \in 1 .. (k + 1) - b + 1 |-> rows'[b + i - 1].level]
  <2>1. levels \in [1 .. (k + 1) - b + 1 -> Levels]
    <3>1. levels \in Seq(Levels) /\ Len(levels) = (k - b + 1) + 1
      BY <1>2, <1>7, AppendProperties
    <3>2. (k - b + 1) + 1 = (k + 1) - b + 1
      BY <1>1
    <3> HIDE DEF levels
    <3> QED
      BY <3>1, <3>2, LenProperties
  <2>2. ASSUME NEW i \in 1 .. (k + 1) - b + 1 PROVE levels[i] = rows'[b + i - 1].level
    <3>1. CASE i = (k + 1) - b + 1
      <4>1. b + i - 1 = k + 1 /\ i = Len(builder.levels) + 1
        BY <1>1, <1>7, <3>1
      <4> QED
        BY <1>2, <1>3, <1>7, <4>1
    <3>2. CASE i # (k + 1) - b + 1
      <4>1. b + i - 1 \in 1 .. k /\ i \in 1 .. k - b + 1
        BY <1>1, <2>2, <3>2
      <4>2. builder.levels[i] = rows[b + i - 1].level
        BY <1>7, <4>1
      <4>3. levels[i] = builder.levels[i]
        BY <1>2, <1>7, <4>1
      <4> QED
        BY <1>3, <4>1, <4>2, <4>3
    <3> QED
      BY <3>1, <3>2
  <2> HIDE DEF levels
  <2> QED
    BY <2>1, <2>2
<1>9. IsInjective(levels)
  <2>1. \A i \in 1 .. Len(builder.levels) : builder.levels[i] # row.level
    BY <1>2, <1>7 DEF ToSet
  <2>2. /\ DOMAIN levels = 1 .. Len(builder.levels) + 1
        /\ levels[Len(builder.levels) + 1] = row.level
        /\ \A i \in 1 .. Len(builder.levels) : levels[i] = builder.levels[i]
        /\ DOMAIN builder.levels = 1 .. Len(builder.levels)
    BY <1>2, <1>7
  <2>3. \A i, j \in 1 .. Len(builder.levels) :
          builder.levels[i] = builder.levels[j] => i = j
    BY <1>7, <2>2 DEF IsInjective
  <2> HIDE DEF levels
  <2> QED
    BY <2>1, <2>2, <2>3 DEF IsInjective
<1>10. IsValid(builder.event) /\ builder.event = Read[b]
       /\ \A i \in b .. k : Converts(rows[i]) /\ IsReset(rows[i]) = builder.reset
  BY DEF IsWhat
<1>11. ASSUME NEW e, IsValid(e) PROVE IsValid(e)'
  BY <1>2, <1>11 DEF IsValid, ValidSnapshot, ValidUpdate, TransactionTimeOwned, SnapshotFrontier,
         PredecessorFrontier, ResultingFrontier
<1>12. ASSUME NEW i \in b .. k + 1
       PROVE  Converts(rows[i])' /\ IsReset(rows[i])' = builder.reset
  <2>1. Converts(rows'[i]) /\ IsReset(rows'[i]) = builder.reset
    <3>1. CASE i = k + 1
      BY <1>2, <1>3, <3>1
    <3>2. CASE i # k + 1
      <4>1. i \in b .. k /\ i \in 1 .. k
        BY <1>1, <1>12, <3>2
      <4> QED
        BY <1>3, <1>10, <4>1
    <3> QED
      BY <3>1, <3>2
  <2> QED
    BY <1>2, <2>1 DEF Converts, IsReset, LastId, EventOf, TransactionTime, TransactionTimeOwned,
       SequenceId
<1>13. ASSUME NEW d \in Builders, NEW n \in Nat, d = builder', n = Len(rows')
       PROVE  IsWhat(d, b, n)' /\ Read'[n] = d.event
  <2>1. d = [event |-> builder.event, reset |-> builder.reset, levels |-> levels] /\ n = k + 1
    BY <1>3, <1>6, <1>13
  <2>2. IsValid(d.event)'
    BY <1>10, <1>11, <2>1
  <2> HIDE DEF levels
  <2>3. d.event = builder.event /\ d.levels = levels /\ d.reset = builder.reset
    BY <2>1
  <2> QED
    BY <1>2, <1>3, <1>8, <1>9, <1>10, <1>12, <2>1, <2>2, <2>3 DEF IsWhat
<1> QED
  BY <1>4, <1>5, <1>13 DEF Assembles

(* The row that begins an event is its first.                                *)
LEMMA FirstOfEvent ==
  ASSUME ReaderType, content = "orderbook", NEW row \in Rows[venue],
         venue' = venue, rows' = Append(rows, row),
         Converts(row), IsValid(EventOf(row)), Read = <<>> \/ EventOf(row) # Read[Len(Read)],
         builder' = [event |-> EventOf(row), reset |-> IsReset(row), levels |-> <<row.level>>],
         NEW k \in Nat, k = Len(rows)
  PROVE  Assembles(k + 1)'
<1> DEFINE x == EventOf(row)
<1>1. /\ Read' = Append(Read, x) /\ x \in Events
      /\ Read \in Seq(Events) /\ Len(Read) = k /\ k \in Nat
  BY RowsRead, RowsReadGrow
<1>2. Len(rows') = k + 1 /\ rows'[k + 1] = row
  BY <1>1 DEF ReaderType
<1>3. Len(Read') = k + 1 /\ Read'[k + 1] = x
  <2> HIDE DEF x
  <2> QED
    BY <1>1
<1>4. k + 1 \in Cuts(Read')
  <2>1. Cuts(Append(Read, x))
          = Cuts(Read) \cup (IF Read = <<>> \/ x # Read[Len(Read)] THEN {Len(Read) + 1} ELSE {})
    <3> HIDE DEF x
    <3> QED
      BY <1>1, CutsOfMore
  <2> QED
    BY <1>1, <2>1
<1>5. IsLastCut(Read', k + 1)
  BY <1>1, <1>3, <1>4 DEF IsLastCut
<1>6. ASSUME NEW e, IsValid(e) PROVE IsValid(e)'
  BY <1>6 DEF IsValid, ValidSnapshot, ValidUpdate, TransactionTimeOwned, SnapshotFrontier,
     PredecessorFrontier, ResultingFrontier
<1>7. Converts(rows[k + 1])' /\ IsReset(rows[k + 1])' = IsReset(row)
  BY <1>2 DEF Converts, IsReset, LastId, EventOf, TransactionTime, TransactionTimeOwned,
     SequenceId
<1>8. <<row.level>> = [i \in 1 .. (k + 1) - (k + 1) + 1 |-> rows'[(k + 1) + i - 1].level]
  <2>1. (k + 1) - (k + 1) + 1 = 1 /\ \A i \in 1 .. 1 : (k + 1) + i - 1 = k + 1
    BY <1>1
  <2>2. <<row.level>> = [i \in 1 .. 1 |-> row.level]
    OBVIOUS
  <2> QED
    BY <1>2, <2>1, <2>2
<1>9. IsInjective(<<row.level>>)
  BY DEF IsInjective
<1>10. ASSUME NEW d \in Builders, NEW n \in Nat, d = builder', n = Len(rows')
       PROVE  IsWhat(d, k + 1, n)' /\ Read'[n] = d.event
  <2>1. d.event = x /\ d.reset = IsReset(row) /\ d.levels = <<row.level>> /\ n = k + 1
    BY <1>2, <1>10
  <2>2. IsValid(d.event)'
    BY <1>6, <2>1
  <2>3. \A i \in k + 1 .. k + 1 : i = k + 1
    BY <1>1
  <2>5. ASSUME NEW i \in k + 1 .. n PROVE Converts(rows[i])' /\ IsReset(rows[i])' = d.reset
    <3>1. i = k + 1
      BY <2>1, <2>3
    <3> QED
      BY <1>7, <2>1, <3>1
  <2> QED
    BY <1>3, <1>8, <1>9, <2>1, <2>2, <2>5 DEF IsWhat
<1> QED
  BY <1>5, <1>10 DEF Assembles

(* How many events the rows are when there is one row more.                  *)
LEMMA CountOfMore ==
  ASSUME ReaderType, ReadingInv, content = "orderbook", outcome = "reading",
         NEW row \in Rows[venue], venue' = venue, rows' = Append(rows, row)
  PROVE  /\ Cardinality(Cuts(Read)) \in Nat /\ Len(rows') = Len(rows) + 1
         /\ Cardinality(Cuts(Read')) =
              Cardinality(Cuts(Read)) + (IF builder # Nothing /\ Continues(row) THEN 0 ELSE 1)
         /\ CutsBefore(Read', Len(rows')) = Cardinality(Cuts(Read))
         /\ builder = Nothing =>
              Cardinality(Cuts(Read)) = 0 /\ delivered = <<>> /\ rows = <<>> /\ Read = <<>>
         /\ builder # Nothing => Len(delivered) = Cardinality(Cuts(Read)) - 1
         /\ builder # Nothing => (EventOf(row) # Read[Len(Read)] <=> ~Continues(row))
<1> DEFINE x == EventOf(row)
<1>1. /\ Read' = Append(Read, x) /\ x \in Events
      /\ Read \in Seq(Events) /\ Len(Read) = Len(rows) /\ Len(rows) \in Nat
      /\ (Read = <<>> <=> rows = <<>>)
  BY RowsRead, RowsReadGrow
<1>2. Len(rows') = Len(rows) + 1
  BY DEF ReaderType
<1>3. Cardinality(Cuts(Read)) \in Nat
  BY <1>1, CutsAreFinite
<1>4. /\ Cardinality(Cuts(Append(Read, x)))
            = Cardinality(Cuts(Read)) + (IF Read = <<>> \/ x # Read[Len(Read)] THEN 1 ELSE 0)
      /\ CutsBefore(Append(Read, x), Len(Read) + 1) = CutsBefore(Read, Len(Read) + 1)
      /\ CutsBefore(Read, Len(Read) + 1) = Cardinality(Cuts(Read))
  <2> HIDE DEF x
  <2>1. Len(Read) + 1 \in 1 .. Len(Read) + 1
    BY <1>1
  <2> QED
    BY <1>1, <2>1, CutsOfMore
<1>5. CutsBefore(Read', Len(rows')) = Cardinality(Cuts(Read))
  BY <1>1, <1>2, <1>4
<1>6. ASSUME builder = Nothing
      PROVE  Cardinality(Cuts(Read)) = 0 /\ delivered = <<>> /\ rows = <<>> /\ Read = <<>>
  BY <1>1, <1>3, <1>6 DEF ReadingInv, DeliversEnough
<1>7. ASSUME builder # Nothing
      PROVE  /\ Len(delivered) = Cardinality(Cuts(Read)) - 1
             /\ Read # <<>> /\ Read[Len(Read)] = builder.event
  BY <1>1, <1>7, UnderConstruction
<1>8. builder # Nothing => (x # Read[Len(Read)] <=> ~Continues(row))
  BY <1>7 DEF Continues
<1>9. Cardinality(Cuts(Read')) =
        Cardinality(Cuts(Read)) + (IF builder # Nothing /\ Continues(row) THEN 0 ELSE 1)
  <2> HIDE DEF x
  <2> QED
    BY <1>1, <1>4, <1>6, <1>7, <1>8
<1> QED
  BY <1>2, <1>3, <1>5, <1>6, <1>7, <1>8, <1>9

(* Deliveries in a reading that goes on.                                     *)
LEMMA ReadingStep ==
  ASSUME ReaderType, ReadingInv, [ReaderNext]_readerVars
  PROVE  ReadingInv'
<1>0. CASE content # "orderbook"
  <2>1. content' = content
    BY DEF ReaderNext, Refuse, ContinueEvent, BeginEvent, ReadTrade, EndOfFile, Cancel, Reads,
       readerVars
  <2> QED
    BY <1>0, <2>1 DEF ReadingInv
<1> SUFFICES ASSUME content = "orderbook" PROVE ReadingInv'
  BY <1>0
<1>t. ReaderType'
  BY ReaderTypeStep
<1>b. delivered \in Seq(Builders) /\ Len(delivered) \in Nat
  BY DEF ReaderType
<1>1. ASSUME NEW row \in Rows[venue], Refuse(row) PROVE ReadingInv'
  <2>1. /\ outcome = "reading" /\ rows' = Append(rows, row) /\ venue' = venue /\ outcome' = "failed"
        /\ builder' = builder /\ delivered' = delivered
    BY <1>1 DEF Refuse, Reads
  <2>2. DeliversExactly'
    BY <2>1, DeliveryOfMore
  <2>3. DeliversEnough'
    <3>1. CASE builder = Nothing
      <4>1. Cardinality(Cuts(Read')) = 1 /\ Len(delivered') = 0
        BY <2>1, <3>1, CountOfMore
      <4> QED
        BY <2>1, <3>1, <4>1 DEF DeliversEnough
    <3>2. CASE builder # Nothing
      <4>1. Len(delivered') = CutsBefore(Read', Len(rows')) - 1
        BY <2>1, <3>2, CountOfMore
      <4> QED
        BY <2>1, <3>2, <4>1 DEF DeliversEnough
    <3> QED
      BY <3>1, <3>2
  <2> QED
    BY <2>1, <2>2, <2>3 DEF ReadingInv
<1>2. ASSUME NEW row \in Rows[venue], ContinueEvent(row) PROVE ReadingInv'
  <2>1. /\ outcome = "reading" /\ rows' = Append(rows, row) /\ venue' = venue /\ outcome' = "reading"
        /\ delivered' = delivered /\ Continues(row) /\ builder # Nothing
    BY <1>2 DEF ContinueEvent, Reads, Continues
  <2>2. DeliversExactly'
    BY <2>1, DeliveryOfMore
  <2>3. PICK b \in 1 .. Len(rows) :
              /\ IsLastCut(Read, b)
              /\ IsWhat(builder, b, Len(rows)) /\ Read[Len(rows)] = builder.event
    BY <2>1, UnderConstruction
  <2>4. Assembles(b)'
    BY <1>2, <2>3, MoreOfEvent
  <2>5. builder' # Nothing
    <3>1. builder \in Builders /\ row.level \in Levels
      BY <2>1, RowsHaveEvents DEF ReaderType
    <3>2. builder' \in Builders
      BY <1>2, <3>1, BuildersGrow DEF ContinueEvent
    <3> QED
      BY <3>2, ReaderAssumption
  <2>6. DeliversEnough'
    <3>1. Len(delivered') = Cardinality(Cuts(Read')) - 1
      BY <2>1, CountOfMore
    <3> QED
      BY <2>1, <2>5, <3>1 DEF DeliversEnough
  <2>7. b \in Nat
    OBVIOUS
  <2> QED
    BY <2>1, <2>2, <2>4, <2>5, <2>6, <2>7 DEF ReadingInv
<1>3. ASSUME NEW row \in Rows[venue], NEW raises \in BOOLEAN, BeginEvent(row, raises)
      PROVE  ReadingInv'
  <2>1. /\ outcome = "reading" /\ rows' = Append(rows, row) /\ venue' = venue
        /\ ~Continues(row) /\ Converts(row) /\ IsValid(EventOf(row))
        /\ builder' = IF raises THEN Nothing
                      ELSE [event |-> EventOf(row), reset |-> IsReset(row), levels |-> <<row.level>>]
        /\ outcome' = IF raises THEN "failed" ELSE "reading"
    BY <1>3 DEF BeginEvent, Reads
  <2>2. \/ builder = Nothing /\ delivered' = delivered /\ ~raises
        \/ builder # Nothing /\ delivered' = Append(delivered, builder)
    BY <1>3 DEF BeginEvent, FinishEvent
  <2>3. DeliversExactly'
    BY <2>1, <2>2, DeliveryOfMore
  <2>4. /\ Cardinality(Cuts(Read')) = Cardinality(Cuts(Read)) + 1 /\ Cardinality(Cuts(Read)) \in Nat
        /\ Len(delivered') = Cardinality(Cuts(Read))
    <3>1. /\ Cardinality(Cuts(Read')) = Cardinality(Cuts(Read)) + 1
          /\ Cardinality(Cuts(Read)) \in Nat
      BY <2>1, CountOfMore
    <3>2. CASE builder = Nothing
      BY <2>1, <2>2, <3>2, CountOfMore
    <3>3. CASE builder # Nothing
      <4>1. Len(delivered) = Cardinality(Cuts(Read)) - 1 /\ builder \in Builders
        BY <3>3, <2>1, CountOfMore DEF ReaderType
      <4>2. Len(delivered') = Len(delivered) + 1
        BY <1>b, <2>2, <3>3, <4>1
      <4> QED
        BY <3>1, <4>1, <4>2
    <3> QED
      BY <3>1, <3>2, <3>3
  <2>5. CASE raises
    <3>1. DeliversEnough'
      BY <2>1, <2>4, <2>5 DEF DeliversEnough
    <3> QED
      BY <2>1, <2>3, <2>5, <3>1 DEF ReadingInv
  <2>6. CASE ~raises
    <3>1. builder' = [event |-> EventOf(row), reset |-> IsReset(row), levels |-> <<row.level>>]
      BY <2>1, <2>6
    <3>2. builder' # Nothing
      <4>1. [event |-> EventOf(row), reset |-> IsReset(row), levels |-> <<row.level>>] \in Builders
        BY RowsHaveEvents DEF Builders, ReaderType
      <4> QED
        BY <3>1, <4>1, ReaderAssumption
    <3>3. PICK k \in Nat : k = Len(rows)
      BY RowsRead
    <3>4. Read = <<>> \/ EventOf(row) # Read[Len(Read)]
      BY <2>1, CountOfMore
    <3>5. Assembles(k + 1)'
      BY <2>1, <3>1, <3>3, <3>4, FirstOfEvent
    <3>6. DeliversEnough'
      BY <2>1, <2>4, <2>6, <3>2 DEF DeliversEnough
    <3>7. \E b \in Nat : Assembles(b)'
      <4>1. k + 1 \in Nat
        BY <3>3
      <4> QED
        BY <3>5, <4>1
    <3> QED
      BY <2>1, <2>3, <2>6, <3>2, <3>6, <3>7 DEF ReadingInv
  <2> QED
    BY <2>5, <2>6
<1>5. ASSUME EndOfFile PROVE ReadingInv'
  <2>1. /\ outcome = "reading" /\ rows' = rows /\ venue' = venue /\ builder' = Nothing
        /\ outcome' \in {"done", "failed", "cancelled"}
    BY <1>5 DEF EndOfFile
  <2>2. \/ builder = Nothing /\ delivered' = delivered
        \/ builder # Nothing /\ delivered' = Append(delivered, builder)
    BY <1>5 DEF EndOfFile, FinishEvent
  <2>3. Read' = Read /\ DeliversExactly'
    BY <2>1, <2>2, DeliveryOfSame
  <2>4. Cardinality(Cuts(Read)) \in Nat /\ Len(delivered') = Cardinality(Cuts(Read))
    <3>1. CASE builder = Nothing
      <4>1. Cardinality(Cuts(Read)) \in Nat
        BY RowsRead, CutsAreFinite
      <4>2. Len(delivered) = Cardinality(Cuts(Read)) - 0
        BY <2>1, <3>1 DEF ReadingInv, DeliversEnough
      <4> QED
        BY <2>2, <3>1, <4>1, <4>2
    <3>2. CASE builder # Nothing
      <4>1. Len(delivered) = Cardinality(Cuts(Read)) - 1 /\ builder \in Builders
            /\ Cardinality(Cuts(Read)) \in Nat
        BY <3>2, <2>1, UnderConstruction
      <4> QED
        BY <1>b, <2>2, <3>2, <4>1
    <3> QED
      BY <3>1, <3>2
  <2>5. DeliversEnough'
    BY <2>1, <2>3, <2>4 DEF DeliversEnough
  <2> QED
    BY <2>1, <2>3, <2>5 DEF ReadingInv
<1>6. ASSUME Cancel PROVE ReadingInv'
  <2>1. /\ outcome = "reading" /\ rows' = rows /\ venue' = venue /\ builder' = builder
        /\ outcome' = "cancelled" /\ delivered' = delivered
    BY <1>6 DEF Cancel
  <2>2. Read' = Read /\ DeliversExactly'
    BY <2>1, DeliveryOfSame
  <2>3. DeliversEnough'
    BY <2>1, <2>2 DEF ReadingInv, DeliversEnough
  <2> QED
    BY <2>1, <2>2, <2>3 DEF ReadingInv
<1>7. ASSUME UNCHANGED readerVars PROVE ReadingInv'
  <2>1. /\ rows' = rows /\ venue' = venue /\ builder' = builder /\ content' = content
        /\ outcome' = outcome /\ delivered' = delivered
    BY <1>7 DEF readerVars
  <2>2. Read' = Read /\ DeliversExactly'
    BY <2>1, DeliveryOfSame
  <2>3. DeliversEnough'
    BY <2>1, <2>2 DEF ReadingInv, DeliversEnough
  <2>4. ASSUME NEW b \in Nat, Assembles(b) PROVE Assembles(b)'
    <3>1. ASSUME NEW d, NEW n, IsWhat(d, b, n) PROVE IsWhat(d, b, n)'
      BY <2>1, <2>2, <3>1 DEF IsWhat, IsValid, ValidSnapshot, ValidUpdate, TransactionTimeOwned,
         SnapshotFrontier, PredecessorFrontier, ResultingFrontier, Converts, IsReset, LastId,
         EventOf, TransactionTime, SequenceId
    <3> QED
      BY <2>1, <2>2, <2>4, <3>1 DEF Assembles
  <2> QED
    BY <2>1, <2>2, <2>3, <2>4 DEF ReadingInv
<1>8. ASSUME NEW row \in TradeRows, ReadTrade(row) PROVE ReadingInv'
  BY <1>8 DEF ReadTrade
<1> QED
  BY <1>1, <1>2, <1>3, <1>5, <1>6, <1>7, <1>8 DEF ReaderNext

LEMMA ReadingInit ==
  ASSUME ReaderInit
  PROVE  ReaderType /\ ReadingInv
<1>1. ReaderType
  BY DEF ReaderInit, ReaderType, NoReport, Reports
<1>2. ASSUME content = "orderbook" PROVE DeliversExactly /\ DeliversEnough
  <2>1. Read \in Seq(Events) /\ Len(Read) = 0
    BY <1>1, <1>2, RowsRead DEF ReaderInit
  <2>2. Cuts(Read) = {}
    <3>1. Cuts(Read) \subseteq 1 .. Len(Read)
      BY <2>1, CutsAreFinite
    <3> QED
      BY <2>1, <3>1
  <2>3. Cardinality(Cuts(Read)) = 0
    BY <2>2, FS_EmptySet
  <2>4. delivered = <<>> /\ Len(delivered) = 0 /\ outcome = "reading" /\ builder = Nothing
    BY DEF ReaderInit
  <2> QED
    BY <2>3, <2>4 DEF DeliversExactly, DeliversEnough
<1> QED
  BY <1>1, <1>2 DEF ReadingInv, ReaderInit

(* What was delivered is what is due.                                        *)
LEMMA DeliveryIsExact ==
  ASSUME ReaderType, ReadingInv
  PROVE  EventsAreExact
<1>1. SUFFICES ASSUME content = "orderbook" PROVE EventsAreExact
  BY DEF EventsAreExact
<1>2. ASSUME NEW first \in DOMAIN rows, NEW last \in DOMAIN rows, IsEvent(Read, first, last),
             CutsBefore(Read, first) < Len(delivered)
      PROVE  IsWhat(delivered[CutsBefore(Read, first) + 1], first, last)
  <2>1. delivered \in Seq(Builders) /\ Read \in Seq(Events) /\ DOMAIN rows = 1 .. Len(rows)
        /\ Len(rows) \in Nat
    BY <1>1, RowsRead DEF ReaderType
  <2>2. CutsBefore(Read, first) \in Nat
    BY <2>1, CutsBeforeAreFinite
  <2>3. CutsBefore(Read, first) + 1 \in DOMAIN delivered
        /\ delivered[CutsBefore(Read, first) + 1] \in Builders
    BY <1>2, <2>1, <2>2
  <2>4. first \in Nat /\ last \in Nat /\ CutsBefore(Read, first) + 1 \in Nat
    BY <2>1, <2>2
  <2> QED
    BY <1>1, <1>2, <2>3, <2>4 DEF ReadingInv, DeliversExactly
<1> QED
  BY <1>1, <1>2 DEF ReadingInv, DeliversEnough, EventsAreExact

-----------------------------------------------------------------------------
(* The report of an order book.                                              *)

(* An update that was delivered goes on from its predecessor.                 *)
GoesOn(i) ==
  /\ delivered[i].event.final \in Int /\ Predecessors[i] \in Int
  /\ Predecessors[i] < delivered[i].event.final

ReportInv ==
  content = "orderbook" =>
    /\ ReportIsExact
    /\ report.ids <= report.mismatches
    /\ \A i \in DOMAIN delivered : delivered[i].event.type = "update" => GoesOn(i)

(* The contract of each venue makes an update go on.                         *)
LEMMA ValidUpdatesGoOn ==
  ASSUME venue \in Venues, NEW e \in Events, e.type = "update", IsValid(e)
  PROVE  /\ e.final \in Int /\ PredecessorFrontier(e) \in Int
         /\ PredecessorFrontier(e) < e.final
<1>1. /\ e.final \in Int \cup {NoId} /\ e.prev \in Int \cup {NoId} /\ e.last \in Int \cup {NoId}
      /\ NoId \notin Int
  BY ReaderAssumption DEF Events
<1>2. ValidUpdate(e)
  BY DEF IsValid
<1>3. /\ e.final \in Int
      /\ IF venue = "binance_futures" THEN e.prev \in Int ELSE e.last \in Int
      /\ e.final > PredecessorFrontier(e)
  BY <1>1, <1>2 DEF ValidUpdate, ResultingFrontier
<1>4. CASE venue = "binance_futures"
  <2>1. PredecessorFrontier(e) = e.prev
    BY <1>4 DEF PredecessorFrontier
  <2> QED
    BY <1>3, <1>4, <2>1
<1>5. CASE venue = "bybit"
  <2>1. PredecessorFrontier(e) = e.final - 1
    BY <1>5 DEF PredecessorFrontier
  <2> QED
    BY <1>3, <2>1
<1>6. CASE venue = "okx_futures"
  <2>1. PredecessorFrontier(e) = e.last
    BY <1>6 DEF PredecessorFrontier
  <2> QED
    BY <1>3, <1>6, <2>1
<1> QED
  BY <1>4, <1>5, <1>6 DEF Venues

(* What is compared with the event before it.                                *)
LEMMA ComparedWithLast ==
  ASSUME ReaderType, content = "orderbook", NEW e \in Events, NEW n \in Nat, n = Len(delivered)
  PROVE  /\ Compared(e) <=> e.type = "update" /\ n > 0 /\ delivered[n].event.type = "update"
         /\ Compared(e) => PreviousUpdate = delivered[n].event
         /\ n > 0 => delivered # <<>> /\ Last(delivered) = delivered[n] /\ n \in DOMAIN delivered
         /\ n = 0 => delivered = <<>>
         /\ DOMAIN delivered = 1 .. n
         /\ \A i \in 1 .. n : delivered[i] \in Builders /\ delivered[i].event \in Events
<1>1. /\ delivered \in Seq(Builders) /\ DOMAIN delivered = 1 .. n
      /\ \A i \in 1 .. n : delivered[i] \in Builders
      /\ n > 0 => delivered # <<>> /\ n \in DOMAIN delivered
      /\ n = 0 => delivered = <<>>
  BY DEF ReaderType
<1>2. n > 0 => Last(delivered) = delivered[n]
  BY DEF Last
<1>3. \A i \in 1 .. n : delivered[i].event \in Events
  BY <1>1 DEF Builders
<1>4. n > 0 => delivered[n].event # Nothing
  BY <1>1, <1>3, ReaderAssumption
<1>5. PreviousUpdate = IF n > 0 /\ delivered[n].event.type = "update"
                       THEN delivered[n].event ELSE Nothing
  BY <1>1, <1>2 DEF PreviousUpdate
<1> QED
  BY <1>1, <1>2, <1>3, <1>4, <1>5 DEF Compared

LEMMA BreaksAreFinite ==
  ASSUME ReaderType, content = "orderbook"
  PROVE  Breaks \subseteq 1 .. Len(delivered) /\ IsFiniteSet(Breaks) /\ Cardinality(Breaks) \in Nat
<1>1. Breaks \subseteq 1 .. Len(delivered) /\ Len(delivered) \in Nat
  BY DEF Breaks, ReaderType
<1>2. IsFiniteSet(1 .. Len(delivered))
  BY <1>1, FS_Interval
<1>3. IsFiniteSet(Breaks)
  BY <1>1, <1>2, FS_Subset
<1> QED
  BY <1>1, <1>3, FS_CardinalityType

(* The predecessors of the updates that are delivered.                        *)
LEMMA PredecessorsOfMore ==
  ASSUME ReaderType, content = "orderbook", venue' = venue, builder \in Builders,
         delivered' = Append(delivered, builder), NEW n \in Nat, n = Len(delivered)
  PROVE  /\ Predecessors'[n + 1] = PredecessorFrontier(builder.event)
         /\ \A i \in 1 .. n : Predecessors'[i] = Predecessors[i] /\ delivered'[i] = delivered[i]
         /\ delivered'[n + 1] = builder /\ DOMAIN delivered' = 1 .. n + 1
         /\ DOMAIN delivered = 1 .. n
<1>1. /\ delivered'[n + 1] = builder /\ DOMAIN delivered' = 1 .. n + 1
      /\ DOMAIN delivered = 1 .. n
      /\ \A i \in 1 .. n : delivered'[i] = delivered[i]
  BY DEF ReaderType
<1>0. n + 1 \in 1 .. n + 1 /\ 1 .. n \subseteq 1 .. n + 1
  OBVIOUS
<1>2. ASSUME NEW i \in 1 .. n PROVE Predecessors'[i] = Predecessors[i]
  <2>1. Predecessors[i] = PredecessorFrontier(delivered[i].event)
    BY <1>1, <1>2 DEF Predecessors
  <2>2. Predecessors'[i] = PredecessorFrontier(delivered[i].event)'
    BY <1>0, <1>1, <1>2 DEF Predecessors
  <2>3. PredecessorFrontier(delivered[i].event)' = PredecessorFrontier(delivered[i].event)
    BY <1>1, <1>2 DEF PredecessorFrontier
  <2> QED
    BY <2>1, <2>2, <2>3
<1>3. Predecessors'[n + 1] = PredecessorFrontier(builder.event)
  <2>2. Predecessors'[n + 1] = PredecessorFrontier(delivered[n + 1].event)'
    BY <1>0, <1>1 DEF Predecessors
  <2>3. PredecessorFrontier(delivered[n + 1].event)' = PredecessorFrontier(builder.event)
    BY <1>1 DEF PredecessorFrontier
  <2> QED
    BY <2>2, <2>3
<1> QED
  BY <1>1, <1>2, <1>3

(* One event more is counted, when it does not go on from the update right     *)
(* before it.                                                               *)
LEMMA ReportOfMore ==
  ASSUME ReaderType, ReadingInv, ReportInv, content = "orderbook", outcome = "reading",
         builder # Nothing, FinishEvent, venue' = venue, content' = content
  PROVE  ReportInv'
<1> DEFINE e == builder.event
<1>1. PICK n \in Nat : n = Len(delivered)
  BY DEF ReaderType
<1>2. builder \in Builders /\ e \in Events /\ IsValid(e)
  <2>1. builder \in Builders /\ IsValid(builder.event)
    BY UnderConstruction DEF IsWhat
  <2> QED
    BY <2>1 DEF Builders
<1>3. /\ delivered' = Append(delivered, builder)
      /\ report' = [Counted(IssuesOf(e)) EXCEPT !.checks = IF Compared(e) THEN @ + 1 ELSE @]
  BY DEF FinishEvent
<1>4. /\ Predecessors'[n + 1] = PredecessorFrontier(e)
      /\ \A i \in 1 .. n : Predecessors'[i] = Predecessors[i] /\ delivered'[i] = delivered[i]
      /\ delivered'[n + 1] = builder /\ DOMAIN delivered' = 1 .. n + 1
      /\ DOMAIN delivered = 1 .. n
  BY <1>1, <1>2, <1>3, PredecessorsOfMore
<1> HIDE DEF e
<1>5. /\ Compared(e) <=> e.type = "update" /\ n > 0 /\ delivered[n].event.type = "update"
      /\ Compared(e) => PreviousUpdate = delivered[n].event
      /\ n > 0 => delivered # <<>> /\ Last(delivered) = delivered[n]
      /\ n = 0 => delivered = <<>>
      /\ \A i \in 1 .. n : delivered[i] \in Builders /\ delivered[i].event \in Events
  BY <1>1, <1>2, ComparedWithLast
<1> DEFINE found == IssuesOf(e)
           late == n > 0 /\ e.received < delivered[n].event.received
           broken == /\ e.type = "update" /\ n > 0 /\ delivered[n].event.type = "update"
                     /\ PredecessorFrontier(e) # delivered[n].event.final
           now == Counted(found)
<1>6. found \in Findings
  BY FindingsAreFindings
<1>7. /\ found.received = late /\ found.mismatches = broken
      /\ found.ids = (/\ e.type = "update" /\ n > 0 /\ delivered[n].event.type = "update"
                      /\ e.final < delivered[n].event.final)
  <2>1. found.received = late
    BY <1>1, <1>5 DEF IssuesOf
  <2>2. found.mismatches = (Compared(e) /\ PredecessorFrontier(e) # ResultingFrontier(PreviousUpdate))
    BY DEF IssuesOf
  <2>3. found.ids = (Compared(e) /\ ResultingFrontier(e) < ResultingFrontier(PreviousUpdate))
    BY DEF IssuesOf
  <2>4. found.mismatches = broken
    <3> HIDE DEF found
    <3> QED
      BY <1>5, <2>2 DEF ResultingFrontier
  <2>5. found.ids = (/\ e.type = "update" /\ n > 0 /\ delivered[n].event.type = "update"
                     /\ e.final < delivered[n].event.final)
    <3> HIDE DEF found
    <3> QED
      BY <1>5, <2>3 DEF ResultingFrontier
  <2> QED
    BY <2>1, <2>4, <2>5
<1> HIDE DEF found, late, broken
<1>8. ASSUME e.type = "update"
      PROVE  e.final \in Int /\ PredecessorFrontier(e) \in Int /\ PredecessorFrontier(e) < e.final
  BY <1>2, <1>8, ValidUpdatesGoOn DEF ReaderType
<1>9. ASSUME NEW i \in 1 .. n, delivered[i].event.type = "update" PROVE GoesOn(i)
  BY <1>4, <1>9 DEF ReportInv
<1>10. found.ids => found.mismatches
  <2>1. ASSUME found.ids PROVE broken
    <3>1. e.type = "update" /\ n > 0 /\ delivered[n].event.type = "update"
          /\ e.final < delivered[n].event.final
      BY <1>7, <2>1
    <3>2. n \in 1 .. n
      BY <3>1
    <3>3. delivered[n].event.final \in Int
      BY <1>9, <3>1, <3>2 DEF GoesOn
    <3> QED
      BY <1>8, <3>1, <3>3 DEF broken
  <2> QED
    BY <1>7, <2>1
<1> DEFINE one(holds) == IF holds THEN 1 ELSE 0
           counted == report.received + report.times + report.mismatches + report.ids
           more == one(found.received) + one(found.times) + one(found.mismatches) + one(found.ids)
<1>11. /\ now \in Reports
       /\ now.received = report.received + one(found.received)
       /\ now.mismatches = report.mismatches + one(found.mismatches)
       /\ now.ids = report.ids + one(found.ids)
       /\ now.received + now.times + now.mismatches + now.ids = counted + more
       /\ Len(report.issues) = (IF counted < MaxIssues THEN counted ELSE MaxIssues) =>
            Len(now.issues) = (IF counted + more < MaxIssues THEN counted + more ELSE MaxIssues)
  BY <1>6, FindingsAreCounted DEF ReaderType
<1>12. /\ report.received \in Nat /\ report.times \in Nat /\ report.mismatches \in Nat
       /\ report.ids \in Nat
       /\ found.received \in BOOLEAN /\ found.mismatches \in BOOLEAN /\ found.ids \in BOOLEAN
  BY <1>6 DEF ReaderType, Reports, Findings
<1>13. /\ report'.received = now.received /\ report'.mismatches = now.mismatches
       /\ report'.ids = now.ids /\ report'.times = now.times /\ report'.issues = now.issues
  <2> HIDE DEF now
  <2>1. report' = [now EXCEPT !.checks = IF Compared(e) THEN @ + 1 ELSE @]
    BY <1>3 DEF now, found
  <2> QED
    BY <1>11, <2>1 DEF Reports
<1> HIDE DEF now
<1>14. Breaks' = Breaks \cup (IF broken THEN {n + 1} ELSE {})
  <2>1. ASSUME NEW i \in 1 .. n PROVE i \in Breaks' <=> i \in Breaks
    <3>1. i > 1 => i - 1 \in 1 .. n
      OBVIOUS
    <3> QED
      BY <1>4, <3>1 DEF Breaks
  <2>2. n + 1 \in Breaks' <=> broken
    <3>1. n + 1 \in 1 .. n + 1 /\ (n + 1) - 1 = n /\ (n > 0 => n \in 1 .. n) /\ (n + 1 > 1 <=> n > 0)
      OBVIOUS
    <3>2. n + 1 \in Breaks' <=>
            /\ n + 1 > 1 /\ delivered'[n].event.type = "update"
            /\ delivered'[n + 1].event.type = "update"
            /\ Predecessors'[n + 1] # delivered'[n].event.final
      BY <1>4, <3>1 DEF Breaks
    <3> QED
      BY <1>4, <3>1, <3>2 DEF broken, e
  <2>3. Breaks' \subseteq 1 .. n + 1 /\ Breaks \subseteq 1 .. n
    BY <1>4 DEF Breaks
  <2>4. \A i \in 1 .. n + 1 : i \in 1 .. n \/ i = n + 1
    OBVIOUS
  <2>5. CASE broken
    BY <2>1, <2>2, <2>3, <2>4, <2>5
  <2>6. CASE ~broken
    BY <2>1, <2>2, <2>3, <2>4, <2>6
  <2> QED
    BY <2>5, <2>6
<1>15. Cardinality(Breaks') = Cardinality(Breaks) + one(broken)
  <2>1. IsFiniteSet(Breaks) /\ Breaks \subseteq 1 .. n /\ Cardinality(Breaks) \in Nat
    BY <1>1, BreaksAreFinite
  <2>2. CASE broken
    <3>1. n + 1 \notin Breaks
      BY <2>1
    <3> QED
      BY <1>14, <2>1, <2>2, <3>1, FS_AddElement
  <2>3. CASE ~broken
    BY <1>14, <2>1, <2>3
  <2> QED
    BY <2>2, <2>3
<1>16. ReportIsExact /\ report.ids <= report.mismatches
  BY DEF ReportInv
<1>17. report'.mismatches = Cardinality(Breaks')
  BY <1>7, <1>11, <1>13, <1>15, <1>16 DEF ReportIsExact
<1>18. report'.ids <= report'.mismatches /\ report'.ids \in Nat /\ report'.mismatches \in Nat
  BY <1>10, <1>11, <1>12, <1>13, <1>16
<1>19. ASSUME NEW i \in 1 .. n + 1, delivered'[i].event.type = "update" PROVE GoesOn(i)'
  <2>1. CASE i = n + 1
    BY <1>4, <1>8, <1>19, <2>1 DEF GoesOn, e
  <2>2. CASE i # n + 1
    <3>1. i \in 1 .. n
      BY <2>2
    <3>2. GoesOn(i)
      BY <1>4, <1>9, <1>19, <3>1
    <3> QED
      BY <1>4, <3>1, <3>2 DEF GoesOn
  <2> QED
    BY <2>1, <2>2
<1>20. ASSUME report'.mismatches = 0, NEW i \in 1 .. n + 1, NEW j \in 1 .. n + 1, i < j,
              \A k \in i .. j : delivered'[k].event.type = "update"
       PROVE  delivered'[i].event.final <= Predecessors'[j]
  <2>1. report.mismatches = 0 /\ ~broken
    BY <1>7, <1>11, <1>12, <1>13, <1>20
  <2>2. i \in 1 .. n /\ delivered'[i] = delivered[i]
    BY <1>4, <1>20
  <2>3. CASE j # n + 1
    <3>1. j \in 1 .. n
      BY <2>3
    <3>2. \A k \in i .. j : k \in 1 .. n /\ delivered'[k] = delivered[k]
      BY <1>4, <2>2, <3>1
    <3>3. delivered[i].event.final <= Predecessors[j]
      BY <1>4, <1>16, <1>20, <2>1, <2>2, <3>1, <3>2 DEF ReportIsExact
    <3> QED
      BY <1>4, <2>2, <3>1, <3>3
  <2>4. CASE j = n + 1
    <3>1. n \in 1 .. n /\ n \in i .. j /\ n > 0 /\ j \in i .. j
      BY <1>20, <2>2, <2>4
    <3>2. delivered[n].event.type = "update" /\ e.type = "update"
      BY <1>4, <1>20, <2>4, <3>1 DEF e
    <3>3. Predecessors'[j] = delivered[n].event.final
      BY <1>4, <2>1, <2>4, <3>1, <3>2 DEF broken
    <3>4. GoesOn(n)
      BY <1>9, <3>1, <3>2
    <3>5. CASE i = n
      BY <2>2, <3>3, <3>4, <3>5 DEF GoesOn
    <3>6. CASE i # n
      <4>1. i < n
        BY <2>2, <3>6
      <4>2. \A k \in i .. n : k \in i .. j /\ k \in 1 .. n /\ delivered'[k] = delivered[k]
        BY <1>4, <2>2, <2>4
      <4>3. delivered[i].event.final <= Predecessors[n]
        BY <1>4, <1>16, <1>20, <2>1, <2>2, <3>1, <4>1, <4>2 DEF ReportIsExact
      <4>4. i \in i .. j
        BY <1>20
      <4>5. GoesOn(i)
        BY <1>9, <1>20, <2>2, <4>4
      <4> QED
        BY <2>2, <3>3, <3>4, <4>3, <4>5 DEF GoesOn
    <3> QED
      BY <3>5, <3>6
  <2> QED
    BY <2>3, <2>4
<1>21. \A i \in 1 .. n + 1 : delivered'[i].event.received \in Int
  <2>1. \A i \in 1 .. n : delivered[i].event.received \in Int
    BY <1>5 DEF Events
  <2>2. e.received \in Int
    BY <1>2 DEF Events
  <2> QED
    BY <1>4, <2>1, <2>2 DEF e
<1>22. ASSUME report'.received = 0, NEW i \in 1 .. n + 1, NEW j \in 1 .. n + 1, i < j
       PROVE  delivered'[i].event.received <= delivered'[j].event.received
  <2>1. report.received = 0 /\ ~late
    BY <1>7, <1>11, <1>12, <1>13, <1>22
  <2>2. i \in 1 .. n
    BY <1>22
  <2>3. CASE j # n + 1
    <3>1. j \in 1 .. n
      BY <2>3
    <3> QED
      BY <1>4, <1>16, <1>22, <2>1, <2>2, <3>1 DEF ReportIsExact
  <2>4. CASE j = n + 1
    <3>1. n \in 1 .. n /\ n > 0
      BY <2>2
    <3>2. delivered[n].event.received <= e.received
      <4>1. ~(e.received < delivered[n].event.received)
        BY <2>1, <3>1 DEF late
      <4>2. e.received \in Int /\ delivered[n].event.received \in Int
        BY <1>2, <1>5, <3>1 DEF Events
      <4> QED
        BY <4>1, <4>2
    <3>3. CASE i = n
      BY <1>4, <2>4, <3>1, <3>2, <3>3 DEF e
    <3>4. CASE i # n
      <4>1. i < n
        BY <2>2, <3>4
      <4>2. delivered[i].event.received <= delivered[n].event.received
        BY <1>4, <1>16, <2>1, <2>2, <3>1, <4>1 DEF ReportIsExact
      <4>3. /\ delivered'[i] = delivered[i] /\ delivered'[n] = delivered[n] /\ delivered'[j] = builder
            /\ n \in 1 .. n + 1
        BY <1>4, <2>2, <2>4, <3>1
      <4> QED
        BY <1>21, <3>2, <4>2, <4>3 DEF e
    <3> QED
      BY <3>3, <3>4
  <2> QED
    BY <2>3, <2>4
<1>23. LET sum == report'.received + report'.times + report'.mismatches + report'.ids
       IN Len(report'.issues) = IF sum < MaxIssues THEN sum ELSE MaxIssues
  <2>1. Len(report.issues) = IF counted < MaxIssues THEN counted ELSE MaxIssues
    BY <1>16 DEF ReportIsExact
  <2>2. report'.received + report'.times + report'.mismatches + report'.ids = counted + more
    BY <1>11, <1>13
  <2> HIDE DEF counted, more
  <2> QED
    BY <1>11, <1>13, <2>1, <2>2
<1>24. ReportIsExact'
  <2>1. report'.mismatches = 0 => report'.ids = 0
    BY <1>18
  <2> QED
    BY <1>4, <1>17, <1>20, <1>22, <1>23, <2>1 DEF ReportIsExact
<1> QED
  BY <1>4, <1>18, <1>19, <1>24 DEF ReportInv

LEMMA ReportStep ==
  ASSUME ReaderType, ReadingInv, ReportInv, [ReaderNext]_readerVars
  PROVE  ReportInv'
<1>0. content' = content /\ venue' = venue
  BY DEF ReaderNext, Refuse, ContinueEvent, BeginEvent, ReadTrade, EndOfFile, Cancel, Reads,
     readerVars
<1> SUFFICES ASSUME content = "orderbook" PROVE ReportInv'
  BY <1>0 DEF ReportInv
<1>1. ASSUME delivered' = delivered, report' = report PROVE ReportInv'
  <2>1. Predecessors' = Predecessors
    BY <1>0, <1>1 DEF Predecessors, PredecessorFrontier
  <2>2. Breaks' = Breaks
    BY <1>1, <2>1 DEF Breaks
  <2>3. \A i \in DOMAIN delivered : GoesOn(i)' <=> GoesOn(i)
    BY <1>1, <2>1 DEF GoesOn
  <2> QED
    BY <1>0, <1>1, <2>1, <2>2, <2>3 DEF ReportInv, ReportIsExact
<1>2. ASSUME FinishEvent, outcome = "reading" PROVE ReportInv'
  <2>1. CASE builder = Nothing
    BY <1>1, <1>2, <2>1 DEF FinishEvent
  <2>2. CASE builder # Nothing
    BY <1>0, <1>2, <2>2, ReportOfMore
  <2> QED
    BY <2>1, <2>2
<1>3. \/ delivered' = delivered /\ report' = report
      \/ FinishEvent /\ outcome = "reading"
  BY DEF ReaderNext, Refuse, ContinueEvent, BeginEvent, ReadTrade, EndOfFile, Cancel, Reads,
     readerVars
<1> QED
  BY <1>1, <1>2, <1>3

LEMMA ReportInit ==
  ASSUME ReaderInit
  PROVE  ReportInv
<1>1. delivered = <<>> /\ DOMAIN delivered = {} /\ report = NoReport
  BY DEF ReaderInit
<1>2. Breaks = {}
  BY <1>1 DEF Breaks
<1>3. Cardinality(Breaks) = 0
  BY <1>2, FS_EmptySet
<1>4. /\ report.mismatches = 0 /\ report.ids = 0 /\ report.received = 0 /\ report.times = 0
      /\ report.issues = <<>>
  BY <1>1 DEF NoReport
<1>5. Len(report.issues) = 0
  BY <1>4
<1> QED
  BY <1>1, <1>3, <1>4, <1>5, ReaderAssumption DEF ReportInv, ReportIsExact

-----------------------------------------------------------------------------
(* The trades that are delivered.                                            *)

(* A row more is delivered when it is a trade, and counted when it marks none. *)
LEMMA TradesStep ==
  ASSUME ReaderType, TradesAreExact, [ReaderNext]_readerVars
  PROVE  TradesAreExact'
<1>0. content' = content
  BY DEF ReaderNext, Refuse, ContinueEvent, BeginEvent, ReadTrade, EndOfFile, Cancel, Reads,
     readerVars
<1> SUFFICES ASSUME content = "trades" PROVE TradesAreExact'
  BY <1>0 DEF TradesAreExact
<1>1. ASSUME rows' = rows, delivered' = delivered, report' = report,
             outcome = "reading" \/ outcome' = outcome
      PROVE  TradesAreExact'
  <2>1. Trades' = Trades
    BY <1>1 DEF Trades
  <2> QED
    BY <1>0, <1>1, <2>1 DEF TradesAreExact
<1>2. ASSUME NEW row \in TradeRows, ReadTrade(row) PROVE TradesAreExact'
  <2>1. PICK n \in Nat : n = Len(rows)
    BY DEF ReaderType
  <2>2. PICK m \in Nat : m = Len(delivered)
    BY DEF ReaderType
  <2>3. /\ Len(rows') = n + 1 /\ DOMAIN rows' = 1 .. n + 1 /\ DOMAIN rows = 1 .. n
        /\ rows'[n + 1] = row /\ \A i \in 1 .. n : rows'[i] = rows[i]
    BY <1>2, <2>1 DEF ReadTrade, Reads, ReaderType
  <2>4. /\ outcome = "reading" /\ m = Cardinality(Trades)
        /\ \A i \in Trades : delivered[Cardinality({j \in Trades : j <= i})] = rows[i]
        /\ \A i \in DOMAIN rows : rows[i].cells
        /\ n = m + report.skipped
    BY <1>2, <2>1, <2>2 DEF ReadTrade, Reads, TradesAreExact
  <2>5. Trades \subseteq 1 .. n /\ IsFiniteSet(Trades) /\ n + 1 \notin Trades
    <3>1. Trades \subseteq 1 .. n
      BY <2>3 DEF Trades
    <3>2. IsFiniteSet(1 .. n)
      BY FS_Interval
    <3>3. n + 1 \notin Trades
      BY <3>1
    <3> QED
      BY <3>1, <3>2, <3>3, FS_Subset
  <2> DEFINE trade == row.cells /\ row.price > 0 /\ row.quantity > 0
  <2>6. Trades' = Trades \cup (IF trade THEN {n + 1} ELSE {})
    <3>1. \A i \in 1 .. n : i \in Trades' <=> i \in Trades
      BY <2>3 DEF Trades
    <3>2. n + 1 \in Trades' <=> trade
      BY <2>3 DEF Trades
    <3>3. Trades' \subseteq 1 .. n + 1
      BY <2>3 DEF Trades
    <3>4. \A i \in 1 .. n + 1 : i \in 1 .. n \/ i = n + 1
      OBVIOUS
    <3> HIDE DEF trade
    <3>5. CASE trade
      BY <2>5, <3>1, <3>2, <3>3, <3>4, <3>5
    <3>6. CASE ~trade
      BY <2>5, <3>1, <3>2, <3>3, <3>4, <3>6
    <3> QED
      BY <3>5, <3>6
  <2>7. row.price \in Nat /\ row.quantity \in Nat /\ row.cells \in BOOLEAN
    BY ReaderAssumption
  <2>11. Len(rows') = m + report.skipped + 1
    <3>1. report.skipped \in Nat
      BY DEF ReaderType, Reports
    <3> QED
      BY <2>3, <2>4, <3>1
  <2>8. report.skipped \in Nat /\ delivered \in Seq(TradeRows)
    BY DEF ReaderType, Reports
  <2>9. CASE ~trade
    <3>1. Trades' = Trades
      BY <2>6, <2>9
    <3>2. ~(SoundTrade(row) /\ row.price # 0)
      BY <2>7, <2>9 DEF SoundTrade
    <3>3. delivered' = delivered
      BY <1>2, <3>2 DEF ReadTrade
    <3>4. outcome' # "failed" => row.cells /\ report'.skipped = report.skipped + 1
      <4>1. ASSUME outcome' # "failed" PROVE SoundTrade(row) /\ row.price = 0
        BY <1>2, <3>2, <4>1 DEF ReadTrade
      <4>2. ASSUME SoundTrade(row), row.price = 0 PROVE report'.skipped = report.skipped + 1
        BY <1>2, <4>2 DEF ReadTrade, ReaderType, Reports
      <4> QED
        BY <4>1, <4>2 DEF SoundTrade
    <3>5. \A i \in Trades : rows'[i] = rows[i]
      BY <2>3, <2>5
    <3>6. outcome' # "failed" =>
            /\ \A i \in DOMAIN rows' : rows'[i].cells
            /\ Len(rows') = Len(delivered') + report'.skipped
      <4>1. \A i \in 1 .. n + 1 : i \in 1 .. n \/ i = n + 1
        OBVIOUS
      <4>2. outcome' # "failed" => \A i \in DOMAIN rows' : rows'[i].cells
        BY <2>3, <2>4, <3>4, <4>1
      <4>3. outcome' # "failed" => Len(rows') = Len(delivered') + report'.skipped
        BY <2>2, <2>11, <2>8, <3>3, <3>4
      <4> QED
        BY <4>2, <4>3
    <3>7. \A i \in Trades' : delivered'[Cardinality({j \in Trades' : j <= i})] = rows'[i]
      BY <2>4, <3>1, <3>3, <3>5
    <3>8. Len(delivered') = Cardinality(Trades')
      BY <2>2, <2>4, <3>1, <3>3
    <3> QED
      BY <3>6, <3>7, <3>8 DEF TradesAreExact
  <2>10. CASE trade
    <3>1. SoundTrade(row) /\ row.price # 0 /\ row.cells
      BY <2>7, <2>10 DEF SoundTrade
    <3>2. delivered' = Append(delivered, row) /\ report' = Counted(TradeIssues(row))
      BY <1>2, <3>1 DEF ReadTrade
    <3>3. /\ Len(delivered') = m + 1 /\ delivered'[m + 1] = row
          /\ \A i \in 1 .. m : delivered'[i] = delivered[i]
      BY <2>2, <2>8, <3>2
    <3>4. report'.skipped = report.skipped
      BY <3>2, FindingsAreCounted, FindingsAreFindings DEF ReaderType
    <3>5. Trades' = Trades \cup {n + 1}
      BY <2>6, <2>10
    <3>6. Cardinality(Trades') = m + 1
      BY <2>4, <2>5, <3>5, FS_AddElement
    <3>7. ASSUME NEW i \in Trades'
          PROVE  delivered'[Cardinality({j \in Trades' : j <= i})] = rows'[i]
      <4>1. CASE i = n + 1
        <5>1. {j \in Trades' : j <= i} = Trades'
          <6>1. \A j \in Trades' : j <= n + 1
            BY <2>5, <3>5
          <6> QED
            BY <4>1, <6>1
        <5> QED
          BY <2>3, <3>3, <3>6, <4>1, <5>1
      <4>2. CASE i # n + 1
        <5>1. i \in Trades /\ i \in 1 .. n
          BY <2>5, <3>5, <3>7, <4>2
        <5>2. {j \in Trades' : j <= i} = {j \in Trades : j <= i}
          BY <3>5, <5>1
        <5> DEFINE upTo == {j \in Trades : j <= i}
        <5>3. IsFiniteSet(upTo) /\ Cardinality(upTo) \in Nat /\ Cardinality(upTo) <= m /\ i \in upTo
          BY <2>4, <2>5, <5>1, FS_Subset, FS_CardinalityType
        <5>4. Cardinality(upTo) # 0
          BY <5>3, FS_EmptySet
        <5>5. Cardinality(upTo) \in 1 .. m
          BY <5>3, <5>4
        <5>6. delivered[Cardinality(upTo)] = rows[i]
          BY <2>4, <5>1
        <5> HIDE DEF upTo
        <5>7. delivered'[Cardinality(upTo)] = rows'[i]
          BY <2>3, <3>3, <5>1, <5>5, <5>6
        <5> QED
          BY <5>2, <5>7 DEF upTo
      <4> QED
        BY <4>1, <4>2
    <3>8. \A i \in DOMAIN rows' : rows'[i].cells
      <4>1. \A i \in 1 .. n + 1 : i \in 1 .. n \/ i = n + 1
        OBVIOUS
      <4> QED
        BY <2>3, <2>4, <3>1, <4>1
    <3>9. Len(rows') = Len(delivered') + report'.skipped
      BY <2>11, <2>8, <3>3, <3>4
    <3> QED
      BY <3>3, <3>6, <3>7, <3>8, <3>9 DEF TradesAreExact
  <2> HIDE DEF trade
  <2> QED
    BY <2>9, <2>10
<1>3. \/ rows' = rows /\ delivered' = delivered /\ report' = report
         /\ (outcome = "reading" \/ outcome' = outcome)
      \/ \E row \in TradeRows : ReadTrade(row)
  BY DEF ReaderNext, Refuse, ContinueEvent, BeginEvent, EndOfFile, Cancel, Reads,
     readerVars, FinishEvent, ReaderType
<1> QED
  BY <1>1, <1>2, <1>3

LEMMA TradesInit ==
  ASSUME ReaderInit
  PROVE  TradesAreExact
<1>1. rows = <<>> /\ delivered = <<>> /\ report.skipped = 0 /\ DOMAIN rows = {}
  BY DEF ReaderInit, NoReport
<1>2. Trades = {}
  BY <1>1 DEF Trades
<1>3. Cardinality(Trades) = 0
  BY <1>2, FS_EmptySet
<1>4. Len(rows) = 0 /\ Len(delivered) = 0
  BY <1>1
<1> QED
  BY <1>1, <1>2, <1>3, <1>4 DEF TradesAreExact

-----------------------------------------------------------------------------
(* Whatever the rows of an archive are, what its reading delivers are the      *)
(* events, or the trades, that they are, and its report is true.               *)
THEOREM ReadingTellsTheTruth == ReaderSpec => []ReadingIsExact
<1> DEFINE Inv == ReaderType /\ ReadingInv /\ ReportInv /\ TradesAreExact
<1>1. ReaderInit => Inv
  BY ReadingInit, ReportInit, TradesInit
<1>2. Inv /\ [ReaderNext]_readerVars => Inv'
  BY ReaderTypeStep, ReadingStep, ReportStep, TradesStep
<1>3. Inv => ReadingIsExact
  BY DeliveryIsExact DEF ReadingIsExact, ReportInv, ReportIsExact
<1> QED
  BY <1>1, <1>2, <1>3, PTL DEF ReaderSpec
=============================================================================
